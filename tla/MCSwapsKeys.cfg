SPECIFICATION Spec
CONSTANTS
  Submarines = {sub}
  Reverses = {rev}
  Chains = {}
  Tasks = {t1, t2}
  MaxSwaps = 2
  MaxStatuses = 3
  None = None
  Torn = Torn
INVARIANT KeysStay
CHECK_DEADLOCK FALSE
