SPECIFICATION Spec
CONSTANTS
  Submarines = {sub}
  Reverses = {rev}
  Chains = {ch}
  Tasks = {t1, t2}
  MaxSwaps = 2
  MaxStatuses = 3
  None = None
  Torn = Torn
INVARIANT TypeOK
INVARIANT RecordNeverAhead
INVARIANT KeysKept
PROPERTY CallsReturn
CHECK_DEADLOCK FALSE
