SPECIFICATION Spec
CONSTANTS
  Aliases = {a}
  Outsider = x
  Rails = {"Bolt12", "Onchain"}
  Life = 1
  Grace = 0
  MaxKeys = 3
  MaxSeq = 3
  MaxTime = 1
  None = None
  Torn = Torn
INVARIANT OwnKeysKept
INVARIANT ProofsMatchIdentity
PROPERTY NoTakeover
CHECK_DEADLOCK FALSE
