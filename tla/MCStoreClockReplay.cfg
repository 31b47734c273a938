SPECIFICATION Spec
CONSTANTS
  Ids = {a}
  Keys = {k1}
  Operators = {o1}
  Handlers = {h1}
  None = None
  MaxEvents = 2
  MaxTime = 1
  ClockMayStepBack = TRUE
SYMMETRY Symmetry
INVARIANT StoreReplays
