SPECIFICATION Spec
CONSTANTS
  Ids = {a, b}
  Keys = {k1, k2}
  Operators = {o1, o2}
  Handlers = {h1}
  None = None
  MaxEvents = 3
  MaxTime = 1
  ClockMayStepBack = TRUE
SYMMETRY Symmetry
PROPERTY AppendOnly
PROPERTY OwnerAuthorises
PROPERTY ImplementsDirectory
