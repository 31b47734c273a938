SPECIFICATION ResolutionSpec
CONSTANTS
  Ids = {a}
  Keys = {k1}
  Operators = {o1}
  Handlers = {h1, r1, r2}
  Resolvers = {r1, r2}
  None = None
  MaxEvents = 2
  MaxTime = 0
  ClockMayStepBack = FALSE
SYMMETRY Symmetry
INVARIANT AnswersAgree
