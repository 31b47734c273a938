SPECIFICATION Spec
CONSTANTS
  Witnesses = {w1, w2, w3}
  Faulty = {}
  K = 2
  Calls = {r1}
  a = a
  b = b
  m1 = m1
  Leaves = {a, b}
  Maps = {m1}
  Checkpoints <- Branches
  MaxTime = 0
  None = None
SYMMETRY WitnessSymmetry
INVARIANT CosignedIsPinned
INVARIANT NoSplitView
