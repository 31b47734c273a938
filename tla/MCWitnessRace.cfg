SPECIFICATION Spec
CONSTANTS
  Witnesses = {w1, w2}
  Faulty = {w2}
  K = 2
  Calls = {r1, r2}
  a = a
  b = b
  m1 = m1
  Leaves = {a, b}
  Maps = {m1}
  Checkpoints <- Branches
  MaxTime = 1
  None = None
SYMMETRY WitnessSymmetry
INVARIANT TypeOK
INVARIANT CosignedIsPinned
INVARIANT NoSplitView
