SPECIFICATION Spec
CONSTANTS
  a1 = a1
  a2 = a2
  i1 = i1
  i2 = i2
  Aliases = {a1, a2}
  Keys = {k1, k2, k3}
  Operators = {o1, o2}
  Invites = {i1, i2}
  Recipient <- TwoRecipients
  Requests = {r1, r2, r3, r4}
  Permits = 3
  None = None
SYMMETRY Interchangeable
INVARIANT TypeOK
INVARIANT KeyOnDisk
INVARIANT OneOperator
INVARIANT ClaimsAreWhole
PROPERTY ActiveKeyWasPublished
CHECK_DEADLOCK FALSE
