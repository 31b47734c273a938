SPECIFICATION AnySpec
CONSTANTS
  Base = 256
  KeyLen = 1
  Garbage = Garbage
  None = None
  Down = Down
  Empty = Empty
  Infinity = Infinity
  l1 = l1
  l2 = l2
  l3 = l3
  l4 = l4
  l5 = l5
  l6 = l6
  l7 = l7
  l8 = l8
  forged = forged
  Burst = 4
  One = 2
  Rate = 1
  Interval = 1
  Workers = {w1, w2}
  Addresses = {1, 2}
  HeaderLists <- SomeHeaders
  MaxSeconds = 2
  core = core
  esplora = esplora
  mempool = mempool
  q1 = q1
  q2 = q2
  Silent = Silent
  Fetches = {q1, q2}
  Sources = {core, esplora, mempool}
  Kind <- KindOf
  Replies <- RepliesOf
  Liars = {mempool}
  MinSources = 2
  Staleness = 2
  MaxTime = 2
  Grace = 1
  Profiles <- SomeProfiles
  Asks <- AsksOf
  LnurlAnswers <- SomeLnurlAnswers
  Bolt12Answers <- SomeBolt12Answers
INVARIANT PaysTheRecipient
INVARIANT HonestRange
INVARIANT CodecRoundTrip
INVARIANT TreeProofsSound
INVARIANT OwnershipSound
INVARIANT SilentPaymentsFound
INVARIANT BurstBound
INVARIANT SelectionsAgree
INVARIANT NoSubstitution
SYMMETRY Interchangeable
CHECK_DEADLOCK FALSE
