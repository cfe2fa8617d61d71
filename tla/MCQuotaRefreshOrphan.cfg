\* A query that fails in the middle of a request: QueuedIsOwned is refuted.
SPECIFICATION Spec
CONSTANTS
  a1 = a1
  a2 = a2
  m1 = m1
  r1 = r1
  r2 = r2
  i1 = i1
  i2 = i2
  w1 = w1
  w2 = w2
  NoAuth = NoAuth
  Auths = {a1, a2}
  Manual = {m1}
  Automatic = {}
  Inspection = {}
  Tokens = {w1}
  MaxRounds = 1
  MaxDbErrors = 1
  MaxSnapshots = 0
INVARIANTS
  QueuedIsOwned
CHECK_DEADLOCK FALSE
