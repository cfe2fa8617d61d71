SPECIFICATION Spec
CONSTANTS
  a1 = a1
  a2 = a2
  m1 = m1
  r1 = r1
  r2 = r2
  i1 = i1
  i2 = i2
  w1 = w1
  w2 = w2
  NoAuth = NoAuth
  Auths = {a1}
  Manual = {m1}
  Automatic = {r1, r2}
  Inspection = {i1}
  Tokens = {w1, w2}
  MaxRounds = 3
  MaxDbErrors = 1
  MaxSnapshots = 1
INVARIANTS
  OneAtATime
PROPERTIES
  StopIsFinal CacheNotOlder
SYMMETRY Interchangeable
CHECK_DEADLOCK FALSE
