SPECIFICATION Spec
CONSTANTS
  a1 = a1
  a2 = a2
  s1 = s1
  s2 = s2
  r1 = r1
  Job = Job
  Auths = {a1}
  Starters = {s1}
  Restorers = {}
  Limit = 1
  Durations = {1}
  MaxCalls = 2
  MaxTime = 2
  MaxDeleted = 0
  MaxFaults = 0
INVARIANTS
  CooldownKept
CHECK_DEADLOCK FALSE
