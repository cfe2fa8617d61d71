\* The streams of the pages, the cooldowns and the refreshes, side by side.
CONSTANTS
  Parts = {"hub", "cooldown", "quota"}
  Clients = {"p"}
  BufferCap = 2
  ChannelCap = 1
  Hidden <- MCHidden
  MaxEvents = 5
  MaxBatch = 2
  MaxBreaks = 2
  MaxRestarts = 1
  Credentials = {"a", "b"}
  Starters = {"s1", "s2"}
  Restorers = {"r"}
  Job = "job"
  Limit = 2
  Durations = {1}
  MaxCalls = 1
  MaxTime = 2
  MaxDeleted = 1
  MaxFaults = 2
  Auths = {"a"}
  Manual = {"m"}
  Automatic = {"r"}
  Inspection = {"i"}
  Tokens = {"w"}
  NoAuth = "none"
  MaxRounds = 3
  MaxDbErrors = 0
  MaxSnapshots = 0
SPECIFICATION FairTasks
CHECK_DEADLOCK FALSE
INVARIANTS StreamFaithful OneActive
PROPERTIES CatchesUp DueRestored RefreshesSettle
