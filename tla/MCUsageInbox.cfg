CONSTANTS
  MaxRows = 3
  Limit = 2
  MaxAttempts = 2
  MaxFaults = 2
  MaxCrashes = 1
SPECIFICATION FairSpec
INVARIANTS ExactlyOnce NoSilentDrop
PROPERTIES HeadersAfterStatistics ImplementsLedger InboxSettles
