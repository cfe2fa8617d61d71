SPECIFICATION Spec
CONSTANTS
  c1 = c1
  c2 = c2
  BufferCap = 2
  ChannelCap = 1
  Hidden <- MCHidden
  Clients = {c1}
  MaxEvents = 4
  MaxBatch = 2
  MaxBreaks = 2
  MaxRestarts = 1
INVARIANTS
  OldNumberNoticed
CHECK_DEADLOCK FALSE
