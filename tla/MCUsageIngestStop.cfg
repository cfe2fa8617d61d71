CONSTANTS
  MaxMessages = 2
  Controls = {}
  BatchSize = 2
  MaxFaults = 0
SPECIFICATION Spec
INVARIANTS BatchWritten
CHECK_DEADLOCK FALSE
