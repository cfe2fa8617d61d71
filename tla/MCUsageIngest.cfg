CONSTANTS
  MaxMessages = 4
  Controls = {2}
  BatchSize = 2
  MaxFaults = 3
SPECIFICATION FairSpec
INVARIANTS Accounted BackfillComplete
PROPERTIES LinkLossMeansPolling IngestRecovers
CHECK_DEADLOCK FALSE
