CONSTANTS
  MaxRequests = 3
  MaxFailures = 1
SPECIFICATION FairSpec
INVARIANTS RefreshesMerged
PROPERTIES SyncsGoOn
CHECK_DEADLOCK FALSE
