CONSTANTS
  AuthFiles = {a}
  Providers = {p}
  MaxEvents = 2
  MaxInsert = 2
  BatchSize = 1
  MaxFaults = 1
  MaxCrashes = 1
SPECIFICATION FairSpec
INVARIANTS TotalsExact OverviewOnce
 
