\* The services beside the usage pipeline, side by side.
CONSTANTS
  Parts = {"process", "backups", "proxies", "import", "edits", "resets", "updates", "recent"}
  Jobs = {j1, j2}
  Versions = {1, 2}
  MaxProcs = 3
  Day = 4
  Four = 1
  Intervals = {3, 4, 8}
  RetentionDays = 2
  RetryDelay = 1
  Horizon = 13
  Names = {1, 2}
  Urls = {"u", "v"}
  AuthFiles = {"a", "b"}
  Targets = {"latency", "gpt"}
  MaxEdits = 3
  Contents <- MCContents
  Nodes <- MCNodes
  Imports = {1, 2}
  MaxNow = 2
  MaxFailures = 1
  Editors = {"r", "s"}
  Named <- MCNamed
  Limit = 2
  Values = {"v"}
  MaxRest = 1
  AuthIndexes = {"a", "b"}
  Resetters = {"r", "s"}
  MaxCredits = 2
  Releases <- MCReleases
  Currents <- MCCurrents
  MaxPublished = 3
  PageOfTags = 2
  Accounts = {c1, c2}
  CacheWindow = 4
  CacheHealth = 4
  CacheSpan = 2
  CacheSlots = 1
  CacheTimes = {3, 5, 6, 8}
  CacheStart = 6
  CacheEnd = 9
  CacheRows = 3
  CacheRestarts = 1
  Hour = 4
  StdDay = 8
  Midnights = {0, 8}
SPECIFICATION ServicesSpec
SYMMETRY Symmetric
CHECK_DEADLOCK FALSE
INVARIANTS ProcessInHand ProxiesSound EachSessionHasItsFile AuthFilesChanged RedeemsOneByOne OffersTheNewest RecentEventsExact
 
