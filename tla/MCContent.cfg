\* The identities, the API keys of CPA, the prices, the sessions and the queries, side by side.
CONSTANTS
  Parts = {"identities", "keys", "prices", "login", "queries"}
  AuthFiles = {f}
  ProviderKeys = {k}
  FileTypes = {"codex", "claude"}
  ProviderTypes <- MCProviderTypes
  Fallback = "openai"
  EventProvider = "openai"
  FirstLists <- MCFirstLists
  FirstRows <- MCFirstRows
  Aliases = {"x"}
  PageSize = 1
  MaxChanges = 1
  MaxEvents = 1
  KeyValues = {"k1", "k2"}
  Names = {"x"}
  MaxKeyEdits = 3
  Models = {"gpt"}
  ProviderIds <- MCProviderIds
  Family <- MCFamily
  Official <- MCOfficial
  CommonRank <- MCCommonRank
  Entries <- MCEntries
  CatalogSize = 2
  Inputs <- MCInputs
  Users = {1, 2}
  MaxEdits = 2
  RawTokens <- MCRawTokens
  Tokens = {s, t}
  ApiKeyIds = {1}
  Clients = {"c"}
  Requests = {r1, r2}
  Ttl = 1
  MaxFailedLoginAttempts = 1
  MaxNow = 1
  MaxErrors = 1
  MaxFails = 3
  Hour = 4
  StdDay = 8
  Midnights <- MCMidnights
  Window = 6
  HealthWindow = 6
  HealthSpan = 3
  Slots = 1
  Credentials = {c1}
  EventTimes <- QueryEventTimes
  FirstTime = 20
  MaxTime = 21
  MaxRows = 2
  MaxRestarts = 1
  Presets <- MCPresets
  WeekRange = "d7"
  ShortRanges = {"h6", "today", "yesterday"}
  Week = 12
  ShortSpan = 3
  LongSpan = 2
  LongWindow = 8
  CustomRanges <- MCCustom
  RawOnly = 4
  RealtimeWindow = 3
  RealtimeSpan = 1
  RealtimeAggregation = 2
  QueryTime = 1
  Kinds = {"overview", "analysis", "quota", "realtime", "page"}
SPECIFICATION ContentSpec
SYMMETRY Symmetric
CHECK_DEADLOCK FALSE
INVARIANTS  TypedBySteadyIdentity ApiKeysKept BestProposal ChargedSoundly SessionsKept AnswersCountOnce AnswersStayInside 
 
