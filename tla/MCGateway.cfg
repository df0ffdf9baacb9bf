CONSTANTS
  Names = {p1, p2}
  Statements = {permit, narrowed}
  MaxPolls = 2
  MaxTries = 2
  MaxRequests = 3
  Projects = {"p", "q"}
  Environments <- TwoEnvironments
  Sees <- Seen
  ConnectionLists <- TwoConnectionLists
  Grants <- SomeGrants
  Calls <- SomeCalls
  Margin = 1
  Timeout = 2
  Fallback = 3
  Life = 4
  TTL = 2
  QueryMinutes = 1
  Project = "p"
  AssetListings <- ThreeListings
  Types = {"", "s3"}
  PageSize = 2
  MaxColumns = 5
  ChunkSize = 2
  MaxConcurrent = 2
  MonthDays <- TwoYears
  RowSets <- Results
  Freqs <- Frequencies
  Horizons = {0, 1}
  FillPolicies = {"zero", "forward_fill", "error"}
  MaxSeries = 2
  PageRows = 3
  MinObservations = 3
  MaxContext = 4
  MaxHorizon = 2
SPECIFICATION GatewaySpec
INVARIANTS SyncedOnSuccess  UsesOwnCredentials  GrantedIsReadable AnswerIsTrue DetailAccountsForAll 
PROPERTIES RequestsEnd
CHECK_DEADLOCK FALSE
