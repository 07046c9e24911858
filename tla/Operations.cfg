SPECIFICATION OperationsSpec
CONSTANTS
  Jobs <- AllJobs
  Teams <- OneTool
  MaxFaults = 2
  MaxStarts = 4
  Executions = {"ex1", "ex2"}
  Rollbacks = {"rb1", "rb2", "rb3"}
  ExecutionOf <- FirstOrSecond
  MaxRouteFaults = 2
  MaxEdits = 1
  Instances = {"a", "b", "old"}
  VaultOf <- Vaults
  Legacy = {"old"}
  Operators = {"operator"}
  MaxHostFaults = 3
  MaxCommands = 5
  Processes = {"p1", "p2", "p3"}
  Hosts = {"here"}
  HostOf <- OneHost
  MaxAttempts <- TwiceForOne
  None = None
  Installers = {"i1", "i2"}
  Releases = {1, 2}
  ReleaseFiles <- TwoReleases
  MaxReleaseFaults = 3
  Conversations = {"a", "b"}
  Texts = {"t"}
  DailyBudget = 2
  MaxCost = 2
  MaxTime = 2
  MaxDay = 2
  MaxTickFaults = 1
  Runners = {"u1", "u2"}
  Catalogs <- CatalogContents
  Baseline <- AttestedCatalog
  BatchSize = 2
  MaxDisturbances = 2
  Identities = {"a", "b", "c", "d"}
  Enrolled = {"a", "b", "c"}
  IdentityRequests <- AllIdentityRequests
  IdentityProcesses = {p1, p2, p3}
  MaxIdentityCalls = 3
  MaxIdentityFailures = 1
  Nobody = "nobody"
  Sources <- GroupSources
  Pasts <- SomePasts
  MaxGroups = 2
  MaxObservations = 2
  MaxOutputEvents = 2
  MaxReplayBatches = 2
  MaxReplayRuns = 3
  MaxReplayFaults = 2
  MaxWindow = 3
  MaxCalls = 2
  MaxPending = 1
  MaxSamplerFaults = 1
  Collectors = {"g1", "g2"}
  ExpiredRows = 3
  RowsPerBatch = 1
  MaxBatches = 3
  MaxGcFaults = 2
  LastResource = 3
  MaxGenerations = 5
  MaxClients = 2
  Bearers = {"b1"}
  RegistryEdits <- Withdrawn
  SessionIds = {"h1", "h2"}
  Unset = "unset"
  Mixes <- AllMixes
  MaxGlobal = 2
  MaxPerActor = 1
  SessionTtl = 1
  MaxTicks = 1
  MaxServerFaults = 1
  RootPath = "r"
  Children <- HostTree
  PathOrder <- HostOrder
  MaxEntries = 1
  EarlierFiles = {{"r", "d", "f"}}
  MaxDiskChanges = 2
  MaxCatalogScans = 2
  MaxCatalogFaults = 1
INVARIANTS ProvisionedTogether ReportedStays RouteIsRecorded HolderIsAtPath
  ReleaseIsSafe 
  MergesAreAcyclic SampledCallsAreKept LogAccountsForDeletions CompletionIsEarned
  OpenOnlyWhileStarted TraversalIsFaithful RequestsAreServedSoundly CatalogIsFaithful
PROPERTIES EditsSurvive VaultsStayServed
CHECK_DEADLOCK FALSE
