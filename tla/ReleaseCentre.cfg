SPECIFICATION Spec
CONSTANTS
  CallbackTasks = {"d1", "d2"}
  CallbackWorkers = {"w1", "w2"}
  RetryQueueSize = 1
  MaxConcurrent = 1
  CallbackSetups <- MCCallbackSetups
  Deliveries = {"p1", "p2"}
  HookCommits = {"c1"}
  Sources = {"github", "gitlab"}
  HookPayloads <- MCHookPayloads
  LimitKeys = {"k1"}
  MaxReqs = 2
  Window = 2
  BlockTime = 4
  Handlers = {"r1", "r2", "r3"}
  CatalogUsers = {"u", "v", "w"}
  CatalogPlans <- MCCatalogPlans
  ConfigClients <- MCConfigClients
  ConfigRuns = {"r1"}
  ConfigPlans <- MCConfigPlans
  AccountUsers = {"u", "w"}
  Menus = {"m1", "m2"}
  Lifetime = 3
  AccountPlans <- MCAccountPlans
  DefaultSize = 2
  LargestSize = 3
  Sizes = {0, 2, 4}
  Tables <- MCTables
  Online = {1, 9}
  HostJobs <- MCHostJobs
  Containers <- MCContainers
  GitJobs <- MCGitJobs
  GitDirs <- MCGitDirs
  KeyRequests = {"r1", "r2"}
  KeyPlans <- MCKeyPlans
  MaxHookEdits = 1
  MaxLimitTime = 10
  MaxConfigEdits = 1
  MaxRole = 4
  MaxAccountTime = 4
  MaxWrites = 1
  MaxPages = 5
INVARIANTS DeliveriesAreAccounted CommandsAreAsConfigured OnlyRacesBreak
PROPERTIES CallbacksFallQuiet
CHECK_DEADLOCK FALSE
