SPECIFICATION Spec
CONSTANTS
  Handlers = {"h1", "h2", "h3", "h4"}
  Contents = {"x", "y"}
  GrayRuleIds = {"g"}
  EditSessions = {"s1", "s2"}
  LockTTL = 1
  ConfigPlans <- MCConfigPlans
  Subscribers = {"c1", "c2"}
  ConfigKeys = {"k1", "k2"}
  PushCalls = {1, 2, 3}
  Pushes = {1, 2}
  PushPlans <- MCPushPlans
  Fingerprints = {"f1"}
  AlertRules = {"r"}
  AlertCalls = {1, 2, 3}
  Channels = {"d1", "d2"}
  Notifiers = {"w"}
  NoticeQueueSize = 1
  AlertTimeout = 0
  AlertPlans <- MCAlertPlans
  Tasks = {1, 2}
  Groups = {1, 2}
  TaskClients = {"c1"}
  TaskRequests = {1, 2, 3}
  TaskPlans <- MCTaskPlans
  ConnectedSessions = {"s1", "s2"}
  ClientOf <- MCClientOf
  ShardOf <- MCShardOf
  SlotSize = 4
  TimeoutTicks = 2
  Interval = 2
  Grace = 1
  MaxTimeoutCount = 2
  Answers = {"a1"}
  ReportQueueSize = 1
  CacheTTL = 2
  OfflineTimeout = 1
  ReportPlans <- MCReportPlans
  MaxConfigTime = 3
  MaxAlertTime = 1
  MaxReportTime = 2
  MaxPushRestarts = 1
  MaxTaskRestarts = 1
  MaxRuleEdits = 3
  MaxCloseAll = 1
INVARIANTS JobsFollowRows SessionsAreCounted 
PROPERTIES LockIsKept NoneAfterUnsubscribe CreatedOnce WorkEnds
CHECK_DEADLOCK FALSE
