SPECIFICATION RecordingSpec
CONSTANTS
  SshCalls = {"a", "b", "c"}
  SshPlans <- MCSshPlans
  Terminals = {"t1"}
  MaxLines = 2
  StoreKinds = {"none", "file", "postgres"}
  AuditKinds = {"file", "sessions", "postgres"}
  AuditSessions = {"s1", "s2"}
  AuditDays = {1, 2}
  MaxRecords = 2
  RecordingIds = {"r1"}
  RecordingCalls = {"c1", "c2"}
  RecordingPlans <- MCRecordingPlans
  RecordingDays = 1
  MaxTime = 3
  Browsers = {"w1", "w2"}
  HubSize = 1
  SendSize = 2
  MaxNotices = 4
  Transfers = {"t1", "t2"}
  TransferWorkers = {"w1", "w2"}
  TransferRequests = {"q1", "q2"}
  TaskQueueSize = 1
  TransferPlans <- MCTransferPlans
  MessageCalls = {"p", "q"}
  MessageClients = {"m1", "m2"}
  Waiters = {"w1", "w2"}
  MessageQueueSize = 1
  MessageWorkers = 1
  Tokens = 1
  MessagePlans <- MCMessagePlans
PROPERTY RequestsEnd
CHECK_DEADLOCK FALSE
