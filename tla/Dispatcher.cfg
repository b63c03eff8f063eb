SPECIFICATION FairDispatcher
CONSTANTS
  Callers = {1, 2}
  Sync = {1, 2}
  Tasks = {1, 2, 3, 4}
  Msgs <- TwoBatches
  WorkerCount = 2
  QueueConfig = 3
  QueueCap = 1
  ByHash = {1}
  HashOf <- TwoHashes
INVARIANTS TasksAreKept
PROPERTIES TasksAreServed
CHECK_DEADLOCK FALSE
