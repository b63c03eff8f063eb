SPECIFICATION FairBatch
CONSTANTS
  BatchSize = 3
  MaxConcurrency = 1
  MaxRetries = 1
INVARIANTS CountsAddUp EndIsExact RunsAreEarned
PROPERTIES JobEnds
CHECK_DEADLOCK FALSE
