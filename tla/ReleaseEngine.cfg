SPECIFICATION FairSpec
CONSTANTS
  TargetIDs <- MCTargets
  Plans <- MCPlans
  MaxRequests = 3
INVARIANTS ReleasesAreWhole
PROPERTIES StartsAreAllowed EventuallySettled
CHECK_DEADLOCK FALSE
