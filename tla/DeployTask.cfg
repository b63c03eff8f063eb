SPECIFICATION Spec
CONSTANTS
  ClientIDs <- TwoClients
  Plans <- SmallPlans
  MaxRequests = 3
INVARIANT DeploysAreSound
PROPERTIES EventuallySettled
CHECK_DEADLOCK FALSE
