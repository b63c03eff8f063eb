SPECIFICATION FairSpec
CONSTANTS
  NoPromise = NoPromise
  Promises = {p1, p2}
  MsgIds = {p1, p2}
  MsgOf <- OwnIds
  Responders = {r1}
  MaxCapacity = 1
  MaxCallers = 2
  DelayCap = 1
INVARIANTS WaitingIsFound CountTracksMap
PROPERTIES EachIsServed ImplementsReplyOnce
CHECK_DEADLOCK FALSE
