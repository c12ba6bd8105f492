SPECIFICATION FairSpec
CONSTANTS
  Protocols = {1, 2}
  MaxSegment = 2
  QueueSize = 1
  BearerSize = 3
  Sizes = {1, 3}
  MaxRequests = 1
  Scenarios <- MCScenarios
INVARIANTS TypeOK NothingLost
PROPERTIES Delivery EveryMessageArrives NobodyWaitsAfterAbort
CHECK_DEADLOCK FALSE
