CONSTANTS
  Peers = {"p1"}
  MaxPeers = 3
  MaxWarm = 2
  MaxHot = 1
  Ranges = {"r1"}
  Ebs = {"e1", "e2"}
  MaxErrorCount = 1
  HighWaterMark = 2
  MaxErrors = 1
  Scenarios <- TwoConnects
SPECIFICATION Spec
INVARIANT HandshakeNotStarted
