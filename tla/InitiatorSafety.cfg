CONSTANTS
  Peers = {"p1", "p2", "p3"}
  MaxPeers = 2
  MaxWarm = 1
  MaxHot = 1
  Ranges = {"r1"}
  Ebs = {"e1", "e2"}
  MaxErrorCount = 1
  HighWaterMark = 2
  MaxErrors = 1
  Scenarios <- SafetyScenarios
SPECIFICATION Spec
INVARIANTS TypeOK NeverOffends AccusedOnlyWhenLate LeiosOnlyWhenNegotiated RangesNotLost
  NoUnderflow BannedStaysOut TagImpliesSlot
PROPERTIES Governance BansArePermanent
