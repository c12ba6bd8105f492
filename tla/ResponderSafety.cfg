CONSTANTS
  Hosts = {"h1"}
  Ports = {1, 2, 3}
  MaxErrorCount = 1
  MaxPerIp = 1
  Supported = {13, 14}
  Scenarios <- SafetyScenarios
SPECIFICATION Spec
INVARIANTS TypeOK AnswersInTurn ClientsNotAccused SlotsExact ActivePeersTracked
PROPERTIES ConnectionsTracked
