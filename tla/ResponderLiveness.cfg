CONSTANTS
  Hosts = {"h1"}
  Ports = {1, 2}
  MaxErrorCount = 1
  MaxPerIp = 1
  Supported = {13, 14}
  Scenarios <- LivenessScenarios
SPECIFICATION FairSpec
PROPERTIES UnwelcomePeersLeave RequestsAnswered
