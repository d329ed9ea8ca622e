SPECIFICATION Spec
CONSTANTS
  Runs = {r1, r2}
  Service = {}
  MaxContainers = 2
  MaxCrashes = 0
  DockerFaults = FALSE
  NoCid = NoCid
PROPERTY AgentFaultScores
CHECK_DEADLOCK FALSE
