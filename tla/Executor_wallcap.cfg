SPECIFICATION Spec
CONSTANTS
  Runs = {r1, r2}
  Service = {}
  MaxContainers = 2
  MaxCrashes = 0
  DockerFaults = FALSE
  NoCid = NoCid
PROPERTY WallCapIsAgentFault
CHECK_DEADLOCK FALSE
