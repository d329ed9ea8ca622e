SPECIFICATION Spec
CONSTANTS
  Runs = {r1, r2}
  Service = {}
  MaxContainers = 2
  MaxCrashes = 0
  DockerFaults = TRUE
  NoCid = NoCid
PROPERTY FaultNotKept
CHECK_DEADLOCK FALSE
