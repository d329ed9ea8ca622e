SPECIFICATION Spec
CONSTANTS
  Runs = {r1, s1}
  Service = {s1}
  MaxContainers = 2
  MaxCrashes = 0
  DockerFaults = FALSE
  NoCid = NoCid
PROPERTY SweepsOnlyStale
CHECK_DEADLOCK FALSE
