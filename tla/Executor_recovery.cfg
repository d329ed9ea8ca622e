SPECIFICATION FairSpec
CONSTANTS
  Runs = {r1, s1}
  Service = {s1}
  MaxContainers = 2
  MaxCrashes = 1
  DockerFaults = FALSE
  NoCid = NoCid
PROPERTY RunEnds
CHECK_DEADLOCK FALSE
