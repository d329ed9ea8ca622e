SPECIFICATION Spec
CONSTANTS
  Runs = {r1, s1}
  Service = {s1}
  MaxContainers = 2
  MaxCrashes = 1
  DockerFaults = TRUE
  NoCid = NoCid
INVARIANTS TypeOK OrphansExplained NothingLeftOver
PROPERTY BlameIsFounded
CHECK_DEADLOCK FALSE
