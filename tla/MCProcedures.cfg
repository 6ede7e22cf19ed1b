\* The inputs are bounded: a component may stop.
SPECIFICATION Spec
CONSTANTS
  Kinds = {"ping", "http", "iperf3", "speedtest", "traceroute"}
  MaxRuns = 4
  MaxChanges = 4
  FileTypes = {"1", "3", ""}
  MaxInstalls = 2
  Ids = {"d1", "d2"}
  Keys = {"k"}
  MAXDOWNLOADS = 1
  MaxCrashes = 2
  TechPages = {"t1", "t2"}
  DiagPages = {"d1", "d2"}
  MaxBoxes = 1
  MaxUpdates = 1
INVARIANTS TypeOK LatestRunIsTold
PROPERTY EveryRequestEnds
CHECK_DEADLOCK FALSE
