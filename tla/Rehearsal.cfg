SPECIFICATION Spec
CONSTANTS
  a = a
  b = b
  s1 = s1
  Jobs = {j1, j2}
  Sites = {a, b}
  Snapshots = {s1}
  Requests <- SharedRequests
  Handlers = {h1}
  NoJob = NoJob
  NoFile = NoFile
  MaxFaults = 1
  MaxCrashes = 1
PROPERTY StopMeansGone
INVARIANTS
  RunningIsReachable
  Accounted
SYMMETRY Symmetry
CHECK_DEADLOCK FALSE
