SPECIFICATION Spec
CONSTANTS
  j1 = j1
  j2 = j2
  j3 = j3
  Jobs = {j1, j2}
  NoJob = NoJob
  Requests <- QueueRequests
  QueueSize = 1
  MaxCrashes = 2
  MaxFaults = 1
SYMMETRY Symmetry
INVARIANTS
  NoDuplicateDelivery
  QueuedIsReachable
  NoOvertaking
  AtMostOnce
PROPERTY Implements
