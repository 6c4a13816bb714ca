SPECIFICATION WaitingSpec
CONSTANTS
  j1 = j1
  j2 = j2
  j3 = j3
  Jobs = {j1, j2, j3}
  NoJob = NoJob
  Requests <- QueueRequests
  QueueSize = 1
  MaxCrashes = 1
  MaxFaults = 0
PROPERTIES
  EventuallyServing
  AcceptedIsBegun
\* A hung command behind a full channel stops a recovering server for good.
CHECK_DEADLOCK FALSE
