SPECIFICATION LiveSpec
CONSTANTS
  j1 = j1
  j2 = j2
  j3 = j3
  Jobs = {j1}
  NoJob = NoJob
  Requests <- BackupRequests
  QueueSize = 1
  MaxCrashes = 0
  MaxFaults = 0
PROPERTY CancelIsFinal
