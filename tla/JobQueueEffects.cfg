SPECIFICATION Spec
CONSTANTS
  j1 = j1
  j2 = j2
  j3 = j3
  Jobs = {j1}
  NoJob = NoJob
  Requests <- EffectRequests
  QueueSize = 1
  MaxCrashes = 1
  MaxFaults = 1
INVARIANTS
  HonouredCancelIsClean
  ReturnLeavesNoTemp
  CompletedRestoreIsWhole
  FilesAfterDatabase
