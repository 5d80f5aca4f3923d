CONSTANTS
  CPEnd = 2
  CPHiWatermark = 1
  CPLoWatermark = 1
  Controls <- MCControls
  Slots = {1}
  Cycles = {1, 2}
  Breakpoints = {1}
  iSyncGpuMinDistance <- MCMin
  iSyncGpuMaxDistance = 2
SPECIFICATION FairSpec
INVARIANTS StillWhenFlushed DistanceAgrees NoStrandedWork InterruptSettles SyncBound
PROPERTIES WaitsEnd
CHECK_DEADLOCK FALSE
