CONSTANTS
  c1 = c1
  c2 = c2
  Clients <- MCClients
  Worker = Worker
  NoThread = NoThread
  Periodic = FALSE
  Calls <- MCCalls
SPECIFICATION FairSpec
INVARIANTS NoSleepOnWork
PROPERTIES LoopImplemented LoopCountsDown WaitSeesPayload WakeupServed WaitReturns
CHECK_DEADLOCK FALSE
