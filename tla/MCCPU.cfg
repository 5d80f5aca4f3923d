CONSTANTS
  Hosts = {h1, h2}
  None = None
SPECIFICATION FairSpec
INVARIANTS OneCPUThread HaltHonoured
PROPERTIES PowerDownSticks HostCallReturns PowerDownExits ResumeRuns StepServed
