CONSTANTS
  Discs = {d1}
  NoDisc = NoDisc
  None = None
  Ops = {"SetDisc", "Query", "Save", "Load", "Stop"}
  MaxReads = 3
SPECIFICATION FairSpec
INVARIANTS RightResult IdleUnlessMistaken
PROPERTIES FinishReturns WaitReturns
CHECK_DEADLOCK FALSE
