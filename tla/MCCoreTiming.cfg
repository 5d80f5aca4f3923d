SPECIFICATION Spec
CONSTANTS
  Types = {a}
  Delays <- MCDelays
  OCFactors <- MCFactors
  ClockRatio <- MCRatio
  MAX_SLICE_LENGTH = 3
  MaxBlock = 2
  MaxTime = 5
  MaxEvents = 2
  NoEvent = NoEvent
  NoState = NoState
  Ops = {"OffThread", "Force", "Idle", "SingleStep", "Break", "Restart", "Remove", "RemoveAll", "Adjust", "SaveState"}
INVARIANTS SliceEndsByNextEvent
PROPERTIES LateByABlock TicksMonotone FifoAmongEqualTimes
CONSTRAINT MCBound
