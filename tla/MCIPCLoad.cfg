SPECIFICATION Spec
CONSTANTS
  InterruptTicks = 1
  RequestTicks = 2
  ReplyTicks = {1, 3}
  MaxRequests = 3
  MaxLoads = 1
CHECK_DEADLOCK FALSE
INVARIANTS LaunchAckedTwice
