SPECIFICATION ScheduleSpec
CONSTANTS
  Replica = {w1}
  Editor = {e1}
  Period = 2
  MaxTime = 4
  MaxActive = 2
  MaxFired = 2
  None = None
INVARIANT NeverTwice
CHECK_DEADLOCK FALSE
