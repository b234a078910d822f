SPECIFICATION Spec
CONSTANTS
  Replica = {w1, w2}
  Editor = {e1, e2}
  Period = 2
  MaxTime = 4
  MaxActive = 2
  MaxFired = 2
  None = None
  Operator = {o1, o2}
  MaxRows = 2
  MaxTokens = 3
  MaxEdits = 1
  MaxUnknown = 1
  Texts = {t1, t2}
  Labels = {la}
  Marks = {m1}
  Unnamed = none
  MaxLines = 4
  Day = 12
  Schedules = {{6}, {0, 2}, {0, 2, 4, 6, 8, 10}}
  GraceTimes = {0, 3}
  Runtime = 3
  MaxSkew = 2
  Jumps = {5, 99}
  Shift = 3
  Lookback = 9
  Horizon = 12
  MaxRevisions = 1
  Unset = unset
  Actor = {a1, a2}
  Category = {c1}
  Content = {1, 2, 3}
  Unread = 0
  Keep = 2
  MaxSnaps = 3
  MaxChanges = 2
  MaxLost = 1
SYMMETRY ScheduleSymmetry
INVARIANTS
  OncePerOccurrence
  MonitorIsWhole
  SilenceIsNoticed
  DriftIsOnRecord
PROPERTIES
  JobListSpec
  DiffIsExact
  NoFalseAlarm
CHECK_DEADLOCK FALSE
