CONSTANTS
  j1 = j1
  j2 = j2
  s1 = s1
  s2 = s2
  e1 = e1
  Pinger = {j1}
  Sweeper = {s1}
  Editor = {e1}
  Period = 2
  Graces = {0, 1}
  Runtime = 1
  Notifies = {TRUE}
  Skew = 0
  ResumeOnPing = TRUE
  MaxTime = 2
  MaxCrashes = 1
  None = None
SPECIFICATION FairSpec
INVARIANT DownIsAlerted
PROPERTIES PingsWin OverdueGoesDown
CHECK_DEADLOCK FALSE
