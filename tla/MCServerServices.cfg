SPECIFICATION Spec
CONSTANTS
  MaxFaults = 2
  Socket = {s1, s2}
  Person = {p1, p2}
  Cap = 1
  MaxAttempts = 2
  Checker = {c1}
  Threshold = 2
  MaxFlips = 4
  MaxMishaps = 2
INVARIANTS
  LabelIsTrue
  SlotsAreCounted
PROPERTIES
  ScriptSpec
  ExecSettles
  SocketsEnd
  
CHECK_DEADLOCK FALSE
