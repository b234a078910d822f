CONSTANTS
  h1 = h1
  h2 = h2
  h3 = h3
  w1 = w1
  w2 = w2
  Run = {1}
  Host = {h1, h2}
  Worker = {w1, w2}
  Survivor = {}
  DryRun = {}
  Concurrency = 2
  MaxFailures = 1
  MaxRuns = 1
  MaxSessions = 2
  MayStall = TRUE
  MaxFaults = 0
  None = None
SPECIFICATION Spec
SYMMETRY FullSymmetry
INVARIANTS OneExecutor OutcomeIsTrue
PROPERTIES HostResultsAreFinal LifecycleSpec
CHECK_DEADLOCK FALSE
