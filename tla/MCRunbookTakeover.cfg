CONSTANTS
  h1 = h1
  h2 = h2
  h3 = h3
  w1 = w1
  w2 = w2
  Run = {1}
  Host = {h1, h2}
  Worker = {w1, w2}
  Survivor = {w1}
  DryRun = {}
  Concurrency = 1
  MaxFailures = 1
  MaxRuns = 1
  MaxSessions = 2
  MayStall = FALSE
  MaxFaults = 2
  None = None
SPECIFICATION FairSpec
INVARIANTS ReaperSettles BlastRadius
PROPERTY EveryRunEnds
CHECK_DEADLOCK FALSE
