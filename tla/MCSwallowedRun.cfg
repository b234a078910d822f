SPECIFICATION DeadlineSpec
CONSTANTS
  Day = 12
  Schedules = {{0, 2, 4, 6, 8, 10}}
  GraceTimes = {3}
  Runtime = 3
  MaxSkew = 2
  Jumps = {99}
  Shift = 3
  Lookback = 9
  Horizon = 12
  MaxRevisions = 0
  Unset = unset
INVARIANT EveryRunIsExpected
CHECK_DEADLOCK FALSE
