CONSTANTS
  r1 = r1
  r2 = r2
  tester = tester
  Delivery = {1}
  Trigger = {1}
  Replica = {r1, r2}
  Tester = tester
  MaxAttempts = 2
  MaxFaults = 2
  MaxStalls = 1
  None = None
SPECIFICATION FairSpec
INVARIANTS OneSender SendsAreCounted
PROPERTIES DeliveriesEnd
CHECK_DEADLOCK FALSE
