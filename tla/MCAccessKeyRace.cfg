CONSTANTS
  alice = alice
  bob = bob
  s1 = s1
  s2 = s2
  Person = {alice, bob}
  Creator = alice
  Sweeper = {s1}
  Kinds = {"ssh_key"}
  MaxAttempts = 2
  MaxExtends = 1
  MaxCrashes = 0
SPECIFICATION Spec
INVARIANT RevokedKeyIsGone
CHECK_DEADLOCK FALSE
