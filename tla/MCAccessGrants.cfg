CONSTANTS
  alice = alice
  bob = bob
  s1 = s1
  s2 = s2
  Person = {alice, bob}
  Creator = alice
  Sweeper = {s1}
  Kinds = {"os_user", "ssh_key"}
  MaxAttempts = 2
  MaxExtends = 1
  MaxCrashes = 1
SPECIFICATION FairSpec
INVARIANTS OneToucher RevokedAccountIsGone FailedIsAlerted
PROPERTIES RevokedIsFinal ExpiryIsSettled
CHECK_DEADLOCK FALSE
