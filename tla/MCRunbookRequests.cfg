CONSTANTS
  admin1 = admin1
  admin2 = admin2
  editor = editor
  Run = {1}
  User = {admin1, admin2, editor}
  Approver = {admin1, admin2}
  AsRoot = TRUE
  None = None
SPECIFICATION FairSpec
INVARIANTS FourEyes
PROPERTIES LifecycleSpec ApprovalsResolve
CHECK_DEADLOCK FALSE
