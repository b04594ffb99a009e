CONSTANTS
  None = None
  Proc = {p1, p2}
  Requests = {"a"}
  MaxReceipts = 2
  MaxCrashes = 2
  MaxRecords = 3
SYMMETRY Invocations
SPECIFICATION HomeSpec
INVARIANTS
  CustodyFollowsLifecycle
  OwnPairIsRecoverable
PROPERTIES
  ImplementsAuthority
CHECK_DEADLOCK FALSE
