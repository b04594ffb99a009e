CONSTANTS
  None = None
  Proc = {p1, p2}
  Requests = {"a", "b"}
  MaxReceipts = 3
  MaxCrashes = 2
SPECIFICATION FairSpec
INVARIANTS
  ChainHolds
  QuietHomeIsComplete
  NeverRefused
  ExportStands
PROPERTIES
  ImplementsLog
  RecoverIsHonest
  InterruptedWriteCompletes
CHECK_DEADLOCK FALSE
