CONSTANTS
  None = None
  Requests = {"a"}
  Ids = {1, 2, 3}
  Keys = {1, 2, 3}
  GenesisKey = 1
  MaxLog = 3
  MaxRecords = 5
SPECIFICATION Spec
INVARIANTS
  EveryReceiptAuthorized
  OneSigner
PROPERTY
  ClosedForEver
CHECK_DEADLOCK FALSE
