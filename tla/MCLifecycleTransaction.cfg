CONSTANTS
  None = None
  Torn = Torn
  MaxRecords = 4
  MaxKeys = 6
  MaxInterruptions = 3
SPECIFICATION FairSpec
INVARIANTS
  LiveKeysLoad
  SettledHomeIsClean
PROPERTIES
  ImplementsAuthority
  DurableMutationSettles
CHECK_DEADLOCK FALSE
