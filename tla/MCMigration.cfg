CONSTANTS
  None = None
  Torn = Torn
  Proc = {p1, p2}
  Paths = {x, y}
  MaxAttempts = 2
  MaxKills = 2
SPECIFICATION FairSpec
INVARIANTS
  LegacyKeyIsSafe
  AllOrNothing
  GenesisNamesAReceipt
PROPERTIES
  DurableMigrationSettles
CHECK_DEADLOCK FALSE
