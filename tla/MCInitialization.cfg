CONSTANTS
  None = None
  Torn = Torn
  Proc = {p1, p2}
  Paths = {x, y}
  MaxAttempts = 2
  MaxKills <- MCMaxKills
SPECIFICATION FairSpec
INVARIANTS
  HomeHasItsPackage
  AllOrNothing
PROPERTIES
  DurableInitializationSettles
CHECK_DEADLOCK FALSE
