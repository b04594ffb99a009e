CONSTANTS
  Nothing = Nothing
  Recoveries = {p1, p2}
  MaxEpochs = 2
  MaxInterruptions = 3
SPECIFICATION FairRecover
PROPERTIES
  SuccessLeavesNothing
  
CHECK_DEADLOCK FALSE
