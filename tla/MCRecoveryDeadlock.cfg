CONSTANTS
  Nothing = Nothing
  Recoveries = {p1}
  MaxEpochs = 1
  MaxInterruptions = 1
SPECIFICATION FairOrder
PROPERTIES
  EveryMutationIsRecovered
CHECK_DEADLOCK FALSE
