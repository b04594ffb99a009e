CONSTANTS
  Flags <- MCFlags
  Assignments <- MCAssignments
  Roots <- MCRoots
  Alias <- MCAlias
  Cluster <- MCCluster
  Wrappers <- MCWrappers
  Elevating <- MCElevating
  OwnFlags <- MCOwnFlags
  Table <- MCTable
  Commands <- MCCommands
  Arguments <- MCArguments
  Takes <- MCTakes
  Values <- MCValues
  MaxTokens = 4
  MaxOwn = 2
  Procs = {p, q}
  Lines <- MCLines
  Versions = {1, 2}
  Tables <- MCTables
  Results = {ok, other}
  Given <- MCGiven
  None = None
  MaxLog = 4
SPECIFICATION LineSpec
INVARIANTS
  LogAccountsForRuns
  DivergenceIsARuleChange
  RefusedBehindWrappers
  SpellingKeepsClass
PROPERTIES
  ReplayRunsWhatItMay
SYMMETRY Symmetry
CHECK_DEADLOCK FALSE
