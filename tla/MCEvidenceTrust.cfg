CONSTANTS
  Original = original
  Copied = copied
  None = None
  MaxReceipts = 2
  MaxLifecycle = 3
  MaxMoments = 7
SPECIFICATION BoundedSpec
INVARIANTS
  HonestEvidenceStands
  VerifiedIsOnTheLine
  CompromisedEvidenceIsAnchored
CHECK_DEADLOCK FALSE
