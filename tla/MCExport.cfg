CONSTANTS
  Procs = {p1, p2, p3}
  User = User
  Keys = {k1, k2}
  Policies = {p, q}
  None = None
  Absent = Absent
  MaxReceipts = 2
  MaxEdits = 2
SPECIFICATION ExportSpec
INVARIANTS
  DestinationIsWhole
  ReportStands
  VerdictIsEarned
PROPERTY
  NeverReplaced
SYMMETRY Symmetry
CHECK_DEADLOCK FALSE
