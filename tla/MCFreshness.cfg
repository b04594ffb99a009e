CONSTANTS
  Homes = {h1, h2}
  Procs = {p1, p2}
  Contents = {a, b}
  Absent = Absent
  MaxLength = 2
SPECIFICATION StoreSpec
PROPERTIES
  StoreOnlyAdvances
  GatedActsAreCurrent
SYMMETRY Symmetry
CHECK_DEADLOCK FALSE
