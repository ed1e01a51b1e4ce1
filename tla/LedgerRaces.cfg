SPECIFICATION Spec
CONSTANTS
  N = 2
  Controllers = {c1}
  Operators = {o1}
  Workers = {w}
  Orphans = TRUE
  Nobody = Nobody
  MaxEvents = 6
SYMMETRY Symmetry
CHECK_DEADLOCK FALSE
INVARIANTS TablesReplay
