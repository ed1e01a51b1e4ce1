SPECIFICATION Spec
CONSTANTS
  N = 2
  Controllers = {c1}
  Operators = {o1}
  Workers = {w}
  Orphans = FALSE
  Nobody = Nobody
  MaxEvents = 7
SYMMETRY Symmetry
CHECK_DEADLOCK FALSE
INVARIANT ChainVerifies
