SPECIFICATION Spec
CONSTANTS
  N = 3
  Controllers = {c1, c2}
  Operators = {}
  Workers = {w}
  Orphans = FALSE
  Nobody = Nobody
  MaxEvents = 12
SYMMETRY Symmetry
CHECK_DEADLOCK FALSE
INVARIANTS ChainVerifies DependenciesHold
PROPERTIES ImplementsAtomicLedger
