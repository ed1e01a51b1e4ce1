SPECIFICATION Spec
CONSTANTS
  None = None
  a = a
  b = b
  AnalysisReview = FALSE
  Revisions = {1, 2}
  Contents = {a, b}
  MaxJobs = 3
  MaxKills = 1
  MaxActs = 1
SYMMETRY Symmetry
INVARIANTS TypeOK KnownWasSupplied ContinuityKept NeverChargedTwice
PROPERTIES ExecutionKept
CHECK_DEADLOCK FALSE
