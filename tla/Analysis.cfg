SPECIFICATION Spec
CONSTANTS
  Mode = "developer-evidence"
  AnalysisReview = TRUE
  FinalReview = TRUE
  Evidences <- SomeEvidences
  Environments <- SomeEnvironments
  Reports = {r1, r2}
  g1 = g1
  g2 = g2
  None = None
  MaxRepairs = 2
  MaxActs = 4
INVARIANTS TypeOK RestsOnCurrent RejectedStaysOut 
CONSTRAINT Bounded
SYMMETRY Symmetry
CHECK_DEADLOCK FALSE
