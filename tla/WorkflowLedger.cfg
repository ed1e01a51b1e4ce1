SPECIFICATION Spec
CONSTANTS
  Mode = "prospective-blind"
  AnalysisReview = TRUE
  FinalReview = TRUE
  c1 = c1
  NoProgress = NoProgress
  Stages <- WorkflowStages
  Deps <- WorkflowDeps
  Rank <- WorkflowRank
  AcceptFailed = {}
  Kinds = {"report"}
  CodexKinds = {}
  Contents = {c1}
  Required <- OneReport
  Repeatable <- NoKinds
  Auxiliary <- NoKinds
  Progress = {}
  Outcomes = {}
  MaxBundle = 1
  MaxRetries = 1
  MaxPauses = 0
  MaxRegistered = 0
INVARIANTS PhasesInOrder DependenciesHold
CHECK_DEADLOCK FALSE
