SPECIFICATION Spec
CONSTANTS
  c1 = c1
  p1 = p1
  NoProgress = NoProgress
  Stages <- SmallStages
  Deps <- SmallDeps
  Rank <- SmallRank
  AcceptFailed = {3}
  Kinds <- MCKinds
  CodexKinds <- MCCodexKinds
  Contents = {c1}
  Required <- SmallRequired
  Repeatable <- SmallRepeatable
  Auxiliary <- SmallAuxiliary
  Progress = {p1}
  Outcomes = {"FAIL", "BLOCKED"}
  MaxBundle = 1
  MaxRetries = 2
  MaxPauses = 1
  MaxRegistered = 1
INVARIANTS LedgerReplays AttemptsSeparated RepairsProgress NoStageForgotten
PROPERTIES ImplementsPhasedResults
CHECK_DEADLOCK FALSE
