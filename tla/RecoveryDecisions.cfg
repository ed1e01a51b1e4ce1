SPECIFICATION Spec
CONSTANTS
  w1 = w1
  w2 = w2
  w3 = w3
  i1 = i1
  i2 = i2
  Works = {w1, w3}
  FirstWork = w1
  Inputs = {i1, i2}
  FirstInput = i1
  Kinds = {"files", "proposal", "static"}
  Verdicts <- Checked
  Decisions <- AllDecisions
  Reworks = {"invalid"}
  NoWork = NoWork
  Torn = Torn
  MaxEdits <- OneEdit
  MaxCrashes = 1
  MaxActs = 1
  MaxAnswers <- FewAnswers
INVARIANTS TypeOK AnswersBounded
PROPERTIES OutdatedOnlyByJoining
