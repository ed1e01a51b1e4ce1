SPECIFICATION Spec
CONSTANTS
  w1 = w1
  w2 = w2
  w3 = w3
  i1 = i1
  i2 = i2
  Works = {w1, w2, w3}
  FirstWork = w1
  Inputs = {i1}
  FirstInput = i1
  Kinds = {"files", "asking"}
  Verdicts <- Smoked
  Decisions <- EditingOrAsking
  Reworks = {"reset", "exhausted", "sealed"}
  NoWork = NoWork
  Torn = Torn
  MaxEdits <- TwoEdits
  MaxCrashes = 1
  MaxActs = 1
  MaxAnswers <- ManyAnswers
INVARIANTS ThreeObservations
PROPERTIES Rests NoAnswerPaidTwice BlockersHeeded
