SPECIFICATION Spec
CONSTANTS
  f = f
  d = d
  Framework = {f}
  Driver = {d}
  Contents = {1, 2}
  Markers = {2}
  Works <- SomeWorks
  None = None
  MaxEdits = 3
  MaxStrays = 1
  MaxRepairs = 2
INVARIANTS TypeOK EvidenceChain SmokeCoversSource
PROPERTIES AcceptedOnFrozenSource FaultsAreWorkedOn
CHECK_DEADLOCK FALSE
