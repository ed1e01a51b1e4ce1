--------------------------- MODULE MCStageLedger ---------------------------
(***************************************************************************)
(* StageLedger on a chain of three stages: two of one phase and, in the    *)
(* next, one that also accepts failed dependencies.                        *)
(***************************************************************************)
EXTENDS StageLedger

CONSTANTS c1, p1

MCKinds == {"report", "attempt", "codex_job"}
MCCodexKinds == {"codex_job"}

SmallStages == 1..3
SmallDeps == <<{}, {1}, {2}>>
SmallRank == <<1, 1, 2>>
SmallRequired == [s \in SmallStages |-> {"report"}]
SmallRepeatable == [s \in SmallStages |-> {}]
SmallAuxiliary == [s \in SmallStages |-> {"attempt", "codex_job"}]
=============================================================================
