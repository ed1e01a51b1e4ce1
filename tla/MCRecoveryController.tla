----------------------- MODULE MCRecoveryController -----------------------
(***************************************************************************)
(* RecoveryController for the kinds of stages there are.                   *)
(***************************************************************************)
EXTENDS RecoveryController

CONSTANTS w1, w2, w3, i1, i2

\* Work a check finds fault with, work the adapter cannot take, and good work.
Checked == [w \in Works |-> {<<FALSE, CASE w = w1 -> "FINDINGS" [] w = w2 -> "ERROR" [] OTHER -> "DONE">>}]

\* Work whose smoke run fails, each in its own way, and good work.  The first is
\* found wanting before the smoke run too.
Smoked == [w \in Works |-> {<<w = w1, CASE w = w1 -> "SMOKE_A" [] w = w2 -> "SMOKE_B" [] OTHER -> "DONE">>}]

\* Decisions of the workers of the three kinds of stages.
AllDecisions ==
  [files    |-> {"pass", "none"},
   proposal |-> {"submit", "pass", "none"},
   static   |-> {"pass", "rework", "blocked"}]

\* Workers who edit and submit, and workers who ask for an operation, for the
\* repair of an earlier stage, or report a blocker.
EditingOrAsking ==
  [files  |-> {"pass"},
   asking |-> {"operation", "rework", "blocked"}]

\* The work of those who ask does not change.
OneEdit  == [k \in Kinds |-> 1]
TwoEdits == [files |-> 2, asking |-> 0]

\* Seven answers let a fourth failure of one kind alternate with another kind;
\* five, which keep the runs of proposals small, one more than a crash allows.
FewAnswers  == [files |-> 7, proposal |-> 5, static |-> 7]
ManyAnswers == [files |-> 12, asking |-> 12]
=============================================================================
