------------------------- MODULE MCAnalysisPipeline -------------------------
(***************************************************************************)
(* AnalysisPipeline with evidence that changes about the source driver or  *)
(* about the rest, and one smoke script with two reports.                  *)
(***************************************************************************)
EXTENDS AnalysisPipeline, TLC

CONSTANTS g1, g2

Closure(source, rest) == [source |-> source, rest |-> rest]
SomeEvidences == {Closure(1, 1), Closure(2, 1), Closure(1, 2)}

Smoke(script, report) == [script |-> script, report |-> report]
SomeEnvironments == {Smoke(1, g1), Smoke(1, g2)}

\* Reports, of studies and of smoke runs, are only told apart.
Symmetry == Permutations(Reports) \cup Permutations({g1, g2})

\* Bound: once a study is accepted one crash, error or command is followed, and no inspection
\* by hand; before that, as many as MaxActs.
Bounded == acts > 1 \/ hand # "none" => studies = 0
=============================================================================
