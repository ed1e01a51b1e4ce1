----------------------- MODULE MCLedgerConcurrency -----------------------
(* Processes of the TLC runs of LedgerConcurrency.                         *)
EXTENDS LedgerConcurrency, TLC

\* Controllers are interchangeable, and so are operators.
Symmetry == Permutations(Controllers) \cup Permutations(Operators)
=============================================================================
