-------------------------- MODULE MCCodexSessions --------------------------
(* Instances of CodexSessions: the contents of deliverables are alike. *)
EXTENDS CodexSessions, TLC

CONSTANTS a, b

Symmetry == Permutations(Contents)
=============================================================================
