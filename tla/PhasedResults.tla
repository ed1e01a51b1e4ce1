--------------------------- MODULE PhasedResults ---------------------------
(***************************************************************************)
(* What the stage ledger promises, with no rows, attempts or events: a set *)
(* of results that hold, each over results that hold, and the phase the    *)
(* run has reached.  A result is withdrawn only together with everything   *)
(* derived from it, and only while its phase is the one reached.           *)
(***************************************************************************)
EXTENDS Naturals

CONSTANTS Stages, Deps, Rank, AcceptFailed,
          Derived  \* Derived[s]: s and every stage that rests on it

VARIABLES
  valid,  \* the stages whose result holds
  reached \* the highest phase a stage of which has been started

vars == <<valid, reached>>

Init == valid = {} /\ reached = 0

Enter(s) ==
  /\ Rank[s] >= reached
  /\ reached' = Rank[s]
  /\ UNCHANGED valid

Accept(s) ==
  /\ s \notin valid
  /\ s \in AcceptFailed \/ Deps[s] \subseteq valid
  /\ valid' = valid \cup {s}
  /\ UNCHANGED reached

Withdraw(s) ==
  /\ s \in valid
  /\ Rank[s] = reached
  /\ valid' = valid \ Derived[s]
  /\ UNCHANGED reached

Next == \E s \in Stages : Enter(s) \/ Accept(s) \/ Withdraw(s)

Spec == Init /\ [][Next]_vars
=============================================================================
