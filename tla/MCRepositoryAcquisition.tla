----------------------- MODULE MCRepositoryAcquisition -----------------------
(***************************************************************************)
(* RepositoryAcquisition with a public source repository and a target of   *)
(* the user's own.  The origin has two refs, one of them a full commit;    *)
(* the supplied baseline has another commit for the first of them, and one *)
(* for a ref the origin does not have.                                     *)
(***************************************************************************)
EXTENDS RepositoryAcquisition

CONSTANTS u, main, tag, old, full, c1, c2

SourceAndTarget == <<"source", "target">>

OfOrigin == [x \in Urls |-> [r \in Refs |-> CASE r = tag -> c1 [] r = full -> c2 [] OTHER -> None]]
OfBaseline == [x \in Urls |-> [r \in Refs |-> CASE r = tag -> c2 [] r = old -> c1 [] OTHER -> None]]
Own == [r \in Refs |-> IF r = tag THEN c1 ELSE None]
=============================================================================
