------------------------- MODULE MCEvidenceClosure -------------------------
(***************************************************************************)
(* EvidenceClosure with a manual, a mirror of it, an alias that leads to   *)
(* its publisher, and a page that is not there.  The driver's directory    *)
(* has a file and an empty one.                                            *)
(***************************************************************************)
EXTENDS EvidenceClosure

CONSTANTS manual, mirror, alias, lost, maker, library, other, d1, d2, entry, blank, doc

Host == [u \in Urls |-> IF u \in {mirror} THEN library ELSE IF u = alias THEN other ELSE maker]

Served(digest, host) == [outcome |-> "SERVED", digest |-> digest, host |-> host]
Absent(outcome) == [outcome |-> outcome, digest |-> None, host |-> None]

\* The manual may be revised, and the mirror replaced by a redirection.
Web == [u \in Urls |-> CASE u = mirror -> Served(d1, library)
                         [] u = lost -> Absent("NOT_FOUND")
                         [] OTHER -> Served(d1, maker)]
Possible == [u \in Urls |-> {Web[u]} \cup CASE u = manual -> {Served(d2, maker)}
                                            [] u = mirror -> {Served(d1, maker)}
                                            [] u = alias -> {}
                                            [] OTHER -> {Absent("ACCESS_RESTRICTED")}]

TrackedFiles == [r \in Repos |-> IF r = "source" THEN {entry, blank} ELSE {doc}]

Git(repo, path) == [kind |-> "git", repo |-> repo, path |-> path]
Reference(url) == [kind |-> "reference", url |-> url]
ByCopies(url, copies) == [kind |-> "document", url |-> url, copies |-> copies, publisher |-> None]
ByPublisher(url, host) == [kind |-> "document", url |-> url, copies |-> <<>>, publisher |-> host]

Item(lane, name, gap) ==
  [facet |-> [lane |-> lane, name |-> name], gap |-> gap,
   paths |-> <<>>, documents |-> <<>>, urls |-> <<>>, references |-> <<>>]

\* Facets that are not what an answer is about.
Others == << [Item("target", "lifecycle", "none") EXCEPT !.paths = <<Git("target", doc)>>],
             [Item("qemu", "device_model", "none") EXCEPT !.paths = <<Git("qemu", doc)>>],
             [Item("tooling", "runtime_documentation", "none") EXCEPT !.paths = <<Git("qemu", doc)>>] >>

Hardware(documents) == [Item("hardware", "device_manual", "none") EXCEPT !.documents = documents]
Tests(gap) == [Item("test", "source_tests", gap) EXCEPT
                 !.paths = <<Git("source", entry)>>, !.references = <<Reference(lost)>>]

Chosen(items) == [form |-> "choices", stale |-> FALSE, items |-> items \o Others]

\* Written in the controller's own form: the copies have hosts of different
\* names, and a file of the repository cites a URL, or where it leads.
Full(cites) ==
  [form |-> "full", stale |-> FALSE, items |->
    << [Item("source", "driver_entry", "none") EXCEPT
          !.paths = <<Git("source", None)>>],
       [Item("hardware", "device_manual", "none") EXCEPT
          !.urls = <<[kind |-> "url", url |-> manual, digest |-> d1,
                      basis |-> [kind |-> "copies", copies |-> <<[url |-> alias, digest |-> d1]>>]]>>],
       [Item("test", "source_tests", "derived") EXCEPT
          !.urls = <<[kind |-> "url", url |-> alias, digest |-> d1,
                      basis |-> [kind |-> "endorsed", repo |-> "source", cites |-> cites]]>>] >> \o Others]

Submitted ==
  { Chosen(<<Hardware(<<ByCopies(manual, <<mirror>>)>>), Tests("derived")>>),
    Chosen(<<Hardware(<<ByCopies(manual, <<alias>>), ByPublisher(manual, maker)>>), Tests("NOT_FOUND")>>),
    Chosen(<<Hardware(<<ByPublisher(alias, maker)>>), Tests("NOT_FOUND")>>),
    Full("source"), Full("resolved"),
    [form |-> "prose", stale |-> FALSE, items |-> <<>>] }

\* The answers are such that IndependentCopies is promised.
ASSUME SeparateAssumption == SeparateDocuments
=============================================================================
