-------------------------- MODULE EvidenceClosure --------------------------
(***************************************************************************)
(* The stage evidence_closure: the worker chooses the evidence of each     *)
(* facet, and the controller binds, retrieves, accounts for and accepts it *)
(* (acquisition/proposal.py, document_binding.py, closure.py,              *)
(* evidence_collection.py, http_content.py, retrieval.py and its           *)
(* retrievers and verifiers, evidence_validation.py and its validators,    *)
(* port.py).                                                               *)
(*                                                                         *)
(* A step is one HTTP retrieval or one durable write, so that the          *)
(* controller can crash, and the web and the checkouts can change, between *)
(* any two.  Contents are digests; a URL has the host it names, and each   *)
(* response the host it came from in the end.  Subdomains, size limits,    *)
(* licences, page maps and derived materials are left out.                 *)
(*                                                                         *)
(* Any error, and any fault found with the bundle, is put to the worker,   *)
(* who answers with another proposal: a report that accepts a bundle with  *)
(* its faults is taken for one, and fails.                                 *)
(***************************************************************************)
EXTENDS Naturals, Sequences, FiniteSets, SequencesExt

CONSTANTS
  Urls, Hosts, Digests, Paths,
  Names,      \* what facets are called: any token
  None,       \* no such thing
  HostOf,     \* HostOf[u]: the host u names
  Pages,      \* Pages[u]: what u may lead to
  FirstWeb,   \* what each URL leads to at first
  Tracked,    \* Tracked[r]: the files of the locked commit of repository r
  Empty,      \* those without content
  EntryFiles, \* the files of the source repository under the driver's entry
  Answers,    \* what the worker may submit
  MaxTurns,   \* bound: turns of the worker
  MaxFaults,  \* bound: retrievals that fail though the page is there
  MaxCrashes, \* bound: crashes of the controller
  MaxActs     \* bound: changes of the web and the checkouts, and reopenings

Repos == {"source", "target", "qemu"}

Lanes == {"source", "target", "qemu", "hardware", "test", "tooling"}

Failures == {"NOT_FOUND", "ACCESS_RESTRICTED", "FAILED"}

Page == [outcome : {"SERVED"}, digest : Digests, host : Hosts]
        \cup [outcome : Failures, digest : {None}, host : {None}]

\* What a plan is made of: files, references, and contents with what they rest on.
Bases ==
  [kind : {"publisher"}, host : Hosts]
  \cup [kind : {"copies"}, copies : Seq([url : Urls, digest : Digests])]
  \cup [kind : {"endorsed"}, repo : Repos, cites : {"source", "resolved", "neither"}]

Files == [kind : {"git"}, repo : Repos, path : Paths \cup {None}]
References == [kind : {"reference"}, url : Urls]
BoundUrls == [kind : {"url"}, url : Urls, digest : Digests, basis : Bases]

Facets == [lane : Lanes, name : Names]

\* The reasons of a gap: none, whatever the attempts show, or one that is stated.
Gaps == {"none", "derived", "NOT_FOUND", "ACCESS_RESTRICTED", "CONFLICTING_SOURCES",
         "UNAVAILABLE_PUBLIC_EVIDENCE"}

PlanItem == [facet : Facets, gap : Gaps, locators : Seq(Files \cup References \cup BoundUrls)]

\* What is submitted: the controller's own form, choices to be put into it, or prose.
Choice == [kind : {"document"}, url : Urls, copies : Seq(Urls), publisher : Hosts \cup {None}]

AnswerItem ==
  [facet : Facets, gap : Gaps, paths : Seq(Files), documents : Seq(Choice),
   urls : Seq(BoundUrls), references : Seq(References)]

Submission == [form : {"full", "choices", "prose"}, stale : BOOLEAN, items : Seq(AnswerItem)]

\* What is on record: responses, and attempts at the locators of a plan.
Occurrence == [url : Urls, digest : Digests, host : Hosts, taken : BOOLEAN]

Outcome == {"RETRIEVED", "CONFLICT", "UNAVAILABLE_PUBLIC_EVIDENCE"} \cup Failures

Attempt == [slot : Nat \X Nat, outcome : Outcome, refs : Seq(Nat)]

ASSUME ClosureAssumption ==
  /\ None \notin Digests \cup Hosts \cup BoundUrls \cup Answers
                  \cup [plan : Seq(PlanItem), attempts : Seq(Attempt)]
  /\ HostOf \in [Urls -> Hosts]
  /\ FirstWeb \in [Urls -> Page] /\ \A u \in Urls : FirstWeb[u] \in Pages[u] /\ Pages[u] \subseteq Page
  /\ Tracked \in [Repos -> SUBSET Paths]
  /\ "driver_entry" \in Names
  /\ EntryFiles \subseteq Tracked["source"] /\ EntryFiles # {} /\ IsFiniteSet(EntryFiles)

ASSUME AnswerAssumption ==
  /\ \A a \in Answers :
       a \in Submission /\ (a.form = "choices" => \A i \in DOMAIN a.items : a.items[i].urls = <<>>)
  /\ MaxTurns \in Nat /\ MaxFaults \in Nat /\ MaxCrashes \in Nat /\ MaxActs \in Nat

VARIABLES
  status,      \* the stage row
  answer,      \* the latest submission of the attempt
  asked,       \* a decision awaits the worker
  accepted,    \* the bundle: the plan and the attempts at it
  web,         \* what the URLs lead to
  touched,     \* touched[r]: files someone changed in the checkout of r
  occurrences, \* the HTTP contents on record, of all attempts
  base,        \* how many of them are of earlier attempts
  pointers,    \* pointers[u]: the occurrence to reuse for u, or 0
  at,          \* what the controller does
  bound,       \* what became of the documents of the answer so far
  plan,        \* the proposal imported
  attempts,    \* the retrievals made of the plan
  got,         \* the responses to the retrieval under way
  fresh,       \* a response on record whose pointer is not yet written
  turns, faults, crashes, acts

stage == <<status, answer, asked, accepted>>
http == <<occurrences, pointers, fresh>>
memory == <<at, bound, plan, attempts, got>>
outside == <<web, touched>>
bounds == <<turns, faults, crashes, acts>>
vars == <<stage, http, base, memory, outside, bounds>>

-----------------------------------------------------------------------------
(* Facets.  An answer, a plan and a facet in them are sequences, so that a *)
(* document or a locator is known by its two positions, its slot.          *)

DriverEntry == [lane |-> "source", name |-> "driver_entry"]

\* policy_for
GitRoles(facet) ==
  CASE facet.lane \in Repos -> {facet.lane}
    [] facet.lane = "hardware" -> {}
    [] facet.lane = "test" /\ facet.name = "source_tests" -> {"source"}
    [] OTHER -> Repos

EndorsementRoles(facet) == IF facet = DriverEntry THEN {} ELSE GitRoles(facet)

ExternalAllowed(facet) == facet.lane \in {"hardware", "test", "tooling"}

\* validate_locator_authority
Authoritative(facet, locator) ==
  CASE locator.kind = "git" -> locator.repo \in GitRoles(facet)
    [] locator.kind = "url" /\ locator.basis.kind = "endorsed" ->
         locator.basis.repo \in EndorsementRoles(facet)
    [] locator.kind = "url" -> ExternalAllowed(facet)
    [] OTHER -> TRUE

\* A facet with a gap is an explicit gap, the others are controlled.
IsGap(item) == item.gap # "none"

\* FacetProposal
WellFormed(item) ==
  /\ item.locators # <<>>
  /\ \A j \in DOMAIN item.locators :
       /\ Authoritative(item.facet, item.locators[j])
       /\ item.locators[j].kind = "reference" => IsGap(item)

Slots(rows(_), items) == FlattenSeq([i \in DOMAIN items |-> [j \in DOMAIN rows(items[i]) |-> <<i, j>>]])

DocumentsOf(items) == Slots(LAMBDA item : item.documents, items)
DocumentAt(items, p) == items[DocumentsOf(items)[p][1]].documents[DocumentsOf(items)[p][2]]

LocatorsOf(items) == Slots(LAMBDA item : item.locators, items)
LocatorIn(items, p) == items[LocatorsOf(items)[p][1]].locators[LocatorsOf(items)[p][2]]

Documents == DocumentsOf(answer.items)
DocumentSlot == Documents[Len(bound) + 1]
Document == DocumentAt(answer.items, Len(bound) + 1)

Locators == LocatorsOf(plan)
LocatorSlot == Locators[Len(attempts) + 1]
Locator == LocatorIn(plan, Len(attempts) + 1)

-----------------------------------------------------------------------------
(* The port controller and its worker.                                     *)

Idle == bound' = <<>> /\ plan' = <<>> /\ attempts' = <<>> /\ got' = <<>>

\* Mutant: what was retrieved so far is kept.
FailKeeping ==
  /\ asked' = TRUE
  /\ at' = "worker"
  /\ UNCHANGED <<status, answer, accepted, bound, plan, attempts, got>>

Fail ==
  /\ asked' = TRUE
  /\ at' = "worker"
  /\ Idle
  /\ UNCHANGED <<status, answer, accepted>>

\* `port run`: the answer the worker owes, or the one it has given.
Run ==
  /\ at = "stopped"
  /\ status \in {"READY", "RUNNING"}
  /\ at' = IF asked \/ answer = None THEN "worker" ELSE "bind"
  /\ UNCHANGED <<stage, http, base, bound, plan, attempts, got, outside, bounds>>

Answer ==
  /\ at = "worker"
  /\ turns < MaxTurns
  /\ turns' = turns + 1
  /\ status' = "RUNNING"
  /\ answer' \in Answers
  /\ asked' = FALSE
  /\ at' = "bind"
  /\ UNCHANGED <<accepted, http, base, bound, plan, attempts, got, outside,
                 faults, crashes, acts>>

\* Or a report of the worker that says it is blocked.
GiveUp ==
  /\ at = "worker"
  /\ turns < MaxTurns
  /\ turns' = turns + 1
  /\ status' = "BLOCKED"
  /\ asked' = FALSE
  /\ at' = "stopped"
  /\ UNCHANGED <<answer, accepted, http, base, bound, plan, attempts, got, outside,
                 faults, crashes, acts>>

-----------------------------------------------------------------------------
(* Retrieval of HTTP contents, for a document or for a locator.            *)

\* The URLs a document or a locator needs, in order.
UrlsOf(thing) ==
  CASE thing.kind = "git" -> <<>>
    [] thing.kind = "document" -> <<thing.url>> \o thing.copies
    [] thing.kind = "url" /\ thing.basis.kind = "copies" ->
         <<thing.url>> \o [k \in DOMAIN thing.basis.copies |-> thing.basis.copies[k].url]
    [] OTHER -> <<thing.url>>

Binding == at = "bind" /\ Len(bound) < Len(Documents)

Collecting == at = "collect"

Thing == IF at = "bind" THEN Document ELSE Locator

Retrieving ==
  /\ Binding \/ Collecting
  /\ fresh = 0
  /\ Len(got) < Len(UrlsOf(Thing))

Url == UrlsOf(Thing)[Len(got) + 1]

\* Copies are to have the digest of the document, bound ones that of the plan.
Expected ==
  CASE Thing.kind = "url" -> IF got = <<>> THEN Thing.digest ELSE Thing.basis.copies[Len(got)].digest
    [] Thing.kind = "document" /\ got # <<>> -> occurrences[got[1]].digest
    [] OTHER -> None

Current(ref) == base < ref /\ ref <= Len(occurrences)

\* Mutant: only content of a known digest is reused.
ReusableBound ==
  LET ref == pointers[Url] IN ref # 0 /\ Expected = occurrences[ref].digest /\ Current(ref)

Reusable ==
  LET ref == pointers[Url] IN
  /\ ref # 0
  /\ Expected \in {None, occurrences[ref].digest}
  /\ Current(ref)

Reuse ==
  /\ Retrieving
  /\ Reusable
  /\ got' = Append(got, pointers[Url])
  /\ UNCHANGED <<stage, http, base, at, bound, plan, attempts, outside, bounds>>

\* The reason of a gap for the failures it rests on.
ReasonOf(outcome) == IF outcome = "CONFLICT" THEN "CONFLICTING_SOURCES" ELSE outcome

Outcomes(i, tries) == {tries[k].outcome : k \in {k \in DOMAIN tries : tries[k].slot[1] = i}}

Reason(failed) ==
  IF \E o \in failed : failed = {o}
  THEN ReasonOf(CHOOSE o \in failed : TRUE)
  ELSE "UNAVAILABLE_PUBLIC_EVIDENCE"

\* A failure that is only transient establishes no gap.
Explained(i, tries) ==
  LET failed == Outcomes(i, tries) \ {"RETRIEVED"} IN
  IsGap(plan[i]) =>
    /\ "FAILED" \notin failed
    /\ plan[i].gap \in {"derived", Reason(failed)}

\* Controlled facets have a material, and those of the entry lie under it.
Supported(tries) ==
  /\ \A i \in DOMAIN plan : ~IsGap(plan[i]) => "RETRIEVED" \in Outcomes(i, tries)
  /\ \A k \in DOMAIN tries :
       LET i == tries[k].slot[1]  locator == plan[i].locators[tries[k].slot[2]] IN
       plan[i].facet = DriverEntry /\ tries[k].outcome = "RETRIEVED" =>
         locator.kind = "git" /\ locator.path \in EntryFiles

\* The attempt at the locator is over.  A facet is accounted for with its last
\* attempt: a gap without a reason ends the collection, while what is to be
\* said of controlled facets is said of all of them together.
Attempted(outcome, refs) ==
  LET tries == Append(attempts, [slot |-> LocatorSlot, outcome |-> outcome, refs |-> refs])
      i == LocatorSlot[1]
      last == LocatorSlot[2] = Len(plan[i].locators)
  IN  IF \/ last /\ ~Explained(i, tries)
         \/ Len(tries) = Len(Locators) /\ ~Supported(tries)
      THEN Fail
      ELSE /\ attempts' = tries
           /\ got' = <<>>
           /\ at' = IF Len(tries) = Len(Locators) THEN "finalize" ELSE "collect"
           /\ UNCHANGED <<stage, bound, plan>>

\* A document that cannot be had is the end of its facet.
Unbound ==
  LET i == DocumentSlot[1]
      rest == Len(answer.items[i].documents) - DocumentSlot[2]
  IN  /\ bound' = bound \o [k \in 1..rest + 1 |-> None]
      /\ got' = <<>>
      /\ UNCHANGED <<stage, at, plan, attempts>>

RetrievalFails(outcome, refs) == IF at = "bind" THEN Unbound ELSE Attempted(outcome, got \o refs)

\* A response is on record whatever it is.
Download ==
  LET page == web[Url]
      taken == Expected \in {None, page.digest}
  IN  /\ Retrieving
      /\ ~Reusable
      /\ page.outcome = "SERVED"
      /\ occurrences' = Append(occurrences, [url |-> Url, digest |-> page.digest,
                                             host |-> page.host, taken |-> taken])
      /\ IF taken
         THEN fresh' = Len(occurrences') /\ UNCHANGED <<stage, memory>>
         ELSE RetrievalFails("CONFLICT", <<Len(occurrences')>>) /\ UNCHANGED fresh
      /\ UNCHANGED <<base, pointers, outside, bounds>>

KeepPointer ==
  /\ fresh # 0
  /\ pointers' = [pointers EXCEPT ![Url] = fresh]
  /\ got' = Append(got, fresh)
  /\ fresh' = 0
  /\ UNCHANGED <<stage, occurrences, base, at, bound, plan, attempts, outside, bounds>>

DownloadFails ==
  /\ Retrieving
  /\ ~Reusable
  /\ \/ /\ web[Url].outcome # "SERVED"
        /\ RetrievalFails(web[Url].outcome, <<>>)
        /\ UNCHANGED faults
     \/ /\ faults < MaxFaults
        /\ faults' = faults + 1
        /\ RetrievalFails("FAILED", <<>>)
  /\ UNCHANGED <<http, base, outside, turns, crashes, acts>>

\* A connection that breaks off while the content is read is no outcome of the
\* retrieval: it ends the import or the collection.
BreaksOff ==
  /\ Retrieving
  /\ ~Reusable
  /\ web[Url].outcome = "SERVED"
  /\ faults < MaxFaults
  /\ faults' = faults + 1
  /\ Fail
  /\ UNCHANGED <<http, base, outside, turns, crashes, acts>>

-----------------------------------------------------------------------------
(* Import of the answer.                                                   *)

HostGot(k) == occurrences[got[k]].host

\* Mutant: publishers are told apart by the URLs asked for.
IndependentByUrl(document) ==
  \E k \in DOMAIN document.copies : HostOf[document.copies[k]] # HostOf[document.url]

\* One copy at least came from another host in the end.
Independent(document) == \E k \in DOMAIN document.copies : HostGot(k + 1) # HostGot(1)

\* ExternalDocumentBinder
BindDocument ==
  /\ Binding
  /\ fresh = 0
  /\ Len(got) = Len(UrlsOf(Document))
  /\ LET digest == occurrences[got[1]].digest
         basis == IF Document.publisher # None
                  THEN [kind |-> "publisher", host |-> Document.publisher]
                  ELSE [kind |-> "copies",
                        copies |-> [k \in DOMAIN Document.copies |->
                                      [url |-> Document.copies[k], digest |-> digest]]]
     IN  IF IF Document.publisher # None THEN HostGot(1) = Document.publisher ELSE Independent(Document)
         THEN /\ bound' = Append(bound, [kind |-> "url", url |-> Document.url,
                                         digest |-> digest, basis |-> basis])
              /\ got' = <<>>
              /\ UNCHANGED <<stage, at, plan, attempts>>
         ELSE Unbound
  /\ UNCHANGED <<http, base, outside, bounds>>

BoundAt(slot) == bound[CHOOSE k \in DOMAIN Documents : Documents[k] = slot]

\* Repository paths, then documents, then references.
Normalized(i) ==
  LET item == answer.items[i] IN
  [facet |-> item.facet, gap |-> item.gap,
   locators |-> item.paths \o [j \in DOMAIN item.documents |-> BoundAt(<<i, j>>)]
                \o item.urls \o item.references]

EntryLocator == [kind |-> "git", repo |-> "source", path |-> None]

\* The controller's own facet stands in for whatever the worker says of it.
Static == [facet |-> DriverEntry, gap |-> "none", locators |-> <<EntryLocator>>]

Without(dropped(_), list) ==
  FlattenSeq([k \in DOMAIN list |-> IF dropped(list[k]) THEN <<>> ELSE <<list[k]>>])

Proposed ==
  LET items == [i \in DOMAIN answer.items |-> Normalized(i)] IN
  IF answer.form = "full" THEN items
  ELSE <<Static>> \o Without(LAMBDA item : item.facet = DriverEntry, items)

\* EvidenceDiscoveryProposal
Complete(items) ==
  /\ \A i \in DOMAIN items : WellFormed(items[i])
  /\ \A i, j \in DOMAIN items : items[i].facet = items[j].facet => i = j
  /\ {items[i].facet.lane : i \in DOMAIN items} = Lanes
  /\ \E i \in DOMAIN items : items[i].facet = DriverEntry /\ ~IsGap(items[i])

\* The directory of the driver becomes its tracked files.
Expand(items) ==
  LET files == SetToSeq(EntryFiles)
      expanded(locators) ==
        Without(LAMBDA locator : locator = EntryLocator, locators)
        \o [k \in DOMAIN files |-> [EntryLocator EXCEPT !.path = files[k]]]
  IN  [i \in DOMAIN items |->
         IF items[i].facet = DriverEntry /\ Contains(items[i].locators, EntryLocator)
         THEN [items[i] EXCEPT !.locators = expanded(@)]
         ELSE items[i]]

\* Facets are at fault one by one, and the proposal as a whole.
Valid ==
  /\ answer.form # "prose" /\ ~answer.stale
  /\ ~Contains(bound, None)
  /\ \A i \in DOMAIN answer.items : WellFormed(Normalized(i))
  /\ Complete(Proposed)

\* A directory that is gone from the checkout cannot be expanded.
Import ==
  /\ at = "bind"
  /\ Len(bound) = Len(Documents)
  /\ \/ /\ Valid
        /\ plan' = Expand(Proposed)
        /\ bound' = <<>>
        /\ at' = "verify"
        /\ UNCHANGED <<stage, attempts, got>>
     \/ /\ ~Valid \/ EntryFiles \subseteq touched["source"]
        /\ Fail
  /\ UNCHANGED <<http, base, outside, bounds>>

-----------------------------------------------------------------------------
(* The closure.                                                            *)

CheckoutsStand == \A r \in Repos : touched[r] = {}

Verify ==
  /\ at = "verify"
  /\ IF CheckoutsStand
     THEN at' = "collect" /\ UNCHANGED <<stage, bound, plan, attempts, got>>
     ELSE Fail
  /\ UNCHANGED <<http, base, outside, bounds>>

\* What a look at a file of a checkout yields.
GitOutcomes(locator) ==
  CASE locator.path \notin Tracked[locator.repo] -> {"NOT_FOUND"}
    [] locator.path \in touched[locator.repo] -> {"NOT_FOUND", "CONFLICT"}
    [] locator.path \in Empty -> {"FAILED"}
    [] OTHER -> {"RETRIEVED"}

\* Here publishers are told apart by the URLs asked for, and an endorsement may
\* be of the URL the content came from.
Verified(locator) ==
  CASE locator.basis.kind = "publisher" -> HostGot(1) = locator.basis.host
    [] locator.basis.kind = "copies" ->
         \E k \in DOMAIN locator.basis.copies : HostOf[locator.basis.copies[k].url] # HostOf[locator.url]
    [] OTHER -> locator.basis.cites # "neither"

\* A reference can be retrieved, but shows nothing.
OutcomesOf(locator) ==
  CASE locator.kind = "git" -> GitOutcomes(locator)
    [] locator.kind = "url" -> {IF Verified(locator) THEN "RETRIEVED" ELSE "CONFLICT"}
    [] OTHER -> {"UNAVAILABLE_PUBLIC_EVIDENCE"}

Collect ==
  /\ Collecting
  /\ fresh = 0
  /\ Len(got) = Len(UrlsOf(Locator))
  /\ \E outcome \in OutcomesOf(Locator) : Attempted(outcome, got)
  /\ UNCHANGED <<http, base, outside, bounds>>

LocatorAt(slot) == plan[slot[1]].locators[slot[2]]

\* A material is known by its facet and its locator.
MaterialsUnique ==
  LET kept == {attempts[k].slot : k \in {k \in DOMAIN attempts : attempts[k].outcome = "RETRIEVED"}} IN
  \A s, t \in kept : s[1] = t[1] /\ LocatorAt(s) = LocatorAt(t) => s = t

ReferencesResolve ==
  \A k \in DOMAIN attempts : \A n \in DOMAIN attempts[k].refs : Current(attempts[k].refs[n])

\* The URL itself, not the one it leads to, is what an endorsement must name.
EndorsementsStand ==
  \A k \in DOMAIN attempts :
    LET locator == LocatorAt(attempts[k].slot) IN
    attempts[k].outcome = "RETRIEVED" /\ locator.kind = "url" =>
      \/ locator.basis.kind # "endorsed"
      \/ locator.basis.cites = "source"

\* validate_evidence_closure_bundle; what it computes a second time from what
\* the collection just computed is left out.
BundleStands == CheckoutsStand /\ MaterialsUnique /\ ReferencesResolve /\ EndorsementsStand

Finalize ==
  /\ at = "finalize"
  /\ IF BundleStands
     THEN /\ status' = "PASS"
          /\ accepted' = [plan |-> plan, attempts |-> attempts]
          /\ at' = "stopped"
          /\ Idle
          /\ UNCHANGED <<answer, asked>>
     ELSE Fail
  /\ UNCHANGED <<http, base, outside, bounds>>

-----------------------------------------------------------------------------
(* Faults, and others.                                                     *)

Crash ==
  /\ at # "stopped"
  /\ crashes < MaxCrashes
  /\ crashes' = crashes + 1
  /\ at' = "stopped"
  /\ Idle
  /\ fresh' = 0
  /\ UNCHANGED <<stage, occurrences, base, pointers, outside, turns, faults, acts>>

\* The web changes; someone writes into a checkout, or puts a file right.
Disturb ==
  /\ acts < MaxActs
  /\ acts' = acts + 1
  /\ \/ /\ \E u \in Urls : \E page \in Pages[u] \ {web[u]} : web' = [web EXCEPT ![u] = page]
        /\ UNCHANGED touched
     \/ /\ \E r \in Repos : \E p \in Tracked[r] :
             touched' = [touched EXCEPT ![r] = IF p \in @ THEN @ \ {p} ELSE @ \cup {p}]
        /\ UNCHANGED web
  /\ UNCHANGED <<stage, http, base, memory, turns, faults, crashes>>

\* `stage reopen` of a blocked stage, or a later stage of the phase that has
\* asked for its repair: a new attempt.
Reopen ==
  /\ at = "stopped"
  /\ status \in {"BLOCKED", "PASS"}
  /\ acts < MaxActs
  /\ acts' = acts + 1
  /\ status' = "READY"
  /\ answer' = None /\ accepted' = None
  /\ base' = Len(occurrences)
  /\ UNCHANGED <<asked, http, memory, outside, turns, faults, crashes>>

-----------------------------------------------------------------------------
Init ==
  /\ status = "READY"
  /\ answer = None /\ asked = FALSE /\ accepted = None
  /\ web = FirstWeb
  /\ touched = [r \in Repos |-> {}]
  /\ occurrences = <<>> /\ base = 0 /\ pointers = [u \in Urls |-> 0] /\ fresh = 0
  /\ at = "stopped"
  /\ bound = <<>> /\ plan = <<>> /\ attempts = <<>> /\ got = <<>>
  /\ turns = 0 /\ faults = 0 /\ crashes = 0 /\ acts = 0

Controller ==
  \/ Run \/ Answer \/ GiveUp
  \/ Reuse \/ Download \/ KeepPointer \/ DownloadFails \/ BreaksOff
  \/ BindDocument \/ Import \/ Verify \/ Collect \/ Finalize

Next == Controller \/ Crash \/ Disturb \/ Reopen

Spec == Init /\ [][Next]_vars

-----------------------------------------------------------------------------
(* Properties.                                                             *)

\* Every variable has its type, and what the controller remembers is of what it does.
TypeOK ==
  /\ status \in {"READY", "RUNNING", "BLOCKED", "PASS"}
  /\ answer \in Answers \cup {None}
  /\ asked \in BOOLEAN
  /\ (accepted # None) = (status = "PASS")
  /\ \A u \in Urls : web[u] \in Pages[u]
  /\ \A r \in Repos : touched[r] \subseteq Tracked[r]
  /\ \A n \in DOMAIN occurrences :
       occurrences[n] \in Occurrence
  /\ base \in 0..Len(occurrences)
  /\ pointers \in [Urls -> 0..Len(occurrences)]
  /\ fresh \in 0..Len(occurrences)
  /\ fresh # 0 => at \in {"bind", "collect"}
  /\ at \in {"stopped", "worker", "bind", "verify", "collect", "finalize"}
  /\ bound # <<>> => at = "bind" /\ Len(bound) <= Len(Documents)
  /\ plan # <<>> => at \in {"verify", "collect", "finalize"}
  /\ attempts # <<>> => at \in {"collect", "finalize"} /\ Len(attempts) <= Len(Locators)
  /\ got # <<>> => at \in {"bind", "collect"} /\ Len(got) <= Len(UrlsOf(Thing))
  /\ {turns, faults, crashes, acts} \subseteq Nat

\* docs/ACQUISITION.md: "Successful HTTP responses are reused from CAS across
\* binding, finalization and restart."  The content of a URL is not downloaded
\* again in the attempt unless another one was asked for in between, or a crash
\* came before the pointer.
DownloadedOnce ==
  \A n \in base + 1..Len(occurrences) : \A m \in base + 1..n - 1 :
    /\ occurrences[m].taken /\ occurrences[n].taken
    /\ occurrences[m].url = occurrences[n].url
    /\ \A k \in m + 1..n - 1 : occurrences[k].taken => occurrences[k].url # occurrences[n].url
    => occurrences[m].digest # occurrences[n].digest \/ crashes > 0

\* No copy of a document is a URL of another document of the answer.
SeparateDocuments ==
  \A a \in Answers : a.form = "choices" =>
    \A p, q \in DOMAIN DocumentsOf(a.items) : p # q =>
      LET copies == DocumentAt(a.items, p).copies
          urls == UrlsOf(DocumentAt(a.items, q))
      IN  \A k \in DOMAIN copies, n \in DOMAIN urls : copies[k] # urls[n]

\* "document copies resolve to the same publisher; do not claim independent
\* corroboration": what the worker chose to corroborate by copies is accepted
\* with responses of two hosts, although the collection retrieves it anew, looks
\* at the names of the hosts only, and the web may have changed.  (It holds
\* because the responses of the binding are still the ones to reuse: a URL that
\* two documents of different contents share would be downloaded again, so the
\* documents are SeparateDocuments.)
IndependentCopies ==
  accepted # None /\ answer.form = "choices" =>
    \A k \in DOMAIN accepted.attempts :
      LET tried == accepted.attempts[k]
          locator == accepted.plan[tried.slot[1]].locators[tried.slot[2]]
      IN  locator.kind = "url" /\ tried.outcome = "RETRIEVED" =>
            \/ locator.basis.kind # "copies"
            \/ \E n \in DOMAIN tried.refs :
                 occurrences[tried.refs[n]].host # occurrences[tried.refs[1]].host
=============================================================================
