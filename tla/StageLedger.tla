---------------------------- MODULE StageLedger ----------------------------
(***************************************************************************)
(* The stage table, the event ledger and the artifact occurrences of one   *)
(* run database (core/store.py, core/stage_persistence.py,                 *)
(* core/artifact_persistence.py, core/phases.py, core/workflow.py,         *)
(* core/project.py).                                                       *)
(*                                                                         *)
(* Every operation of the persistence layer is one SQLite transaction that *)
(* updates the tables and appends the events describing the update.  One   *)
(* transaction is one step here, and the ledger is the sequence of         *)
(* committed transactions, each the set of events it appended: a           *)
(* transaction appends at most one status event per stage, so their order  *)
(* within it is never observed.                                            *)
(*                                                                         *)
(* A stage is its position in the workflow, as in the "position" column.   *)
(* Contents and kinds of artifacts are opaque values; times, messages,     *)
(* hashes and roles (every caller passes the project's own role) are left  *)
(* out.                                                                    *)
(***************************************************************************)
EXTENDS Integers, Sequences, FiniteSets

CONSTANTS
  Stages,        \* the positions of the workflow's stages
  Deps,          \* Deps[s]: the stages s depends on
  Rank,          \* Rank[s]: order of the phase of s, 0 when GROUPS omits s
  AcceptFailed,  \* the stages with accept_failed_dependencies
  Kinds,         \* artifact kinds
  CodexKinds,    \* the kinds whose name starts with "codex_"
  Contents,      \* artifact digests
  Required,      \* Required[s]: kinds s must output exactly once
  Repeatable,    \* Repeatable[s]: kinds s must output at least once
  Auxiliary,     \* Auxiliary[s]: kinds s may output
  Progress,      \* explicit progress identities a caller may pass
  NoProgress,    \* the caller passes none: the outputs are the identity
  Outcomes,      \* the outcomes an operator or controller completes with
  MaxBundle,     \* bound: artifacts of one final bundle
  MaxRetries,    \* bound: retry and reopen transactions
  MaxPauses,     \* bound: wait_for_user transactions
  MaxRegistered  \* bound: register_artifact transactions

Directions == {"INPUT", "OUTPUT"}

Artifact == [kind : Kinds, content : Contents]

ASSUME GraphAssumption ==
  /\ Stages \subseteq Nat
  /\ IsFiniteSet(Stages)
  /\ Deps \in [Stages -> SUBSET Stages]
  /\ \A s \in Stages : \A d \in Deps[s] : d < s
  /\ Rank \in [Stages -> Nat]
  /\ AcceptFailed \subseteq Stages

ASSUME ContractAssumption ==
  /\ CodexKinds \subseteq Kinds
  /\ Required \in [Stages -> SUBSET Kinds]
  /\ Repeatable \in [Stages -> SUBSET Kinds]
  /\ Auxiliary \in [Stages -> SUBSET Kinds]
  /\ \A s \in Stages : /\ Required[s] \cap Repeatable[s] = {}
                       /\ (Required[s] \cup Repeatable[s]) \cap Auxiliary[s] = {}
  /\ NoProgress \notin Progress

ASSUME OutcomeAssumption ==
  Outcomes \subseteq {"FAIL", "BLOCKED", "INCONCLUSIVE", "NOT_APPLICABLE"}

VARIABLES
  status,    \* status[s]: the stage row
  artifacts, \* artifacts[s][d]: the occurrences of s in direction d, by ordinal
  ledger     \* the committed transactions

vars == <<status, artifacts, ledger>>

-----------------------------------------------------------------------------
(* Statuses and the workflow graph.                                        *)

Satisfying == {"PASS", "NOT_APPLICABLE"}

Terminal == Satisfying \cup {"FAIL", "BLOCKED", "INCONCLUSIVE"}

Status == Terminal \cup {"PENDING", "READY", "RUNNING", "WAITING_FOR_USER"}

InitialStatus == [s \in Stages |-> IF Deps[s] = {} THEN "READY" ELSE "PENDING"]

\* dependencies_satisfied
DependenciesSatisfied(st, s) ==
  IF s \in AcceptFailed THEN \A d \in Deps[s] : st[d] \in Terminal
                        ELSE \A d \in Deps[s] : st[d] \in Satisfying

\* s and everything it depends on, directly or not.
Upstream[s \in Stages] == {s} \cup UNION {Upstream[d] : d \in Deps[s]}

\* Mutant: only the direct dependents are reset.
DirectDependents == [s \in Stages |-> {s} \cup {x \in Stages : s \in Deps[x]}]

\* s and everything that depends on it: WorkflowDefinition.descendants.
Descendants == [s \in Stages |-> {x \in Stages : s \in Upstream[x]}]

\* The stage table after refresh_ready.
Refreshed(st) ==
  [s \in Stages |-> IF st[s] = "PENDING" /\ DependenciesSatisfied(st, s)
                      THEN "READY" ELSE st[s]]

-----------------------------------------------------------------------------
(* Events and what is read from the ledger.                                *)

Fingerprint ==
  Stages \X Stages \X (Progress \cup [Artifact -> Nat])

Boundaries == [Directions -> Nat]

Event ==
  [type : {"READY", "STARTED", "WAITING_FOR_USER", "RESUMED"}, stage : Stages]
    \cup [type : {"COMPLETED"}, stage : Stages, outcome : Terminal]
    \cup [type : {"RETRIED"}, stage : Stages, status : {"READY", "PENDING"},
          root : Stages, trigger : Stages, boundaries : Boundaries,
          fingerprints : SUBSET Fingerprint]
    \cup [type : {"REGISTERED"}, stage : Stages, direction : Directions,
          first : Nat, items : Seq(Artifact)]

StatusTypes == {"READY", "STARTED", "WAITING_FOR_USER", "RESUMED", "COMPLETED", "RETRIED"}

\* The transactions that hold an event of one of these types about s.
Commits(s, types) ==
  {i \in DOMAIN ledger : \E e \in ledger[i] : e.stage = s /\ e.type \in types}

\* The latest such event; there must be one.
Latest(s, types) ==
  LET last == CHOOSE i \in Commits(s, types) : \A j \in Commits(s, types) : j <= i
  IN  CHOOSE e \in ledger[last] : e.stage = s /\ e.type \in types

\* The first ordinal of the current attempt of s.
Boundary(s, d) ==
  IF Commits(s, {"RETRIED"}) = {} THEN 0 ELSE Latest(s, {"RETRIED"}).boundaries[d]

\* load_current_occurrences
Current(s, d) == SubSeq(artifacts[s][d], Boundary(s, d) + 1, Len(artifacts[s][d]))

NextOrdinals(s) == [d \in Directions |-> Len(artifacts[s][d])]

Entered(s) == Commits(s, {"STARTED"}) # {}

-----------------------------------------------------------------------------
(* Phases: core/phases.py.                                                 *)

SamePhase(s, t) == s = t \/ (Rank[s] = Rank[t] /\ Rank[s] # 0)

\* Mutant: phases do not bound a repair.
AnyRepair(target, trigger) == TRUE

\* require_local_repair(target, trigger)
LocalRepair(target, trigger) ==
  /\ SamePhase(target, trigger)
  /\ \/ Rank[target] = 0
     \/ \A s \in Stages : Rank[s] > Rank[target] =>
          ~Entered(s) /\ status[s] \in {"PENDING", "READY"}

-----------------------------------------------------------------------------
(* Output contracts: StageOutputContract.                                  *)

KindsOf(bundle) == {bundle[i].kind : i \in DOMAIN bundle}

CountOf(bundle, kind) == Cardinality({i \in DOMAIN bundle : bundle[i].kind = kind})

MeetsContract(s, bundle) ==
  /\ KindsOf(bundle) \subseteq Required[s] \cup Repeatable[s] \cup Auxiliary[s]
  /\ \A k \in Required[s] : CountOf(bundle, k) = 1
  /\ \A k \in Repeatable[s] : CountOf(bundle, k) >= 1

\* Mutant: a new Codex job counts as progress.
SubstanceWithJobs(outputs) ==
  [a \in Artifact |-> Cardinality({i \in DOMAIN outputs : outputs[i] = a})]

\* What a repair must change to count as progress: every current output but
\* the evidence of Codex calls, with its multiplicity.
Substance(outputs) ==
  [a \in Artifact |-> IF a.kind \in CodexKinds THEN 0
                      ELSE Cardinality({i \in DOMAIN outputs : outputs[i] = a})]

FingerprintOf(target, trigger, progress) ==
  <<target, trigger,
    IF progress = NoProgress THEN Substance(Current(target, "OUTPUT")) ELSE progress>>

Exhausted(target, trigger, progress) ==
  \E i \in DOMAIN ledger : \E e \in ledger[i] :
    /\ e.type = "RETRIED"
    /\ e.stage = target
    /\ FingerprintOf(target, trigger, progress) \in e.fingerprints

-----------------------------------------------------------------------------
(* The operations.                                                         *)

CommitsOfType(type) == {i \in DOMAIN ledger : \E e \in ledger[i] : e.type = type}

\* One transaction: the new stage rows and the events.
Transition(st, events) ==
  /\ status' = st
  /\ ledger' = Append(ledger, events)

StageEvent(type, s) == [type |-> type, stage |-> s]

\* Mutant: refresh_ready updates the rows and appends nothing.
SilentReadyEvents(st) == {}

ReadyEvents(st) ==
  {StageEvent("READY", s) : s \in {x \in Stages : st[x] # Refreshed(st)[x]}}

Completed(s, outcome) == [type |-> "COMPLETED", stage |-> s, outcome |-> outcome]

Registered(s, d, items) ==
  [type |-> "REGISTERED", stage |-> s, direction |-> d,
   first |-> Len(artifacts[s][d]), items |-> items]

Init ==
  /\ status = InitialStatus
  /\ artifacts = [s \in Stages |-> [d \in Directions |-> <<>>]]
  /\ ledger = <<>>

\* start_stage: the dependencies are not read again, only the status.
Start(s) ==
  /\ status[s] = "READY"
  /\ LocalRepair(s, s)
  /\ Transition([status EXCEPT ![s] = "RUNNING"], {StageEvent("STARTED", s)})
  /\ UNCHANGED artifacts

Pause(s) ==
  /\ status[s] = "RUNNING"
  /\ Cardinality(CommitsOfType("WAITING_FOR_USER")) < MaxPauses
  /\ Transition([status EXCEPT ![s] = "WAITING_FOR_USER"],
                {StageEvent("WAITING_FOR_USER", s)})
  /\ UNCHANGED artifacts

\* resume_after_user
Resume(s) ==
  /\ status[s] = "WAITING_FOR_USER"
  /\ Transition([status EXCEPT ![s] = "RUNNING"], {StageEvent("RESUMED", s)})
  /\ UNCHANGED artifacts

\* register_artifact: required outputs only enter with the final bundle.
Register(s, d, a) ==
  /\ status[s] = "RUNNING"
  /\ d = "OUTPUT" => a.kind \in Auxiliary[s]
  /\ Cardinality({i \in CommitsOfType("REGISTERED") : Cardinality(ledger[i]) = 1})
       < MaxRegistered
  /\ artifacts' = [artifacts EXCEPT ![s][d] = Append(@, a)]
  /\ Transition(status, {Registered(s, d, <<a>>)})

\* _commit_validated_stage
Commit(s, bundle) ==
  LET done == [status EXCEPT ![s] = "PASS"]
  IN  /\ status[s] = "RUNNING"
      /\ bundle # <<>>
      /\ MeetsContract(s, bundle)
      /\ KindsOf(Current(s, "OUTPUT")) \subseteq Auxiliary[s]
      /\ MeetsContract(s, Current(s, "OUTPUT") \o bundle)
      /\ artifacts' = [artifacts EXCEPT ![s]["OUTPUT"] = @ \o bundle]
      /\ Transition(Refreshed(done),
                    {Registered(s, "OUTPUT", bundle), Completed(s, "PASS")}
                      \cup ReadyEvents(done))

\* Mutant: a stage that ends without PASS releases nobody.
CompleteWithoutRefresh(s, outcome) ==
  /\ status[s] = "RUNNING"
  /\ outcome \in Terminal \ {"PASS"}
  /\ Transition([status EXCEPT ![s] = outcome], {Completed(s, outcome)})
  /\ UNCHANGED artifacts

\* complete_stage, whose outcomes exclude PASS
Complete(s, outcome) ==
  LET done == [status EXCEPT ![s] = outcome]
  IN  /\ status[s] = "RUNNING"
      /\ outcome \in Terminal \ {"PASS"}
      /\ Transition(Refreshed(done), {Completed(s, outcome)} \cup ReadyEvents(done))
      /\ UNCHANGED artifacts

\* Project.retry_from: target is the repair root and trigger the running stage
\* that asks.  A repair across a phase boundary makes the trigger wait, one
\* that repeats a fingerprint blocks it; both leave every other row alone.
RetryTouches(target, trigger) == status[target] = "PASS" /\ status[trigger] = "RUNNING"

ResetStatus(s, target) == IF s = target THEN "READY" ELSE "PENDING"

Retry(target, trigger, progress) ==
  LET affected == Descendants[target]
      retried(s) == [type |-> "RETRIED", stage |-> s, status |-> ResetStatus(s, target),
                     root |-> target, trigger |-> trigger, boundaries |-> NextOrdinals(s),
                     fingerprints |-> {FingerprintOf(target, trigger, progress)}]
  IN  /\ RetryTouches(target, trigger)
      /\ LocalRepair(target, trigger)
      /\ target < trigger
      /\ ~Exhausted(target, trigger, progress)
      /\ trigger \in affected
      /\ Cardinality(CommitsOfType("RETRIED")) < MaxRetries
      /\ Transition([s \in Stages |-> IF s \in affected THEN ResetStatus(s, target)
                                      ELSE status[s]],
                    {retried(s) : s \in affected})
      /\ UNCHANGED artifacts

RetryExhausted(target, trigger, progress) ==
  /\ RetryTouches(target, trigger)
  /\ LocalRepair(target, trigger)
  /\ target < trigger
  /\ Exhausted(target, trigger, progress)
  /\ Complete(trigger, "BLOCKED")

RetryAcrossPhases(target, trigger) ==
  /\ RetryTouches(target, trigger)
  /\ ~LocalRepair(target, trigger)
  /\ Pause(trigger)

\* Mutant: the new attempt keeps the outputs of the blocked one.
ReopenKeepingOutputs(s) ==
  /\ status[s] = "BLOCKED"
  /\ Cardinality(CommitsOfType("RETRIED")) < MaxRetries
  /\ Transition([status EXCEPT ![s] = "READY"],
                {[type |-> "RETRIED", stage |-> s, status |-> "READY", root |-> s,
                  trigger |-> s, boundaries |-> [d \in Directions |-> Boundary(s, d)],
                  fingerprints |-> {}]})
  /\ UNCHANGED artifacts

\* reopen_blocked
Reopen(s) ==
  /\ status[s] = "BLOCKED"
  /\ Cardinality(CommitsOfType("RETRIED")) < MaxRetries
  /\ Transition([status EXCEPT ![s] = "READY"],
                {[type |-> "RETRIED", stage |-> s, status |-> "READY", root |-> s,
                  trigger |-> s, boundaries |-> NextOrdinals(s), fingerprints |-> {}]})
  /\ UNCHANGED artifacts

Bundles == UNION {[1..n -> Artifact] : n \in 1..MaxBundle}

Next ==
  \E s \in Stages :
    \/ Start(s)
    \/ Pause(s)
    \/ Resume(s)
    \/ \E d \in Directions, a \in Artifact : Register(s, d, a)
    \/ \E bundle \in Bundles : Commit(s, bundle)
    \/ \E outcome \in Outcomes : Complete(s, outcome)
    \/ \E t \in Stages, p \in Progress \cup {NoProgress} : Retry(s, t, p)
    \/ \E t \in Stages, p \in Progress \cup {NoProgress} : RetryExhausted(s, t, p)
    \/ \E t \in Stages : RetryAcrossPhases(s, t)
    \/ Reopen(s)

Spec == Init /\ [][Next]_vars

-----------------------------------------------------------------------------
(* Properties.                                                             *)

\* Types of the tables and the ledger.
TypeOK ==
  /\ status \in [Stages -> Status]
  /\ artifacts \in [Stages -> [Directions -> Seq(Artifact)]]
  /\ ledger \in Seq(SUBSET Event)

\* A stage that has left PENDING has all its dependencies satisfied, although
\* start_stage, _commit_validated_stage and the rest never look at them: only
\* refresh_ready does, and every repair must pull back whatever it withdraws.
DependenciesHold ==
  \A s \in Stages \ AcceptFailed :
    status[s] # "PENDING" => \A d \in Deps[s] : status[d] \in Satisfying

\* A graph on which the phases are in order: a stage rests on every stage of the
\* phases before its own, and nobody accepts a failed dependency.
PhasesRestOnEarlier ==
  /\ AcceptFailed = {}
  /\ \A s, later \in Stages :
       0 < Rank[s] /\ Rank[s] < Rank[later] => s \in Upstream[later]

\* A phase is entered only over complete earlier phases, and they stay complete:
\* the phase guard of start_stage looks at later phases alone, so this rests on
\* the dependencies and on what a repair may pull back.
PhasesInOrder ==
  \A s, later \in Stages :
    0 < Rank[s] /\ Rank[s] < Rank[later] /\ Entered(later) => status[s] \in Satisfying

\* No lost wake-up: a stage stays PENDING only while some dependency is not
\* satisfied, so the run never stalls on a stage that nobody will release.
NoStageForgotten ==
  \A s \in Stages : status[s] = "PENDING" => ~DependenciesSatisfied(status, s)

\* What validate_state_projection recomputes from the events is what the
\* tables hold, in every committed state.
StatusAfter(e) ==
  CASE e.type = "COMPLETED" -> e.outcome
    [] e.type = "RETRIED" -> e.status
    [] e.type \in {"STARTED", "RESUMED"} -> "RUNNING"
    [] OTHER -> e.type

Projected(s) ==
  IF Commits(s, StatusTypes) = {} THEN InitialStatus[s]
                                  ELSE StatusAfter(Latest(s, StatusTypes))

RegisteredItems(s, d) ==
  UNION {{<<e.first + n, e.items[n]>> : n \in DOMAIN e.items} :
           e \in {x \in UNION {ledger[i] : i \in DOMAIN ledger} :
                    x.type = "REGISTERED" /\ x.stage = s /\ x.direction = d}}

LedgerReplays ==
  \A s \in Stages :
    /\ status[s] = Projected(s)
    /\ \A d \in Directions :
         RegisteredItems(s, d) = {<<n, artifacts[s][d][n]>> : n \in DOMAIN artifacts[s][d]}

\* Attempts do not mix: a stage that is yet to start again shows no input and
\* no output of the attempts before.
AttemptsSeparated ==
  \A s \in Stages, d \in Directions :
    status[s] \in {"PENDING", "READY"} => Current(s, d) = <<>>

\* Two repairs asked of one target by one trigger on the strength of its
\* outputs find different outputs, Codex evidence aside: a repair loop cannot
\* turn without a substantive change.  The outputs are read from the events.
AttemptSubstance(s, i) ==
  LET resets == {j \in 1..(i - 1) : \E e \in ledger[j] : e.type = "RETRIED" /\ e.stage = s}
      outputs == {e \in UNION {ledger[j] : j \in {k \in 1..(i - 1) : \A r \in resets : k > r}} :
                    e.type = "REGISTERED" /\ e.stage = s /\ e.direction = "OUTPUT"}
  IN  UNION {{<<e.first + n, e.items[n]>> : n \in DOMAIN e.items} : e \in outputs}

CountIn(items, a) == Cardinality({x \in items : x[2] = a})

RepairsProgress ==
  \A i, j \in CommitsOfType("RETRIED") : i < j =>
    \A e \in ledger[i], f \in ledger[j] :
      (/\ e.type = "RETRIED" /\ e.stage = e.root /\ e.fingerprints # {}
       /\ f.type = "RETRIED" /\ f.stage = f.root /\ f.fingerprints # {}
       /\ <<e.root, e.trigger>> = <<f.root, f.trigger>>
       /\ \A p \in e.fingerprints \cup f.fingerprints : p[3] \notin Progress)
      => \E a \in Artifact :
           /\ a.kind \notin CodexKinds
           /\ CountIn(AttemptSubstance(e.root, i), a) # CountIn(AttemptSubstance(e.root, j), a)

\* The highest phase a stage of which has started.
ReachedPhase ==
  LET ranks == {Rank[s] : s \in {x \in Stages : Entered(x)}} \cup {0}
  IN  CHOOSE r \in ranks : \A q \in ranks : q <= r

Results == INSTANCE PhasedResults
             WITH valid <- {s \in Stages : status[s] \in Satisfying},
                  reached <- ReachedPhase, Derived <- Descendants

\* The ledger keeps the promise of PhasedResults: results are accepted over
\* results, and withdrawn with all that rests on them, in the phase reached.
ImplementsPhasedResults == Results!Spec
=============================================================================
