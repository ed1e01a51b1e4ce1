-------------------------- MODULE AnalysisPipeline --------------------------
(***************************************************************************)
(* The evidence and design phase of a developer's migration: the evidence, *)
(* the experiment environment, the knowledge base, the target study, the   *)
(* handoff, the contracts and the analysis review (port.py,                *)
(* environment/inventory.py and execution.py, knowledge/bootstrap.py,      *)
(* target_study/, migration/handoff.py, analysis_review.py and             *)
(* repair_routing.py).                                                     *)
(*                                                                         *)
(* Here stages depend on the data they read and not on the stage before    *)
(* them, and a stage that sends another back undoes what was made from it. *)
(* A study whose evidence was sent back may return without a turn: its     *)
(* receipts are compared with the part of the evidence that is not about   *)
(* the source driver, and with the environment.                            *)
(*                                                                         *)
(* Products are what workers chose, each kept with a view of the products  *)
(* it was made from.  How an evidence closure is made is EvidenceClosure's *)
(* part, how errors reach the worker RecoveryController's: here an answer  *)
(* that leads to an error is dropped, and the worker is asked again.  The  *)
(* reuse of an analysis review is left out: a review that has passed is    *)
(* the last of its phase, and nothing of its phase can send it back.       *)
(***************************************************************************)
EXTENDS MigrationWorkflow, FiniteSets

CONSTANTS
  Evidences,      \* what a closure may hold, about the source driver and the rest
  Environments,   \* the smoke scripts of the environment, each with its report
  Reports,        \* what a study may say
  None,           \* no such thing
  MaxRepairs,     \* bound: repairs of earlier stages
  MaxActs         \* bound: commands of the operator, crashes between two writes of a stage,
                  \* and inspections by the controller that raise

ASSUME AnalysisAssumption ==
  /\ Mode = "developer-evidence"
  /\ \A e \in Evidences : DOMAIN e = {"source", "rest"}
  /\ \A e \in Environments : DOMAIN e = {"script", "report"}
  /\ MaxRepairs \in Nat /\ MaxActs \in Nat

VARIABLES
  status,     \* the stage rows
  product,    \* what a stage was accepted with, and the view it was made from
  job,        \* the latest job of the current attempt of a stage
  findings,   \* the outputs with findings that await the worker's judgement
  inventory,  \* inventories of the current attempt at the environment
  candidates, \* and lists of artifact modes
  hand,       \* what an inspection by the operator has to write next
  root,       \* the stage whose repair opened the current attempt of a stage
  receipts,   \* the accepted studies remembered for reuse
  repairs,    \* repairs made: target, trigger and substantive inputs
  at,         \* what the controller has to write next
  studies,    \* studies accepted from a turn
  rejected,   \* those of them some stage has sent back
  accidents,  \* what went on beside the plain course
  acts

work == <<product, job, findings>>
inspection == <<inventory, candidates, hand>>
history == <<receipts, repairs, studies, rejected>>
bounds == <<accidents, acts>>
vars == <<status, work, inspection, root, history, at, bounds>>

Evidence == "evidence_closure"
Environment == "environment_recovery"
Knowledge == "knowledge_base"
Study == "target_platform_study"
Handoff == "migration_handoff"
Contracts == "migration_contracts"
Review == "analysis_review"

\* The stages of the phase, and what they depend on within it.
Stages == {Rows[i].name : i \in {i \in WorkflowStages : WorkflowRank[i] = 2}}

Deps == [s \in Stages |-> {d \in Stages : Position(d) \in WorkflowDeps[Position(s)]}]

Earlier == [s \in Stages |-> {r \in Stages : Position(r) < Position(s)}]

\* Stages are read by later ones only.
Ancestors ==
  LET above[s \in Stages] == Deps[s] \cup UNION {above[d] : d \in Deps[s]}
  IN  [s \in Stages |-> above[s]]

\* Mutant: only what reads the target directly.
DirectDescendants(t) == {t} \cup {s \in Stages : t \in Deps[s]}

Descendants(t) == {t} \cup {s \in Stages : t \in Ancestors[s]}

\* What the worker of a stage may choose, and what the stage is accepted with.
Contents(s) ==
  CASE s = Evidence -> Evidences
    [] s = Environment -> Environments
    [] s = Study -> Reports
    [] OTHER -> {s}

Modes == [mode : Environments, ready : BOOLEAN]
Studies == [report : Reports, number : Nat]

Outcomes(s) == CASE s = Environment -> Modes [] s = Study -> Studies [] OTHER -> Contents(s)

Products(s) ==
  [content : Outcomes(s), view : [Ancestors[s] -> Evidences \cup Modes \cup Studies \cup Stages]]

ASSUME NoneAssumption == \A s \in Stages : None \notin Products(s)

-----------------------------------------------------------------------------
(* The phase                                                               *)

Init ==
  /\ status = [s \in Stages |-> IF Deps[s] = {} THEN "READY" ELSE "PENDING"]
  /\ product = [s \in Stages |-> None]
  /\ job = [s \in Stages |-> None]
  /\ findings = None
  /\ inventory = 0 /\ candidates = 0 /\ hand = "none"
  /\ root = [s \in Stages |-> None]
  /\ receipts = <<>> /\ repairs = {} /\ studies = 0 /\ rejected = {}
  /\ at = "loop"
  /\ accidents = {} /\ acts = 0

\* A blocked stage does not keep a later one from its turn.
Current(s) ==
  /\ at = "loop"
  /\ status[s] \in {"READY", "RUNNING"}
  /\ \A r \in Earlier[s] : status[r] \notin {"READY", "RUNNING"}

Start(s) == status' = [status EXCEPT ![s] = "RUNNING"]

View(s) == [d \in Ancestors[s] |-> product[d].content]

\* finalize_stage: what now has all it reads is ready.
Commit(s, made) ==
  LET passed == [status EXCEPT ![s] = "PASS"] IN
  /\ status' = [r \in Stages |-> IF passed[r] = "PENDING" /\ \A d \in Deps[r] : passed[d] = "PASS"
                                 THEN "READY" ELSE passed[r]]
  /\ product' = [product EXCEPT ![s] = made]
  /\ root' = [root EXCEPT ![s] = None]

Block(s) ==
  /\ status' = [status EXCEPT ![s] = "BLOCKED"]
  /\ root' = [root EXCEPT ![s] = None]

-----------------------------------------------------------------------------
(* Inspection of the environment                                           *)

\* Mutant: an attempt resumed is inspected again.
UninspectedOrResumed == status[Environment] = "READY" \/ job[Environment] = None

Uninspected == status[Environment] = "READY"

\* _environment reads the row; inspect reads it again, before it starts the stage ...
Inspect ==
  /\ Current(Environment)
  /\ Uninspected
  /\ at' = "inspect"
  /\ UNCHANGED <<status, work, inspection, root, history, bounds>>

\* ... and goes on with a stage that runs by now.
BeginInspection ==
  /\ at = "inspect"
  /\ Start(Environment)
  /\ at' = "inventory"
  /\ UNCHANGED <<work, inspection, root, history, bounds>>

RecordInventory ==
  /\ at = "inventory"
  /\ inventory' = inventory + 1
  /\ at' = "candidates"
  /\ UNCHANGED <<status, work, candidates, hand, root, history, bounds>>

RecordCandidates ==
  /\ at = "candidates"
  /\ candidates' = candidates + 1
  /\ at' = "loop"
  /\ UNCHANGED <<status, work, inventory, hand, root, history, bounds>>

\* The start is refused to a stage that runs by now, or the look at the host and the
\* checkouts raises; the run loop files the error for the worker and goes on.
InspectionFails ==
  /\ at \in {"inspect", "inventory", "candidates"}
  /\ at = "inspect" => ~Uninspected
  /\ acts < MaxActs
  /\ acts' = acts + 1
  /\ at' = "loop"
  /\ accidents' = accidents \cup {"inspected"}
  /\ UNCHANGED <<status, work, inspection, root, history>>

\* `dpf environment inspect` is the same code and looks at no lock; one at a time.
InspectByHand ==
  /\ hand = "none"
  /\ status[Environment] \in {"READY", "RUNNING"}
  /\ acts < MaxActs
  /\ acts' = acts + 1
  /\ Start(Environment)
  /\ hand' = "inventory"
  /\ accidents' = accidents \cup IF Uninspected /\ at # "inspect" THEN {} ELSE {"inspected"}
  /\ UNCHANGED <<work, inventory, candidates, root, history, at>>

HandRecordsInventory ==
  /\ hand = "inventory"
  /\ status[Environment] = "RUNNING"
  /\ inventory' = inventory + 1
  /\ hand' = "candidates"
  /\ UNCHANGED <<status, work, candidates, root, history, at, bounds>>

HandRecordsCandidates ==
  /\ hand = "candidates"
  /\ status[Environment] = "RUNNING"
  /\ candidates' = candidates + 1
  /\ hand' = "none"
  /\ UNCHANGED <<status, work, inventory, root, history, at, bounds>>

\* It raises, is killed, or finds the stage no longer running.
HandEnds ==
  /\ hand # "none"
  /\ hand' = "none"
  /\ accidents' = accidents \cup {"inspected"}
  /\ UNCHANGED <<status, work, inventory, candidates, root, history, at, acts>>

\* What went wrong with its inspection ends with an attempt, unless an inspection
\* outlives it.
Afresh(s) ==
  CASE s # Environment -> accidents
    [] s = Environment /\ hand = "none" -> accidents \ {"inspected"}
    [] OTHER -> accidents \cup {"inspected"}

\* artifact: there is exactly one of each.
Inspected == inventory = 1 /\ candidates = 1

-----------------------------------------------------------------------------
(* Turns and their outcome                                                 *)

Passes(content) == [decision |-> "pass", content |-> content]
Blocker == [decision |-> "blocked"]
Asks(t) == [decision |-> "rework", target |-> t]

Static == {Knowledge, Handoff}

\* A repair of a later stage is refused as one of a stage without a worker is.
Answers(s) ==
  {Passes(c) : c \in Contents(s)} \cup {Blocker}
    \cup {Asks(t) : t \in Earlier[s]}

Judging(s) == findings # None /\ findings.stage = s

\* identity: what a study rests on, the source driver aside, and the mode record.
StudyIdentity ==
  [evidence |-> product[Evidence].content.rest, environment |-> product[Environment].content.mode]

Remembered == {i \in DOMAIN receipts : receipts[i].identity = StudyIdentity}

\* Mutant: any repair may bring a study back.
RestorableAnyhow == root[Study] # None /\ Remembered # {}

Restorable == root[Study] = Evidence /\ Remembered # {}

Newest == CHOOSE i \in Remembered : \A k \in Remembered : k <= i

\* restore: the report is published again, and no turn is paid for.
Restore ==
  /\ Current(Study)
  /\ Restorable
  /\ Commit(Study, receipts[Newest].study)
  /\ UNCHANGED <<job, findings, inspection, history, at, bounds>>

AtGate(s) ==
  /\ Current(s)
  /\ s \notin Static
  /\ ~Judging(s)
  /\ s = Environment => ~Uninspected
  /\ s = Study => ~Restorable

\* run_codex_stage
Turn(s) ==
  /\ AtGate(s)
  /\ job[s] = None
  /\ \E a \in Answers(s) : job' = [job EXCEPT ![s] = [answer |-> a, view |-> View(s)]]
  /\ Start(s)
  /\ UNCHANGED <<product, findings, inspection, root, history, at, bounds>>

Answered(s, decision) == AtGate(s) /\ job[s] # None /\ job[s].answer.decision = decision

\* _codex_gate: a repair names a passed prerequisite that has a worker of its own.
Repairable(s, t) ==
  /\ t \notin Static
  /\ status[t] = "PASS"
  /\ t \in Earlier[s]
  /\ s \in Descendants(t)

\* The answer leads to an error, and another is asked for.
Unusable(s) ==
  /\ \/ Answered(s, "rework") /\ ~Repairable(s, job[s].answer.target)
     \/ s = Environment /\ Answered(s, "pass") /\ ~Inspected
  /\ job' = [job EXCEPT ![s] = None]
  /\ UNCHANGED <<status, product, findings, inspection, root, history, at, bounds>>

GiveUp(s) ==
  /\ Answered(s, "blocked")
  /\ Block(s)
  /\ UNCHANGED <<work, inspection, history, at, bounds>>

Made(s, content) == [content |-> content, view |-> job[s].view]

Chosen(s) == job[s].answer.content

\* run_codex_harness: the mode record names the script and the report, and
\* whether the smoke passed is part of the run it is kept with.
RunHarness(ready) ==
  LET made == Made(Environment, [mode |-> Chosen(Environment), ready |-> ready]) IN
  /\ Answered(Environment, "pass")
  /\ Inspected
  /\ IF ready
     THEN Commit(Environment, made) /\ UNCHANGED findings
     ELSE findings' = [stage |-> Environment, made |-> made] /\ UNCHANGED <<status, product, root>>
  /\ UNCHANGED <<job, inspection, history, at, bounds>>

\* TargetStudyService: remembering the study is a write of its own.
AcceptStudy ==
  /\ Answered(Study, "pass")
  /\ Commit(Study, Made(Study, [report |-> Chosen(Study), number |-> studies + 1]))
  /\ studies' = studies + 1
  /\ at' = "remember"
  /\ UNCHANGED <<job, findings, inspection, receipts, repairs, rejected, bounds>>

Remember ==
  /\ at = "remember"
  /\ receipts' = Append(receipts, [identity |-> StudyIdentity, study |-> product[Study]])
  /\ at' = "loop"
  /\ UNCHANGED <<status, work, inspection, root, repairs, studies, rejected, bounds>>

Accept(s) ==
  /\ s \in {Evidence, Contracts, Review}
  /\ Answered(s, "pass")
  /\ Commit(s, Made(s, Chosen(s)))
  /\ UNCHANGED <<job, findings, inspection, history, at, bounds>>

-----------------------------------------------------------------------------
(* Stages without a worker, and findings                                   *)

\* build_infrastructure
BuildKnowledge ==
  /\ Current(Knowledge)
  /\ Commit(Knowledge, [content |-> Knowledge, view |-> View(Knowledge)])
  /\ UNCHANGED <<job, findings, inspection, history, at, bounds>>

\* MigrationHandoff: an environment whose smoke failed is a finding once more,
\* whatever its own worker made of it.
CreateHandoff ==
  LET made == [content |-> Handoff, view |-> View(Handoff)] IN
  /\ Current(Handoff)
  /\ ~Judging(Handoff)
  /\ IF product[Environment].content.ready
     THEN Commit(Handoff, made) /\ UNCHANGED findings
     ELSE /\ findings' = [stage |-> Handoff, made |-> made]
          /\ Start(Handoff)
          /\ UNCHANGED <<product, root>>
  /\ UNCHANGED <<job, inspection, history, at, bounds>>

\* _checker_decision: a pass on an unchanged script publishes what was
\* captured; any other answer goes the ordinary way.
JudgeEnvironment ==
  /\ Current(Environment)
  /\ Judging(Environment)
  /\ findings' = None
  /\ \E a \in Answers(Environment) :
       IF a.decision = "pass" /\ a.content.script = findings.made.content.mode.script
       THEN Commit(Environment, findings.made) /\ UNCHANGED job
       ELSE /\ job' = [job EXCEPT ![Environment] = [answer |-> a, view |-> View(Environment)]]
            /\ UNCHANGED <<status, product, root>>
  /\ UNCHANGED <<inspection, history, at, bounds>>

\* A repair cannot be asked for from here.
JudgeHandoff ==
  /\ Current(Handoff)
  /\ Judging(Handoff)
  /\ findings' = None
  /\ Commit(Handoff, findings.made) \/ (Block(Handoff) /\ UNCHANGED product)
  /\ UNCHANGED <<job, inspection, history, at, bounds>>

-----------------------------------------------------------------------------
(* Sending work back                                                       *)

\* retry_prerequisite: the premises that must change before it is asked again.
Progress(t) ==
  CASE t = Environment -> product[t].content.mode.script
    [] t = Study -> product[t].content.report
    [] OTHER -> product[t].content

Repair(t, s) == <<t, s, Progress(t)>>

\* The jobs of a new attempt are those after its boundary.
Dropped(affected) == [s \in Stages |-> IF s \in affected THEN None ELSE job[s]]

SendBack(s) ==
  LET t == job[s].answer.target IN
  /\ Answered(s, "rework")
  /\ Repairable(s, t)
  /\ Repair(t, s) \notin repairs
  /\ Cardinality(repairs) < MaxRepairs
  /\ repairs' = repairs \cup {Repair(t, s)}
  /\ status' = [r \in Stages |-> CASE r = t -> "READY"
                                   [] r \in Descendants(t) \ {t} -> "PENDING"
                                   [] OTHER -> status[r]]
  /\ product' = [r \in Stages |-> IF r \in Descendants(t) THEN None ELSE product[r]]
  /\ job' = Dropped(Descendants(t))
  /\ root' = [r \in Stages |-> IF r \in Descendants(t) THEN t ELSE root[r]]
  /\ inventory' = IF t = Environment THEN 0 ELSE inventory
  /\ candidates' = IF t = Environment THEN 0 ELSE candidates
  /\ rejected' = rejected \cup IF t = Study THEN {product[t].content.number} ELSE {}
  /\ accidents' = Afresh(t) \cup IF s = Study /\ rejected # {} THEN {"handed_on"} ELSE {}
  /\ UNCHANGED <<findings, hand, receipts, studies, at, acts>>

\* The same repair asked for again on unchanged premises blocks who asks.
Exhaust(s) ==
  /\ Answered(s, "rework")
  /\ Repairable(s, job[s].answer.target)
  /\ Repair(job[s].answer.target, s) \in repairs
  /\ Block(s)
  /\ UNCHANGED <<work, inspection, history, at, bounds>>

-----------------------------------------------------------------------------
(* The operator, and crashes                                               *)

\* reopen_blocked
Reopen(s) ==
  /\ at = "loop"
  /\ status[s] = "BLOCKED"
  /\ acts < MaxActs
  /\ acts' = acts + 1
  /\ status' = [status EXCEPT ![s] = "READY"]
  /\ root' = [root EXCEPT ![s] = s]
  /\ job' = Dropped({s})
  /\ inventory' = IF s = Environment THEN 0 ELSE inventory
  /\ candidates' = IF s = Environment THEN 0 ELSE candidates
  /\ accidents' = Afresh(s)
  /\ UNCHANGED <<product, findings, hand, history, at>>

\* The next run starts from what is on record.
Crash ==
  /\ at # "loop"
  /\ acts < MaxActs
  /\ acts' = acts + 1
  /\ at' = "loop"
  /\ accidents' = accidents \cup CASE at = "remember" -> {"unremembered"}
                                   [] at \in {"inventory", "candidates"} -> {"inspected"}
                                   [] OTHER -> {}
  /\ UNCHANGED <<status, work, inspection, root, history>>

Next ==
  \/ Inspect \/ BeginInspection \/ RecordInventory \/ RecordCandidates \/ InspectionFails
  \/ InspectByHand \/ HandRecordsInventory \/ HandRecordsCandidates \/ HandEnds
  \/ Restore \/ AcceptStudy \/ Remember
  \/ \E ready \in BOOLEAN : RunHarness(ready)
  \/ BuildKnowledge \/ CreateHandoff \/ JudgeEnvironment \/ JudgeHandoff
  \/ \E s \in Stages : Turn(s) \/ Unusable(s) \/ GiveUp(s) \/ Accept(s)
                         \/ SendBack(s) \/ Exhaust(s) \/ Reopen(s)
  \/ Crash

Spec == Init /\ [][Next]_vars

-----------------------------------------------------------------------------
(* Properties                                                              *)

IsView(s, view) == DOMAIN view = Ancestors[s] /\ \A d \in Ancestors[s] : view[d] \in Outcomes(d)

IsProduct(s, made) == made # None /\ made.content \in Outcomes(s) /\ IsView(s, made.view)

\* Every product is one its stage may be accepted with, with a view of all it was made
\* from, and a stage that passed has one.
TypeOK ==
  /\ status \in [Stages -> {"PENDING", "READY", "RUNNING", "BLOCKED", "PASS"}]
  /\ DOMAIN product = Stages /\ DOMAIN job = Stages
  /\ \A s \in Stages :
       /\ status[s] = "PASS" <=> product[s] # None
       /\ product[s] # None => IsProduct(s, product[s])
       /\ job[s] # None => job[s].answer \in Answers(s) /\ IsView(s, job[s].view)
  /\ findings # None =>
       /\ findings.stage \in {Environment, Handoff}
       /\ IsProduct(findings.stage, findings.made)
  /\ root \in [Stages -> Stages \cup {None}]
  /\ inventory \in 0 .. MaxActs + 1 /\ candidates \in 0 .. MaxActs + 1
  /\ hand \in {"none", "inventory", "candidates"}
  /\ studies \in Nat /\ rejected \subseteq 1 .. studies
  /\ at \in {"loop", "inspect", "inventory", "candidates", "remember"}
  /\ acts \in 0 .. MaxActs

\* What a study may disregard: what of the evidence is about the source driver,
\* and how the smoke of the environment went.
Agrees(s, d, seen, now) ==
  CASE s = Study /\ d = Evidence -> seen.rest = now.rest
    [] s = Study /\ d = Environment -> seen.mode = now.mode
    [] OTHER -> seen = now

\* Every accepted product was made from the products accepted now, whatever was
\* sent back, kept or restored in between (retry_from, target_study/reuse.py).
RestsOnCurrent ==
  \A s \in Stages : status[s] = "PASS" =>
    \A d \in Ancestors[s] :
      /\ status[d] = "PASS"
      /\ Agrees(s, d, product[s].view[d], product[d].content)

\* A study that was sent back is not accepted again without a turn, unless the
\* worker of a study hands a repair on, or the controller crashes before it has
\* remembered a study (target_study/reuse.py).
RejectedStaysOut ==
  status[Study] = "PASS" /\ product[Study].content.number \in rejected =>
    accidents \cap {"handed_on", "unremembered"} # {}

\* Once nobody inspects, a running or accepted attempt at the environment has exactly one
\* inventory and one list of modes, as all that reads them requires, whoever made them and
\* however earlier attempts went, unless an inspection of this very attempt raised or was
\* cut off by a crash, was not the only one, or was left over from the attempt before.
InspectedOnce ==
  /\ status[Environment] \in {"RUNNING", "PASS"}
  /\ at \notin {"inventory", "candidates"} /\ hand = "none"
  => Inspected \/ "inspected" \in accidents
=============================================================================
