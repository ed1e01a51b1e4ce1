-------------------------- MODULE DeliveryPipeline --------------------------
(***************************************************************************)
(* The delivery phase of a developer's migration: the target framework,    *)
(* the driver, its packaging, the public QEMU validation and the final     *)
(* review (port.py, migration/target_framework.py, implementation.py,      *)
(* implementation_smoke.py, artifact_preparation.py, public_qemu.py,       *)
(* final_evidence_review.py, repair_execution.py).                         *)
(*                                                                         *)
(* All stages look at one work tree, which workers edit in their turns and *)
(* scripts of the worker may change while the controller runs them.  Each  *)
(* stage freezes what it found; each later stage checks that the tree is   *)
(* still what was frozen, and sends the work back when it is not.  A       *)
(* worker that repairs a stage leaves a receipt of the whole work, which   *)
(* lets the following stages proceed without turns of their own.           *)
(*                                                                         *)
(* File contents are numbers, 0 being what upstream has (or no file); the  *)
(* runtime artifact with its presence checker is one, the scripts with     *)
(* their helpers another.  The recovery protocol is RecoveryController's:  *)
(* here an error asks the worker again, and outputs with findings are put  *)
(* to the worker, who accepts them or works on.                            *)
(***************************************************************************)
EXTENDS Integers, FiniteSets

CONSTANTS
  Framework, \* files of the target platform a migration may have to change
  Driver,    \* files of the driver
  Contents,  \* contents other than 0
  Markers,   \* runtime artifacts the preflight knows for mere text
  Works,     \* bound: the trees workers and their scripts may leave
  None,      \* no such thing
  MaxEdits,  \* bound: turns that change the tree
  MaxStrays, \* bound: scripts that change the tree while they run
  MaxRepairs \* bound: repairs of earlier stages

ASSUME TreeAssumption ==
  /\ Framework \cap Driver = {}
  /\ Contents \subseteq Nat \ {0}
  /\ Markers \subseteq Contents
  /\ Works \subseteq [files : [Framework \cup Driver -> Contents \cup {0}],
                     runtime : Contents \cup {0}, harness : Contents \cup {0}]
  /\ MaxEdits \in Nat /\ MaxStrays \in Nat /\ MaxRepairs \in Nat

Paths == Framework \cup Driver
Stages == 1 .. 5

\* The tree, what stages freeze of it, and their results.
Values == Contents \cup {0}
Trees == [files : [Paths -> Values], runtime : Values, harness : Values]
Snapshots == UNION {[S -> Values] : S \in SUBSET Paths}
Bundles == [files : Snapshots, frame : Snapshots]
Identities == [bundle : Bundles, runtime : Values]
Runs == [bundle : Bundles, identity : Identities, harness : Values, ok : BOOLEAN]
Attempts == [bundle : Bundles, identity : Identities, harness : Values, ok : BOOLEAN,
             answers : BOOLEAN]
Reviews == [frame : Snapshots, bundle : Bundles, identity : Identities, report : Runs]

\* What a worker may submit: a pass, a blocker, an execution, or the stage to be repaired.
Pass == <<"pass">>
Blocker == <<"blocked">>
Run == <<"operation">>
Asks(t) == <<"rework", t>>

ASSUME NoneAssumption ==
  /\ None \notin Trees \cup Snapshots \cup Bundles \cup Identities \cup Runs \cup Attempts \cup Reviews
  /\ None \notin {Pass, Blocker, Run} \cup {Asks(t) : t \in Stages}

VARIABLES
  tree,     \* the work tree: source files, runtime artifact, harness
  status,   \* the stage rows
  job,      \* what the latest job of the stage being worked on submitted, in this attempt
  findings, \* outputs with findings that await the worker's judgement
  frame,    \* the accepted target framework bundle
  bundle,   \* the last accepted implementation bundle, also of an earlier attempt
  identity, \* the accepted artifact identity
  attempt,  \* the latest QEMU execution of the current attempt
  report,   \* the accepted public QEMU report
  review,   \* the inputs of the accepted final review
  smokes,   \* the work of the passing smoke receipts
  prepared, \* the work of the latest repair receipt, if not void
  repairing,\* stages whose own repair is open
  repairs,  \* repairs made: target, trigger and substantive inputs
  at,       \* what the controller does, for which stage, and why
  judged,   \* stages accepted in spite of findings
  owed,     \* stages sent back for a fault, not yet worked on
  edits, strays

current == <<status, repairing, job, attempt>>
products == <<frame, bundle, identity, report, review>>
ledger == <<current, findings, products, prepared, repairs>>
vars == <<tree, ledger, smokes, at, judged, owed, edits, strays>>

F == 1 \* target_framework_enablement
I == 2 \* driver_implementation
A == 3 \* artifact_preparation
Q == 4 \* public_qemu_validation
R == 5 \* final_evidence_review

-----------------------------------------------------------------------------
(* The tree and what is frozen of it *)

\* worktree_files: the files that differ from upstream, and their contents.
Changed == {p \in Paths : tree.files[p] # 0}
Take(S) == [p \in S |-> tree.files[p]]

\* _validate_files: the named files are still as recorded; others are not looked at.
Holds(frozen, t) == \A p \in DOMAIN frozen : t.files[p] = frozen[p]

\* Mutant: only the files of the snapshot are looked at.
SnapshotHolds(t) == Holds(bundle.files, t)

\* validate_worktree_snapshot: apart from the framework's files, the changed files are
\* those of the driver's snapshot, and as recorded.
DriverUnchanged(t) ==
  {p \in Paths \ DOMAIN bundle.frame : t.files[p] # 0} = DOMAIN bundle.files
    /\ Holds(bundle.files, t)

\* inspect_implementation: the runtime artifact is not mere text.
PreflightPasses == tree.runtime \notin Markers

\* identity: the worker has prepared all a repair receipt needs.
Complete == tree.runtime # 0 /\ tree.harness # 0

\* prepared: the latest receipt names the very tree of this moment.
IsPrepared == prepared = tree

\* active: the stage repairs its own fault, or packages a prepared repair.
Active(s) == s \in repairing \/ (s = A /\ IsPrepared)

\* Running a script: how it ends is external; what it does to the tree is bounded.
Executes(after) ==
  /\ after # tree => strays < MaxStrays
  /\ tree' = after
  /\ strays' = strays + IF after # tree THEN 1 ELSE 0

-----------------------------------------------------------------------------
(* The controller's loop *)

Doing(what, s, why) == [what |-> what, stage |-> s, why |-> why]
Loop == Doing("loop", None, None)
Gate(s) == Doing("gate", s, None)
Ask(s) == Doing("ask", s, None)

Init ==
  /\ tree = [files |-> [p \in Paths |-> 0], runtime |-> 0, harness |-> 0]
  /\ status = [s \in Stages |-> IF s = F THEN "READY" ELSE "PENDING"]
  /\ job = None
  /\ findings = None
  /\ frame = None /\ bundle = None /\ identity = None
  /\ attempt = None /\ report = None /\ review = None
  /\ smokes = {} /\ prepared = None /\ repairing = {} /\ repairs = {}
  /\ at = Loop /\ judged = {} /\ owed = {}
  /\ edits = 0 /\ strays = 0

\* _current: there is at most one stage to work on.
Current(s) == status[s] \in {"READY", "RUNNING"} /\ \A r \in 1 .. s - 1 : status[r] = "PASS"

Started(s) == [status EXCEPT ![s] = "RUNNING"]

\* The steps a stage may take without a turn of its worker.
Mechanical == [s \in {I, A, Q} |-> CASE s = I -> "smoke" [] s = A -> "capture" [] s = Q -> "execute"]

\* _run_project, and the adapters _implementation, _artifact_preparation and _public_qemu:
\* findings first; then a prepared repair; else the worker.
Begin(s) ==
  /\ at = Loop /\ Current(s)
  /\ IF findings # None
       THEN at' = Doing("judge", s, None) /\ UNCHANGED status
     ELSE IF IsPrepared /\ (s \in {A, Q} \/ (s = I /\ Active(I)))
       THEN at' = Doing(Mechanical[s], s, "prepared") /\ status' = Started(s)
     ELSE at' = Gate(s) /\ UNCHANGED status
  /\ UNCHANGED <<tree, repairing, job, attempt, findings, products, smokes, prepared, repairs, judged,
                 owed, edits, strays>>

\* What the worker of a stage may do to the tree.  The framework's worker is told to keep away
\* from the driver, the reviewer from everything.
Edited(s) ==
  IF s = R \/ edits = MaxEdits THEN {tree}
  ELSE {tree} \cup {t \in Works : s = F => /\ \A p \in Driver : t.files[p] = tree.files[p]
                                             /\ t.runtime = tree.runtime /\ t.harness = tree.harness}

Edit(s) ==
  /\ tree' \in Edited(s)
  /\ edits' = edits + IF tree' # tree THEN 1 ELSE 0

\* Only QEMU's worker asks for executions, and a repair is one of an earlier stage.
Submissions(s) ==
  {Pass, Blocker} \cup (IF s = Q THEN {Run} ELSE {}) \cup {Asks(t) : t \in 1 .. s - 1}

\* run_codex_stage: one turn.  Only an open stage can have one.
Turn(s) ==
  /\ at = Ask(s) \/ (at = Gate(s) /\ job = None)
  /\ Edit(s)
  /\ job' \in Submissions(s)
  /\ status' = Started(s)
  /\ at' = Gate(s)
  /\ owed' = owed \ {s}
  /\ attempt' = IF s = Q /\ attempt # None THEN [attempt EXCEPT !.answers = FALSE] ELSE attempt
  /\ UNCHANGED <<repairing, findings, products, smokes, prepared, repairs, judged, strays>>

\* An error of the adapter: the worker is asked.
Fail(s) ==
  /\ at' = Ask(s)
  /\ UNCHANGED ledger

-----------------------------------------------------------------------------
(* Sending work back *)

\* retry_prerequisite: what must have changed before the same repair is asked for again.
Progress(t) ==
  CASE t = F -> frame
    [] t = I -> bundle.files
    [] t = A -> identity.runtime
    [] t = Q -> <<report.identity.runtime, report.harness, tree.harness>>

Repair(t, s) == <<t, s, Progress(t)>>

\* Mutant: what was built on the target stands.
OnlyTarget(t) == {t}

\* descendants: all later delivery stages are built on the target.
Undone(t) == {r \in Stages : r >= t}

\* Mutant: a repair of any stage counts as one that leaves a receipt.
OpensAny(t) == {t}

\* active: only these two stages make repairs of their own.
Opens(t) == {t} \cap {I, A}

\* Mutant: a receipt stays valid whatever is reset.
KeptReceipt(reset) == prepared

\* prepared: a later reset of one of the two stages voids the receipt.
Receipt(reset) == IF reset \cap {I, A} # {} THEN None ELSE prepared

\* retry_from for a repair made before on the same inputs: the stage that asks is blocked.
Exhausted(t, s) ==
  /\ Repair(t, s) \in repairs
  /\ status' = [status EXCEPT ![s] = "BLOCKED"]
  /\ repairing' = repairing \ {s}
  /\ UNCHANGED <<job, attempt, products, prepared, repairs, judged, owed>>

\* A result of an undone stage is no longer current.
Kept(s, t, product) == IF s \in Undone(t) THEN None ELSE product

\* retry_from: the target is ready again and all that was built on it undone, its jobs and
\* executions included.  Among the inputs of a framework repair is the worker's report, so that
\* new wording makes it another repair.
SendBack(t, s, debt) ==
  \/ Exhausted(t, s)
  \/ /\ t # F => Repair(t, s) \notin repairs
     /\ Cardinality(repairs \cup {Repair(t, s)}) <= MaxRepairs
     /\ repairs' = repairs \cup {Repair(t, s)}
     /\ status' = [r \in Stages |-> CASE r = t -> "READY" [] r \in Undone(t) \ {t} -> "PENDING"
                                      [] OTHER -> status[r]]
     /\ job' = None
     /\ attempt' = None
     /\ frame' = Kept(F, t, frame) /\ identity' = Kept(A, t, identity)
     /\ report' = Kept(Q, t, report) /\ review' = Kept(R, t, review)
     /\ UNCHANGED bundle
     /\ repairing' = (repairing \ Undone(t)) \cup Opens(t)
     /\ prepared' = Receipt(Undone(t))
     /\ judged' = judged \ Undone(t)
     /\ owed' = owed \cup debt

\* A stage found the driver changed since its snapshot: back to the implementation.
Drifted(s) ==
  /\ SendBack(I, s, {I})
  /\ at' = Loop
  /\ UNCHANGED findings

\* _codex_gate: a repair may only name a stage that has passed.
Rework(s, t) ==
  /\ at = Gate(s) /\ t < s /\ job = Asks(t)
  /\ SendBack(t, s, {t})
  /\ at' = Loop
  /\ UNCHANGED <<tree, findings, smokes, edits, strays>>

\* _codex_gate: an honest blocker ends the attempt.
Blocked(s) ==
  /\ at = Gate(s) /\ job = Blocker
  /\ status' = [status EXCEPT ![s] = "BLOCKED"]
  /\ repairing' = repairing \ {s}
  /\ at' = Loop
  /\ UNCHANGED <<tree, job, attempt, findings, products, smokes, prepared, repairs, judged, owed, edits,
                 strays>>

\* reopen_blocked: a new attempt; it voids a repair receipt, but is no repair itself.
Reopen(s) ==
  /\ at = Loop /\ status[s] = "BLOCKED"
  /\ status' = [status EXCEPT ![s] = "READY"]
  /\ job' = None
  /\ attempt' = IF s = Q THEN None ELSE attempt
  /\ prepared' = Receipt({s})
  /\ UNCHANGED <<tree, repairing, findings, products, smokes, repairs, at, judged, owed, edits, strays>>

-----------------------------------------------------------------------------
(* Accepting what a stage produced *)

\* finalize_stage without findings: the next stage may start, or is started.  The jobs and
\* executions of an accepted attempt are not looked at again.
CommitThen(s, next) ==
  /\ status' = [r \in Stages |-> CASE r = s -> "PASS" [] r = s + 1 -> next [] OTHER -> status[r]]
  /\ repairing' = repairing \ {s}
  /\ job' = None
  /\ attempt' = None

Commit(s) == CommitThen(s, "READY")

\* finalize_stage with findings: the outputs are captured for the worker to judge.
Findings(product) == findings' = [product |-> product, tree |-> tree']

\* _checker_decision: one turn over the findings.  A pass on unchanged work accepts the captured
\* outputs, any other answer goes the ordinary way.
Judge(s) ==
  /\ at = Doing("judge", s, None)
  /\ Edit(s)
  /\ findings' = None
  /\ owed' = owed \ {s}
  /\ \E d \in Submissions(s) :
       IF d = Pass /\ tree' = findings.tree
         THEN /\ Commit(s)
              /\ bundle' = IF s = I THEN findings.product ELSE bundle
              /\ identity' = IF s = A THEN findings.product ELSE identity
              /\ report' = IF s = Q THEN findings.product ELSE report
              /\ judged' = judged \cup {s}
              /\ at' = Loop
         ELSE /\ job' = d
              /\ attempt' = IF s = Q THEN [attempt EXCEPT !.answers = FALSE] ELSE attempt
              /\ at' = Gate(s)
              /\ UNCHANGED <<status, repairing, bundle, identity, report, judged>>
  /\ UNCHANGED <<frame, review, smokes, prepared, repairs, strays>>

\* _accept_target_framework_enablement, snapshot_worktree: the files of the last driver snapshot
\* are left out, and must still be as that snapshot has them.
DriverFilesOf(b) == IF b = None THEN {} ELSE DOMAIN b.files

PassFramework ==
  /\ at = Gate(F) /\ job = Pass
  /\ IF bundle # None /\ ~Holds(bundle.files, tree)
       THEN Fail(F)
       ELSE /\ frame' = Take(Changed \ DriverFilesOf(bundle))
            /\ Commit(F)
            /\ at' = Loop
            /\ UNCHANGED <<findings, bundle, identity, report, review, prepared, repairs>>
  /\ UNCHANGED <<tree, smokes, judged, owed, edits, strays>>

\* _accept_implementation_result and _accept_artifact_preparation_result up to the check of the
\* stage: a worker that made a repair leaves a receipt of it.
Submit(s, check) ==
  /\ at = Gate(s) /\ job = Pass
  /\ IF Active(s) /\ ~Complete
       THEN Fail(s)
       ELSE /\ prepared' = IF Active(s) THEN tree ELSE prepared
            /\ at' = Doing(check, s, IF Active(s) THEN "repair" ELSE "turn")
            /\ UNCHANGED <<current, findings, products, repairs>>
  /\ UNCHANGED <<tree, smokes, judged, owed, edits, strays>>

PassDriver == Submit(I, "smoke")
PassPackage == Submit(A, "capture")

-----------------------------------------------------------------------------
(* Implementation: the functional smoke and the snapshot *)

\* A failed smoke goes back to the worker of the gate.  After the packaging worker's change that
\* gate is packaging's, whose stage is not open: the turn it asks for is refused as an error, and
\* the loop takes up the implementation.
SmokeFailed(why) ==
  at' = CASE why = "prepared" -> Gate(I) [] why = "composite" -> Loop [] OTHER -> Ask(I)

\* Mutant: a run counts whatever it did to its inputs.
SmokeEnded(ok, after) == ok

\* implementation_smoke: a run counts only if it left its inputs as they were.
SmokePassed(ok, after) == ok /\ after = tree

\* snapshot_worktree up to the smoke, implementation_smoke: the framework is as frozen, and the
\* work passes a run of its own or has passed one before.
Smoke(why) ==
  /\ at = Doing("smoke", I, why)
  /\ IF ~Holds(frame, tree)
       THEN /\ at' = IF why = "composite" THEN Loop ELSE Ask(I)
            /\ UNCHANGED <<tree, smokes, strays>>
     ELSE IF ~Complete \/ (~PreflightPasses /\ tree \notin smokes)
       THEN SmokeFailed(why) /\ UNCHANGED <<tree, smokes, strays>>
     ELSE IF tree \in smokes
       THEN at' = Doing("seal", I, why) /\ UNCHANGED <<tree, smokes, strays>>
     ELSE \E ok \in BOOLEAN, after \in Works \cup {tree} :
            /\ Executes(after)
            /\ IF SmokePassed(ok, after)
                 THEN smokes' = smokes \cup {tree} /\ at' = Doing("seal", I, why)
                 ELSE SmokeFailed(why) /\ UNCHANGED smokes
  /\ UNCHANGED <<ledger, judged, owed, edits>>

\* snapshot_worktree from the smoke on: the driver's snapshot is what is changed and not the
\* framework's.  An empty one is a finding.
Seal(why) ==
  LET product == [files |-> Take(Changed \ DOMAIN frame), frame |-> frame] IN
  /\ at = Doing("seal", I, why)
  /\ UNCHANGED tree
  /\ IF DOMAIN product.files = {}
       THEN /\ Findings(product)
            /\ at' = Loop
            /\ UNCHANGED <<current, bundle>>
       ELSE /\ bundle' = product
            /\ IF why = "composite"
                 THEN CommitThen(I, "RUNNING") /\ at' = Doing("capture", A, why)
                 ELSE Commit(I) /\ at' = Loop
            /\ UNCHANGED findings
  /\ UNCHANGED <<frame, identity, report, review, prepared, repairs, smokes, judged, owed, edits, strays>>

-----------------------------------------------------------------------------
(* Packaging: the presence check *)

\* The packaging worker changed the driver: what it submitted is bound to a new implementation
\* snapshot without another worker, unless this has been tried on the same driver before.
Rebind(why) ==
  /\ at' = IF Repair(I, A) \in repairs THEN Loop ELSE Doing("rebind", I, why)
  /\ SendBack(I, A, {})
  /\ UNCHANGED findings

\* What an ImplementationChanged means, by the way packaging was entered.
Returned(why) ==
  CASE why = "prepared" -> Drifted(A)
    [] why = "composite" -> Fail(A) /\ UNCHANGED <<judged, owed>>
    [] OTHER -> Rebind(why)

\* The receipt of a repair is renewed, unless the presence check has destroyed the work.
Rebinding(why) ==
  /\ at = Doing("rebind", I, why)
  /\ status' = Started(I)
  /\ prepared' = IF why = "repair" /\ Complete THEN tree ELSE prepared
  /\ at' = IF why = "repair" /\ ~Complete THEN Loop ELSE Doing("smoke", I, "composite")
  /\ UNCHANGED <<tree, repairing, job, attempt, findings, products, repairs, smokes, judged, owed,
                 edits, strays>>

\* What the presence check and the validator ask of the run and of the tree after it.
Packaged(ok, after) == ok /\ after.runtime = tree.runtime /\ Holds(frame, after)

\* capture_codex_artifact: the framework and the driver are as frozen before the presence check
\* runs, the driver also after it.
Package(why) ==
  /\ at = Doing("capture", A, why)
  /\ IF tree.runtime = 0 \/ ~Holds(frame, tree)
       THEN Fail(A) /\ UNCHANGED <<tree, judged, owed, strays>>
     ELSE IF ~DriverUnchanged(tree) \/ ~PreflightPasses
       THEN Returned(why) /\ UNCHANGED <<tree, strays>>
     ELSE \E ok \in BOOLEAN, after \in Works \cup {tree} :
            /\ Executes(after)
            /\ LET product == [bundle |-> bundle, runtime |-> after.runtime] IN
               IF ~DriverUnchanged(after)
                 THEN Returned(why)
                 ELSE /\ IF Packaged(ok, after)
                           THEN identity' = product /\ Commit(A) /\ UNCHANGED findings
                           ELSE Findings(product) /\ UNCHANGED <<current, identity>>
                      /\ at' = Loop
                      /\ UNCHANGED <<frame, bundle, report, review, prepared, repairs, judged, owed>>
  /\ UNCHANGED <<smokes, edits>>

-----------------------------------------------------------------------------
(* Public QEMU validation and the final review *)

\* The worker asks for an execution.
Operation ==
  /\ at = Gate(Q) /\ job = Run
  /\ at' = Doing("execute", Q, "operation")
  /\ UNCHANGED <<tree, ledger, smokes, judged, owed, edits, strays>>

\* An execution is over: its receipt goes to the worker.
Observed(why) == IF why = "prepared" THEN Gate(Q) ELSE Ask(Q)

\* The inputs and scripts of an execution are those of this moment.
UpToDate(run) ==
  run.bundle = bundle /\ run.identity = identity /\ run.harness = tree.harness

\* run_script up to the receipt: a passing execution of the same inputs is not repeated, nor a
\* failed one for the same request.
Execute(why) ==
  /\ at = Doing("execute", Q, why)
  /\ IF tree.harness = 0
       THEN at' = Observed(why) /\ UNCHANGED <<tree, ledger, judged, owed, strays>>
     ELSE IF ~DriverUnchanged(tree) \/ ~PreflightPasses
       THEN Drifted(Q) /\ UNCHANGED <<tree, strays>>
     ELSE IF attempt # None /\ UpToDate(attempt) /\ (attempt.ok \/ attempt.answers)
       THEN at' = Observed(why) /\ UNCHANGED <<tree, ledger, judged, owed, strays>>
     ELSE \E ok \in BOOLEAN, after \in Works \cup {tree} :
            /\ Executes(after)
            /\ attempt' = [bundle |-> bundle, identity |-> identity, harness |-> tree.harness,
                           ok |-> ok /\ after.harness = tree.harness, answers |-> TRUE]
            /\ at' = Doing("recheck", Q, why)
            /\ UNCHANGED <<status, repairing, job, findings, products, prepared, repairs, judged, owed>>
  /\ UNCHANGED <<smokes, edits>>

\* run_script after the receipt: the scripts have left the driver alone.
Recheck(why) ==
  /\ at = Doing("recheck", Q, why)
  /\ IF DriverUnchanged(tree)
       THEN at' = Observed(why) /\ UNCHANGED <<ledger, judged, owed>>
       ELSE Drifted(Q)
  /\ UNCHANGED <<tree, smokes, edits, strays>>

\* accept_self_review: the worker passes on the latest receipt.  A failed or outdated one is a
\* finding.
PassQemu ==
  /\ at = Gate(Q) /\ job = Pass
  /\ UNCHANGED tree
  /\ IF attempt = None
       THEN Fail(Q) /\ UNCHANGED <<judged, owed>>
     ELSE IF ~DriverUnchanged(tree)
       THEN Drifted(Q)
     ELSE LET product == [f \in {"bundle", "identity", "harness", "ok"} |-> attempt[f]] IN
          /\ IF attempt.ok /\ UpToDate(attempt)
               THEN report' = product /\ Commit(Q) /\ UNCHANGED findings
               ELSE Findings(product) /\ UNCHANGED <<current, report>>
          /\ at' = Loop
          /\ UNCHANGED <<frame, bundle, identity, review, prepared, repairs, judged, owed>>
  /\ UNCHANGED <<smokes, edits, strays>>

\* FinalEvidenceReviewService.finalize: the verdict is stored with the evidence of this moment.
PassReview ==
  /\ at = Gate(R) /\ job = Pass
  /\ review' = [frame |-> frame, bundle |-> bundle, identity |-> identity, report |-> report]
  /\ Commit(R)
  /\ at' = Loop
  /\ UNCHANGED <<tree, findings, frame, bundle, identity, report, smokes, prepared, repairs, judged,
                 owed, edits, strays>>

-----------------------------------------------------------------------------
\* The controller is killed and started again.
Crash ==
  /\ at # Loop
  /\ at' = Loop
  /\ UNCHANGED <<tree, ledger, smokes, judged, owed, edits, strays>>

Reasons == {"turn", "repair", "prepared", "composite", "operation"}

Next ==
  \/ \E s \in Stages : Begin(s) \/ Turn(s) \/ Judge(s) \/ Blocked(s) \/ Reopen(s)
  \/ \E s \in Stages, t \in Stages : Rework(s, t)
  \/ PassFramework \/ PassDriver \/ PassPackage \/ PassQemu \/ PassReview
  \/ \E why \in Reasons : Smoke(why) \/ Seal(why) \/ Rebinding(why) \/ Package(why)
                            \/ Execute(why) \/ Recheck(why)
  \/ Operation
  \/ Crash

Spec == Init /\ [][Next]_vars

-----------------------------------------------------------------------------
(* Properties *)

\* Every variable has its type.
TypeOK ==
  /\ tree \in Trees
  /\ status \in [Stages -> {"PENDING", "READY", "RUNNING", "BLOCKED", "PASS"}]
  /\ job \in {None, Pass, Blocker, Run} \cup {Asks(t) : t \in Stages}
  /\ frame \in Snapshots \cup {None}
  /\ bundle \in Bundles \cup {None}
  /\ identity \in Identities \cup {None}
  /\ attempt \in Attempts \cup {None}
  /\ report \in Runs \cup {None}
  /\ review \in Reviews \cup {None}
  /\ status[F] = "PASS" <=> frame # None
  /\ status[A] = "PASS" <=> identity # None
  /\ status[Q] = "PASS" <=> report # None
  /\ status[R] = "PASS" <=> review # None
  /\ smokes \subseteq Trees
  /\ prepared \in Trees \cup {None}
  /\ repairing \subseteq {I, A} /\ judged \subseteq {I, A, Q} /\ owed \subseteq Stages
  /\ edits \in 0 .. MaxEdits /\ strays \in 0 .. MaxStrays

\* Whatever was repaired, prepared or run again, the accepted results of the phase speak of one
\* another: the driver of this framework, the package of this driver, an execution of this package
\* that passed, a verdict on all of them.  A result the worker accepted in spite of findings is its
\* own responsibility.
EvidenceChain ==
  LET Stands(s) == status[s] = "PASS" /\ s \notin judged IN
  /\ Stands(I) => bundle.frame = frame
  /\ Stands(A) => identity.bundle = bundle
  /\ Stands(Q) => report.bundle = bundle /\ report.identity = identity /\ report.ok
  /\ Stands(R) => review = [frame |-> frame, bundle |-> bundle, identity |-> identity, report |-> report]

\* No driver is accepted whose very source, with the framework's, has not passed a functional
\* smoke that left it as it was.
SmokeCoversSource ==
  status[I] = "PASS" /\ I \notin judged =>
    \E t \in smokes : Holds(bundle.files, t) /\ Holds(frame, t)

\* When a stage is accepted without findings, the tree's driver is the frozen driver, and up to
\* packaging the framework is the frozen framework, no matter who or what changed files since.
AcceptedOnFrozenSource ==
  [][\A s \in {I, A, Q} :
       status[s] # "PASS" /\ status'[s] = "PASS" /\ s \notin judged' =>
         /\ Holds(bundle'.files, tree')
         /\ {p \in Paths \ DOMAIN frame : tree'.files[p] # 0} = DOMAIN bundle'.files
         /\ s \in {I, A} => Holds(frame, tree')]_vars

\* A stage that was found at fault is worked on before it passes again: no receipt, of a repair or
\* a run, carries it past its own fault.
FaultsAreWorkedOn ==
  [][\A s \in owed : status'[s] = "PASS" => status[s] = "PASS" \/ s \notin owed']_vars
=============================================================================
