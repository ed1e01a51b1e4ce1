# Formal models of Driver Port Factory

Driver Port Factory drives the port of a C driver to a Rust kernel as a workflow of some twenty
stages. A controller (`port run`) works through the stages in order; most of them pay a Codex worker
for a *turn*, judge what it submitted with the stage's own checks, and either accept the outputs, put
the findings back to the worker, or ask for the repair of an earlier stage. Everything that must be
remembered is on disk: a SQLite database per run (`.dpf/run.sqlite3`) and a few files beside it.

This directory holds TLA+ models of that machinery, the TLC configurations that check them on small
instances, and proofs that TLAPS checks for every value of the constants. All paths below are relative to
`src/driver_port_factory/` unless they start with `docs/` or `README.md`.

## 1. Inventory of the system

| Part | State it keeps | Operations | Talks to |
|---|---|---|---|
| Stage ledger: `core/store.py`, `stage_persistence.py`, `artifact_persistence.py`, `ledger.py`, `schema.py`, `events.py`, `models.py` | tables `stages`, `stage_artifacts`, `events` (a hash chain) | create, start, wait, resume, register, commit, complete, retry_from, reopen_blocked, record_event | every other part |
| Integrity: `core/integrity.py`, `ledger.py` | none | verify the chain, project the events onto the tables, check artifact bytes | run on every `open_project` |
| Workflow and phases: `core/workflow.py`, `core/phases.py`, `orchestration/` | none (built from the configuration) | dependencies, descendants, output contracts, phase boundaries | ledger |
| Recovery decisions: `core/checker_decision.py`, `core/recovery_state.py` | `.dpf/checker-decisions/*.json`, one `.pending` pointer per stage, operation requests, resume ids | request_decision, request_recovery, guard_operation, pending_decision, accept_decision, resume_recovery | port controller, ledger |
| Continuations: `core/continuation.py` | events of the ledger | record_continuation | port controller |
| Port controller: `port.py` | memory only | run loop, Codex gate, decision loop, report routing | all |
| Codex job: `codex/cli.py`, `submission.py`, `gateway.py`, `transport.py` | receipt files, job results, metrics, conversation locks | run a turn, write a submission, bind it, kill the process group | controller, worker, ledger |
| Codex sessions: `codex/sessions.py`, `context_policy.py`, `context_reset.py`, `accounting.py` | the pointer to the thread of each conversation with a note of what it has been given, `context-policy.json`, session resets in the ledger, usage counters | resume or begin a thread, checkpoint and save the pointer, rotate it at the policy's boundary, reset it by hand, charge a turn | Codex job, operator |
| Project facade: `core/project.py` | findings noted in memory | finalize_stage, record_artifact, retry_from, note_check | ledger |
| Repair routing: `migration/repair_routing.py` | none | retry_prerequisite, completion or blockage of the asking stage | ledger |
| Controller lock and commands: `control/runtime.py`, `control/cli.py` | `.dpf/controller.lock`, `.dpf/controller.json` | port run, stage start / complete / reopen, artifact add, recovery-resume | ledger |
| Delivery stages: `migration/target_framework.py`, `implementation.py`, `artifact_preparation.py`, `public_qemu.py`, `final_evidence_review.py`, `repair_execution.py` | worktrees, snapshots, the `REPAIR_PREPARED` event | the five stages of the delivery phase, composite repairs | controller, ledger |
| Repository acquisition: `acquisition/repository.py`, `baseline.py`, `repository_storage.py`, `target_worktree.py`, `git_execution.py`, `repository_validation.py` | bare repositories with their receipts, frozen checkouts, the writable tree, identity locks, the manifest | select, fetch, seed, import, check out, lock, validate, accept | controller, worker, Git |
| Evidence closure: `acquisition/proposal.py`, `document_binding.py`, `closure.py`, `evidence_collection.py`, `http_content.py`, `retrieval.py`, `evidence_validation.py` | HTTP contents with pointers to reuse them, the proposal, the bundle | bind documents, import the proposal, retrieve, account for gaps, validate, accept | controller, worker, the web |
| Intake: `intake/` | questions and answers | ask, freeze the envelope | user |
| Environment: `environment/inventory.py`, `execution.py`, `planning.py` | inventories, lists of artifact modes, runs of the smoke script, the mode record | inspect, run the script, plan and run a route by hand | controller, worker, operator |
| Knowledge base: `knowledge/` | the index and the query skill of one evidence closure | build, query | controller, workers |
| Target study: `target_study/` | the report, receipts of accepted studies | accept, remember, restore | controller, worker |
| Handoff, contracts and analysis review: `migration/handoff.py`, `analysis_review.py` | the handoff bundle, contracts, the review | create, accept, review | controller, worker, reviewer |
| Sealing: `sealing/`, `evaluation/`, `orchestration/blind.py` | sealed candidate, timestamp, transfer | seal, stamp, transfer, audit | controller, evaluator |
| Content store, validators, reports, prompts: `core/artifacts.py`, `*/validation.py`, `control/statistics.py`, `codex/prompts.py` | files named by digest | pure checks and rendering | all |

### What is hard about it

* **Repairs.** A repair resets one stage and all that was derived from it, while starting and
  committing a stage never look at the dependencies again. Whether results rest on results depends
  on `refresh_ready`, on `descendants` and on the phase boundary together.
* **Attempts.** Rows are never deleted. The current attempt is what lies beyond the ordinals the last
  reset recorded; a wrong boundary mixes two attempts.
* **Restarts.** `port run` may be killed anywhere and begins again at the top. What was paid for must
  not be paid for twice, and the counts that stop a hopeless repair must survive.
* **Stale captures.** Outputs are captured before a worker is asked and may be accepted after it.
* **Work that moves.** The delivery stages share one work tree. Workers edit it in their turns, scripts of
  the worker may change it while the controller runs them, and every stage looks again at another part
  of what earlier ones froze.
* **Several writers.** The lock excludes a second controller. It excludes neither the worker's own
  `codex submit` nor `stage start`, `stage complete` and `artifact add`. sqlite3 begins a transaction
  at the first write, so a guard is read before it.
* **Rest.** Nested loops pay for turns; only counts of equal fingerprints end them.
* **What a conversation knows.** Prompts omit what the thread has been given before. Whether it has is
  known from a pointer file that is written before, during and after a turn that may die at any point.
* **Git that dies half way.** Downloads, imports and checkouts are resumed by looking at what is there:
  a `FETCH_HEAD`, a receipt, a directory. A killed Git command leaves some of them without the others.
* **A web that changes.** The same URL is retrieved once to bind a choice and again to collect it, and
  hosts are compared once as asked for and once as reached.
* **Results that come back.** A repair of the evidence throws the target study away, and the study may
  return from a receipt without a turn; it must not when it was the study that was found wanting.

### What makes each part correct

* Ledger: a stage is past PENDING only over satisfied dependencies; no stage is forgotten; attempts do
  not mix; the tables are what the ledger replays to; the chain verifies; repairs of one kind differ in
  substance.
* Decisions and controller: no answer is paid for twice; a failure is put to a worker a bounded number
  of times; only current outputs are published; blockers are heeded; the run comes to rest.
* Delivery: accepted results speak of one another and of the very tree they were accepted on; every
  accepted driver has passed a smoke; a receipt carries no stage past its own fault.
* Sessions: a prompt leaves out only what the thread was given in a turn that completed; a conversation
  is never lost, only handed over; no usage is charged twice; execution stays in its thread.
* Repositories: what is locked and accepted is whole and of the revision the origin has; the worker is
  paid for errors of its selection only; a download is kept.
* Evidence: a content is downloaded once in an attempt; copies claimed to be independent are.
* Analysis: every accepted result was made from the accepted results; a rejected study stays out; the
  environment is inspected once in an attempt.
* Intake: see the plan.

`PROJECT.json` lists the hazards at their lines, with the properties that cover each.

## 2. Modules

| Module | Models | State → code |
|---|---|---|
| `StageLedger` | one transaction of the store per step | `status` is the table stages, `artifacts` the table stage_artifacts, `ledger` the committed transactions, each a set of events |
| `PhasedResults` | what the ledger promises: valid results and the phase reached | abstract |
| `MigrationWorkflow` | the graph and phases of a real configuration | `Rows` is the list `_migration_rows` builds |
| `RecoveryController` | `port run` on one stage, with its worker, its crashes and the operator | durable: row, jobs, records, pointer, requests, events; memory: `at`, `held`, `receipt`, `payload`, `notes` |
| `LedgerConcurrency` | several processes on one database | the tables, `lock` for controller.lock, `pc` and `read` per process |
| `AtomicLedger` | what the store promises to a caller: each operation is one step on the tables and the ledger | abstract |
| `DeliveryPipeline` | the five delivery stages over one work tree, with composite repairs | `tree` is the work tree; `frame`, `bundle`, `identity`, `attempt`, `report`, `review` what the stages froze; `job` the latest submission; `prepared` the work named by the latest `REPAIR_PREPARED`; `repairing` the retry origins; `at` the place in `port run` |
| `CodexSessions` | the conversations with the models over the turns of a project | `session` the pointer files, `resets` their events, `jobs` the metrics files, `policy` context-policy.json; `turn` what the controller and its worker have of the turn; `threads` what the CLI keeps; `writers` live processes |
| `RepositoryAcquisition` | the stage repository_acquisition down to single Git commands | `bares`, `checkouts`, `trees`, `locks` what is on disk; `selection`, `failure`, `accepted` the ledger; `local` the user's own repositories; `downloads` remembers the latest one for the properties |
| `EvidenceClosure` | the stage evidence_closure | `occurrences` and `pointers` the HTTP contents; `answer`, `accepted` the ledger; `bound`, `plan`, `attempts`, `got`, `fresh` the controller's memory; `web` and `touched` the world |
| `AnalysisPipeline` | the seven stages from the evidence to the analysis review | `status`, `product`, `job`, `findings` the rows with what was accepted, submitted or found; `inventory`, `candidates` the inputs of the current attempt at the environment, `hand` the place of an inspection by the operator; `root` the open repair of a stage; `receipts`, `repairs` the ledger; `studies`, `rejected`, `accidents` remember for the properties |
| `StageLedgerProofs` | theorems on `StageLedger` | |
| `LedgerConcurrencyProofs` | theorems on `LedgerConcurrency` | |
| `CodexSessionsProofs` | theorems on `CodexSessions` | |
| `RepositoryAcquisitionProofs` | theorems on `RepositoryAcquisition` | |
| `DeliveryPipelineProofs` | theorems on `DeliveryPipeline` | |
| `EvidenceClosureProofs` | theorems on `EvidenceClosure` | |
| `AnalysisPipelineProofs` | theorems on `AnalysisPipeline` | |
| `RecoveryControllerProofs` | theorems on `RecoveryController` | |
| `MCStageLedger`, `MCMigrationLedger`, `MCRecoveryController`, `MCLedgerConcurrency`, `MCDeliveryPipeline`, `MCCodexSessions`, `MCRepositoryAcquisition`, `MCEvidenceClosure`, `MCAnalysisPipeline` | instances for TLC | |

Composition: `MCMigrationLedger` runs `StageLedger` on the graph of `MigrationWorkflow`;
`StageLedger` instantiates `PhasedResults` and `LedgerConcurrency` instantiates `AtomicLedger`; `RecoveryController` takes the row of its stage through
the transitions `StageLedger` allows and abstracts all other stages to "this stage was reset, released
again, with these inputs". `DeliveryPipeline` is the complement: the five stages in their order with the
data they exchange, over a recovery protocol reduced to "an error asks the worker again, findings are
put to the worker". `AnalysisPipeline` does the same for the phase before, whose graph it takes from
`MigrationWorkflow`, and `RepositoryAcquisition` and `EvidenceClosure` each look into one stage of it.

### StageLedger
Each action is one method of `_RunPersistence` or `Project` with everything it calls: `Commit` stores
the bundle, sets PASS, releases dependents and appends every event; `Retry` resets the target and its
descendants, records the boundaries of each and the fingerprint. `RetryExhausted` and
`RetryAcrossPhases` are the two ways `Project.retry_from` ends without a reset. `Start` checks the
phase and the row only: the dependencies are not read again, exactly as in the code. The event order
within a transaction, times, messages and roles are left out. `AcceptFailed` stages and repeatable
kinds are supported by the code and the model although the migration workflow uses neither.

### MigrationWorkflow
The three evaluation modes and the two review switches. `port run` itself only makes developer-evidence
projects; the prospective-blind workflow is defined in `orchestration/` and what is shown of it is shown of
that definition. The sealing stages belong to no phase, so no
phase guard protects what the candidate was built from.

### RecoveryController
A step is one durable write with the reads that led to it, so that `Crash` may fall between any two. The
work of a stage is its files, or the latest submitted proposal (`Proposal`), or the product of the
controller itself (`Static`); which of the three is the variable `kind`, chosen at the start. The stage's own checks are `Verdicts`: for each state
of the work, whether a finding was noted in memory and how the check ended (done, findings, an error,
a smoke observation). The worker is nondeterministic: it changes the work, submits nothing, accepts,
reports a blocker, asks for an operation or a repair. The behaviour is that of the developer-evidence
mode; in the other modes errors are re-raised and the run stops. The operator edits, answers,
reopens and resumes while the controller is stopped: reopening and recovery-resume take
controller.lock, and the edit of a work tree under a running worker is a worker's edit to this model. The kind `asking` is
a stage like those of kind `files` whose worker asks for things to be done: it only serves to give the
two different workers in one run. `Serve` records the request and runs the script, which may raise. An
adapter that finds the implementation changed sends the work back without being asked; that way is
DeliveryPipeline's.

### LedgerConcurrency
An operation is `Check` (reads in autocommit mode: status, next ordinal, and for a bare `record_event`
the hash of the last event) and `Write` (one transaction; the UPDATE has no condition) or `Rollback`
(UNIQUE ordinal). An event names its predecessor by position instead of by hash. `Open` refuses a broken
chain. A worker lives only while its controller waits in a turn; `Exit` is a normal end or a kill, and
with `Orphans` a killed controller leaves its worker running, as `start_new_session` allows. The
workflow is a chain. SQLite's busy timeout is not modelled: a writer that waits takes its step later.

`AtomicLedger` has one action per method of the store: the row, the count of outputs and the told history
move together. The mapping forgets who writes, what was read, the lock and the hashes: `told` is
`History`, what the events tell of which stage, and `count` is `OutputCounts`. Only `Write` is an operation;
every other step stutters. A release is always that of the next stage, which the detailed model computes from
the table. `StageLedger` takes a transaction with the reads before it as one step; this
refinement is why it may, wherever the lock is held.

### DeliveryPipeline
`Begin` is the head of the loop: findings that await the worker, then a prepared repair, then a turn. A
turn edits the tree within `Works` and submits a pass, a blocker, an execution request or a repair.
`PassFramework` … `PassReview` are the acceptances. `Smoke`, `Seal`, `Rebinding`, `Package`, `Execute` and
`Recheck` are the controller's scripted steps, each with the reason it runs: after a turn, for the
worker's own repair, on a prepared repair, as the composite of a packaging change, or as a requested
operation. `SendBack` is `retry_prerequisite` with the reset and what the reset means for receipts.

What is compared decides what can go wrong, so every check looks at just what the code looks at:
`Holds` at the named files, `DriverUnchanged` at all changed files outside the framework's,
`IsPrepared` at the whole work, the QEMU checks at the driver's files but not at the framework's.

Data left out:
* File contents are numbers. Scripts, their helpers, variants and the smoke script are one, the
  *harness*; the runtime artifact and its presence checker are one.
* Of the preflight only "the artifact is mere text" remains, a property of its content (`Markers`).
* The review policy digest and the reuse of an earlier review are left out: in developer mode
  the reuse cannot be reached. The text checks of the self-review are left out as well.
* The operation guard and the counts of continuations are RecoveryController's. A fault that only
  unreadable files can cause (symbolic links, broken variants) is none of the model's.
* A crash inside a script is a script that changed the tree, then a crash.
* The framework's worker is told not to touch the driver and the reviewer to edit nothing
  (`orchestration/protocol.py:124`); the model believes both, and nobody else.

### CodexSessions
`Open` is the start of `port run`; `Prepare` decides by the policy whether the conversation is rotated
first. A rotation is `Reset` (the event) and `SwitchPointer` (the file). `Launch` writes the metrics
with the usage baseline, `ThreadStarted`, `Checkpoint` and `PersistThread` are the first event of the CLI
and what is written because of it, `Complete`, `Finish` and `Save` the end of a turn that succeeded,
`Stop` of one that did not. `Kill` is SIGKILL: the worker has a session of its own, goes on as an orphan
and may consume once more (`OrphanEnds`). `Judge` stands for everything else the controller does: the
stage passes, is asked again, or sends an earlier one back.

Prompts are the revision of the material they are made from. What the thread was given is compared with
what the pointer says it was given; the wording of a handoff, recorded prompts and logs are left out, and
so are the locks of conversations between parallel runs, as one workspace has one controller.

### RepositoryAcquisition
One action per Git command or durable write: `git init` and the remote, a seed from a supplied baseline,
a probe, a fetch, its receipt, the import of the user's repository, `git worktree add`, the identity
lock, the writable tree, the manifest. A bare repository is the pair of what `FETCH_HEAD` and the receipt
say; a checkout is absent, partial, whole, dirty or broken. `Crash` leaves the command under way undone,
done or done in part, and a process left behind may still finish. `Fail` sorts errors the way
`RepositoryFetchError` and its handlers do: a failed transfer stops the run for the operator, an error of
the selection goes to the worker.

### EvidenceClosure
The worker's choices are bound (each document is retrieved and its copies are compared), imported (the
controller's own facet is put in, the directory of the driver becomes its files, the proposal is checked),
verified, collected facet by facet and accepted. `Reuse` and `Download` are the two ends of a retrieval,
`KeepPointer` the write that makes a response reusable; pointers outlive an attempt, contents do not, and
`Current` is what keeps the one from naming the other. `Attempted` accounts for a facet and for gaps. A
response from a host other than the one asked for is a page of `Pages`.

### AnalysisPipeline
A stage of the phase reads the stages in `Ancestors`; every product carries a `view` of them, which no
code has: it is what `RestsOnCurrent` compares. `Turn` draws an answer, and the answers end in `Accept`,
`AcceptStudy`, `RunHarness`, `GiveUp`, `SendBack`, `Exhaust` or, when the controller cannot use them, in
`Unusable`. The environment is inspected in steps: the row is read (`Inspect`), read again and the stage
started (`BeginInspection`), and the two inputs are recorded (`RecordInventory`, `RecordCandidates`). A
crash may fall between any two, and whatever raises after the start leaves the stage running
(`InspectionFails`). `dpf environment inspect` takes the same steps beside the controller (`InspectByHand`,
`HandRecordsInventory`, `HandRecordsCandidates`) and may break off at each (`HandEnds`); a record of either
is refused once the stage has stopped running. The mark `"inspected"` among the `accidents` is of the
current attempt only: `Afresh` takes it away with a reset, or puts it there for an inspection by hand that
outlives its attempt. A failed smoke is a finding, put first to the environment's
worker (`JudgeEnvironment`) and then, if that worker passes it, to the handoff's (`JudgeHandoff`). `Remember`
is the write after the acceptance of a study, `Restore` the way back without a turn.

The stages before the phase are left out: once one of them is repaired the phase begins anew. The
reuse of an analysis review (`AnalysisReview.reusable`) cannot be reached in developer mode.

## 3. Runs

Passing runs:

| Run | Instance | Shows |
|---|---|---|
| `attempts` | a chain of 3 stages, one that accepts failed dependencies; 2 retries, 1 pause, 1 registered artifact | `LedgerReplays`, `AttemptsSeparated`, `RepairsProgress`, `NoStageForgotten`, and the refinement `ImplementsPhasedResults` |
| `workflow` | the prospective-blind workflow as built, every execution passes, 1 retry | `PhasesInOrder`, `DependenciesHold` |
| `decisions` | a stage of each of the three kinds; checks that find faults or raise; unsubmitted turns; one edit, one crash, one operator act, two upstream inputs | `TypeOK`, `AnswersBounded`, `OutdatedOnlyByJoining` |
| `smoke` | a worker that edits, over two smoke failures, one of them after a noted finding, and good work (2 edits); a worker that asks for operations, repairs of earlier stages, or reports a blocker; 1 crash, 1 act | `ThreeObservations`, `NoAnswerPaidTwice`, `BlockersHeeded`, `Rests` |
| `under_lock` | 2 controllers and a worker that ends with its turn, a chain of 3, 12 events | `ChainVerifies`, `DependenciesHold`, and the refinement `ImplementsAtomicLedger` |
| `races` | controller, orphaned worker and operator in any order, 6 events | `TablesReplay` |
| `sessions` | each of the three policies, 3 turns, 1 killed controller, 1 act of the operator, 2 revisions of the material | `TypeOK`, `KnownWasSupplied`, `ContinuityKept`, `NeverChargedTwice`, `ExecutionKept` |
| `repositories` | a public source and a target of the user's own; an origin, a baseline that disagrees with it, a floating ref; 3 turns, 1 fault, 1 crash, 1 act | `TypeOK`, `LockedIsWhole`, `PublicRevision`, `PaidForCause`, `DownloadKept` |
| `evidence` | a manual with a mirror, an alias and a lost page; 6 answers of the worker; 2 turns, 1 fault, 1 crash, 2 changes of the world | `TypeOK`, `DownloadedOnce`, `IndependentCopies` |
| `analysis` | the developer workflow; 3 closures, 2 environments, 2 reports; 2 repairs; 4 crashes, errors of an inspection, inspections by hand or reopened stages until a study is accepted, 1 afterwards | `TypeOK`, `RestsOnCurrent`, `RejectedStaysOut`, `InspectedOnce` |
| `delivery` | one framework file, one driver file, four trees that a worker may leave; 3 edits, 1 script that changes the tree, 2 repairs, crashes anywhere | `TypeOK`, `EvidenceChain`, `SmokeCoversSource`, `AcceptedOnFrozenSource`, `FaultsAreWorkedOn` |

One run must be found violated: `ledger_forks`, where a bare `record_event` chains to a hash it read
before its transaction (`PROJECT.json` quotes the lines).

More disagreements between the code and what the repository says of it were met while modelling. They
have no run of their own; the models contain the behaviour, and where a property would fail because of it
the property says so.

Ledger and controller:

* An error that joins a pending record renews its fingerprint but keeps its capture
  (`core/checker_decision.py:106`), so that outputs of work that has changed since can be accepted, where
  line 187 says that only unchanged captures are published. `OutdatedOnlyByJoining` shows that this is
  the only way.
* A framework repair asked for before the first driver snapshot freezes the driver's files into the
  framework bundle (`migration/target_framework.py:87-97`), which `orchestration/protocol.py:74-75` keeps apart.
* A crash while a decision record is written leaves a record that every later `_request` raises on; each
  restart pays for an answer to the old failure. `AnswersBounded` excepts these behaviours in its first
  disjunct; without the exception TLC shows the worker paid at every restart.
* `stage complete` is checked before its transaction. If the controller commits PASS in between, the
  operator's outcome replaces it (`core/store.py:422` updates unconditionally), although
  `docs/ARCHITECTURE.md:45` speaks of atomic transitions. `LedgerConcurrency` has the behaviour when
  `Operators` is not empty.
* When the composite smoke of a packaging repair fails, the failure is put to the gate of
  artifact_preparation, whose row the repair has left PENDING; `run_codex_stage` refuses a turn there
  (`codex/cli.py:105`), which leaves a decision record of a stage that is not current. The loop then gives
  the implementation a turn, where `port.py:1090` says "without another implementation AI turn".
* `migration/repair_routing.py:16` promises to count unchanged premises and not new reports; the
  premises of a framework repair contain the worker's report (lines 22-26), so a new wording is progress.
  `SendBack` lets framework repairs repeat.
* A framework repair cannot be accepted while a file of the last driver snapshot differs from that snapshot,
  and the framework's worker is told to leave the driver alone. The stage then asks
  the same worker again.
* A finding noted in memory before an adapter raises (`migration/implementation.py:97`, then the smoke run
  of line 117) stays noted, and `finalize_stage` holds it against the next submission (`notes` in the model).
* A stage of `PROPOSAL_STAGES` is fingerprinted by its latest job result, so a report that accepts captured
  outputs makes its own capture stale; the report is then imported as a proposal and fails.
* `docs/REAL_RUNTIME_PREREQUISITE_AUDIT.md:32` says two identical observations stop a repair; `port.py:515` and
  `README.md:143` say three, and three is what the model does.
* In a controller-owned stage a blocker counts only in the call that freezes the report
  (`port.py:655`); a crash after the freeze loses it, and `BlockersHeeded` holds for the other stages only.

Sessions:

* After SIGKILL the process of a turn goes on while the next controller resumes the same thread
  (`codex/gateway.py:57`): two writers, and what the first consumes is in no metrics. The cumulative counter keeps
  it from being charged to the wrong job.
* A handoff is given to a conversation without a thread. If its first turn fails after the thread began, the
  next turn resumes that thread and the handoff is not given again.
* The metrics of a job are written before its process is started; a launch that fails on the way still counts as
  begun execution and blocks the rotation at the policy's boundary.
* A repair resets the later stages too, started or not, and a stage that a repair has reset counts as going on
  with its work (`codex/cli.py:114`, `core/store.py:166-186`). Once the contracts have been repaired the first turn
  of the boundary stage is therefore no boundary, and the handoff of `README.md:286` is not made.
* A worker is told to submit its file again after a refused receipt, but a job takes one receipt only.

Repositories:

* A crash between a seed or a fetch and its receipt parts `FETCH_HEAD` from the receipt; selecting an earlier
  ref again then takes the wrong commit for downloaded. `PublicRevision` excepts crashes for this.
* A writable tree that a crash left in part is resumed and accepted as dirty; a frozen checkout left in
  part is never repaired, and fails every attempt of its commit.
* When a bare repository is quarantined, the checkouts that belong to it stay and are broken for ever.
* The validators look at the repositories before the commit, and nothing looks again.
* A failed download of a full commit is put to the paid worker if the origin answers the probe
  (`PaidForCause` allows it).
* Findings of an acquisition bundle cannot be waived by a report of the worker, as those of other stages
  can: the report is taken for a new proposal, and fails.

Evidence:

* `docs/ACQUISITION.md` says a proposed gap that resolves to content is rejected. Neither
  `acquisition/evidence_collection.py:132-155` nor `evidence_accounting_validation.py:84-98` does so.
* A controlled facet with one retrieved locator drops its failed ones silently, while a transient failure of
  all of them costs a turn, and a connection that breaks off ends the whole import or collection.
* The verifier compares the hosts of the copies as asked for, the binder as reached: a proposal in the
  controller's own form passes with two names that lead to one host (`IndependentCopies` speaks of the
  worker's choices). It may also narrow the driver's directory to one of its files.
* An endorsement of the URL a locator leads to satisfies the collection but not the bundle
  (`repository_endorsement_validation.py:36`).
* A locator listed twice in a facet makes two materials of one identity, and the bundle fails.
* A URL that two documents of different contents share is downloaded again and again.

Analysis:

* A study that the review sent back can return without a turn in two ways, which `RejectedStaysOut` names. Its own
  worker, asked to do better, hands the repair on, to the evidence or to the environment, which makes that
  stage the root of the repair; or a crash falls between the acceptance of its successor and the receipt
  (`target_study/reuse.py:38`). The review's second rejection then equals the first and blocks the review.
  A repair handed on to the environment brings the study back only once the evidence and the environment
  have both returned to the premises it was made from, which takes five repairs, more than the run has:
  this came to light in the proof.
* `environment inspect` takes no lock and is allowed while the stage runs: it records a second inventory, or
  records one in the attempt after the one it began in. A crash or an error during an inspection leaves none
  or one of two inputs, with neither an operator nor a kill: probe output that is no UTF-8 raises through
  `environment/inventory.py:105`, the run loop files the error (`port.py:172-183`), and the stage, which runs by
  then, is not inspected again (`port.py:786`). In all these cases `project.artifact` raises for every answer
  of the worker until the stage is reset, and turns are paid for that cannot help. `InspectedOnce` names
  them, and says that a reset does put it right.
* By hand, a plan registered twice makes its routes unrunnable (`_load_plan` asks for exactly one), and a crash
  after the attempt file of `environment run` leaves a route that "already ran" without a result. These
  commands are not modelled.

### Bounds, and why they are enough
* `MaxRetries` counts retries and reopenings. One suffices for what a reset does to every shape of the
  graph; `attempts` uses two, so that a second repair meets the fingerprint of the first and a third
  attempt could mix with two earlier ones. `MaxPauses`, `MaxRegistered` and `MaxBundle` bound actions
  that do not interact with more of their own kind than the run allows.
* `attempts` is a chain; `workflow` has the branches and joins of a real graph, and the proofs cover all others.
* `MaxAnswers` bounds the answers a worker gives. In `smoke` it is larger than any
  behaviour reaches, so that `Rests` is not an artefact of the bound. In `decisions` it cuts behaviours
  short: after seven answers, so that a fourth failure of one kind may alternate with another kind, and
  for proposals after five, one more than `AnswersBounded` allows with a crash.
* `smoke` leaves out the repair request the ledger refuses as invalid: it is one more decision record,
  as in `decisions`, where a controller-owned stage is misrouted that way. The work of the asking worker
  does not change: edits are the other worker's part.
* `MaxEvents` of `under_lock` lets every stage of the chain run, one be repaired, a worker record and the
  lock change hands; six events in `races` hold a start, an output, a completion and a fork.
* `delivery`: three edits are the framework, the driver and one repair of it; with two repairs the receipt
  of the first meets a second fault; one script that strays is enough, as each stage
  looks at the tree again. The four trees are the framework alone, a complete driver, the driver changed
  with the framework undone, and the package replaced by mere text with other scripts: each check of a
  later stage has one that violates it and one that does not.
* `sessions`: three turns are the one that begins a thread, one that dies, and one that resumes or replaces
  what is left; a second kill would meet the same files. The review of the analysis is switched off there:
  the reviewer's conversation has its turns at the end of the execution.
* `repositories`: three turns are a selection, another one and the first again, which is what it takes to meet
  an outdated receipt. The two roles are the two kinds: a public one and one of the user's own.
* `evidence`: two turns let an answer be bound in one attempt and collected in the next. Of the facets an
  answer must have, only those it is about vary.
* `analysis`: with two repairs a restored study meets the second one, and `AnalysisPipelineProofs` covers any
  number; the three closures differ in what is
  about the source driver and in what is not; the two environments have one script and two reports, so that
  they differ for the study but not for the count of repairs. Reports are only told apart and are
  permuted (symmetry). A crash, an inspection that raises and a command of the operator share one bound.
  Four of them let an inspection by hand outlive one attempt and another meet a crash or an error of the
  controller's in the next. The constraint `Bounded` allows that many until a study is accepted, while the
  environment can already be blocked, opened again and sent back; later one is followed, and no inspection by
  hand. One inspection by hand is under way at a time.
* Deadlock is checked where the controller always may move on, and not in the ledger models: a finished
  run may rightly do nothing, and the bounds stop the others. The same holds of the modules for single stages
  and phases: the phase ends, and a bound stops a stage that would ask for another turn or repair.

### Fairness
Only `RecoveryController` assumes any: `WF(Controller)`, because `port run` is one sequential program
that waits for nothing but turns, and `WF(TurnEnds)`, because `codex/transport.py` ends a turn at its
idle and total deadlines. Crashes, the operator and other stages are under no fairness. Continuation
counts depend on identical observations in a row: a worker that alternates between two failing states
of its work is never stopped by them (`MaxEdits` bounds this alternation in the runs).

## 4. Proofs

`StageLedgerProofs`, for every finite workflow graph whose dependencies point backwards
(`GraphAssumption`), every contract (`ContractAssumption`) and all bounds:

* `TypeCorrect`: `Spec => []TypeOK`. It includes that boundaries read from the ledger are positions
  of the artifact sequence's type and that fingerprints are counts. No run checks it:
  the proof covers every workflow.
* `DependenciesAlwaysHold`: `Spec => []DependenciesHold`.
* `NoStageIsForgotten`: `Spec => []NoStageForgotten`.

Argument: each of the two is inductive together with `TypeOK`. `StatusSteps` reduces the ten actions to
four effects on the rows: none, one row moved along, one row ended and the table refreshed, a passed
row pulled back with its descendants. The last needs three facts about `Descendants`
(`DescendantsProperties`): it is closed under dependents, every member but the root has a dependency
in it, and nothing in it lies before the root. `Upstream` is a recursive function, so its equation is
proved first (`UpstreamEquation`), from the least set closed under dependents.

* `LedgerAlwaysReplays`: `Spec => []LedgerReplays`.
* `AttemptsAlwaysSeparated`: `Spec => []AttemptsSeparated`.
* `RepairsAlwaysProgress`: `Spec => []RepairsProgress`.

None of the three is inductive: a reset decides what a later registration counts as, and a fingerprint is
judged by events long past. `LedgerInv` adds what they need: the boundaries never lie beyond the occurrences
and are at their end while a stage has yet to start (`Bounded`); the registrations since the last reset are the
current attempt, with their positions (`AttemptsReplay`); a repair's fingerprint is what its caller said or the
count of the outputs its own transaction found (`Reasoned`); and no fingerprint of a stage is used twice
(`Distinct`). The ten actions are looked at once, in `Transactions`: each appends one set of events, and
`Transacts` says how those events go with what the action does to rows, occurrences and boundaries. Every part
of `LedgerInv` is then shown for any such transaction. `LatestAppended` and `ItemsAppended` say how what is read
from a ledger changes when one transaction is appended.

* `LedgerImplementsPhasedResults`: `Spec => ImplementsPhasedResults`, the refinement of the abstract
  specification, with the satisfied stages as its results and the greatest rank of a stage ever started as
  its phase. `ResultsNext` maps every action to a step of `PhasedResults` or a stutter: a start over the phase
  reached enters the next one, a satisfying outcome is accepted over its dependencies (`DependenciesHold`), a
  repair withdraws a stage with its descendants, and the rest changes neither.
* `PhasesAlwaysInOrder`: `Spec => []PhasesInOrder`, for every graph that is `PhasesRestOnEarlier`: nobody
  accepts a failed dependency, and a stage rests on every stage of the phases before its own.
  `MCMigrationLedger` assumes this of the workflow it builds and TLC evaluates it there
  (`WorkflowAssumption`); it holds of each configuration `ConfigAssumption` admits.

The phase guard of `start_stage` never looks at earlier phases, so the order rests on the rest. While a stage
is not complete, all that rests on it is pending (`WithheldBelow`, from `DependenciesHold`), so nothing of a
later phase can be started over it. What is complete stays so but for a repair, and a repair reaches only
stages of its own or later phases (`DescendantsNotEarlier`) and is refused once a later one was entered.

`LedgerConcurrencyProofs`, for any number of stages, controllers, operators, workers and events. Under the
assumption that there is no operator and that a controller never leaves its worker behind:

* `ChainAlwaysVerifies`: `Spec => []ChainVerifies`.
* `DependenciesHoldUnderLock`: `Spec => []DependenciesHold`, for the stage table that several
  controllers and the workers share.
* `AtomicUnderLock`: `Spec => ImplementsAtomicLedger`, an operation that reads first and writes later is seen
  as one step.

All three are stated under `UnderLock` (no operators, no orphans), and the first two follow from one inductive
invariant `IInv`, because each protects the other's assumption. Its parts: `Typed`; `Locked`, a
controller inside an operation owns the lock; `Attended`, a worker lives only while the owner of the
lock waits in its turn; `Standing`, what an actor inside an operation has read (the hash of the last
event, the row it is about to move) is still so; and the two properties. The lemma `Alone` draws from
`Locked` and `Attended` that at most one actor is inside an operation, which is why what was read still
stands. Without `Attended` the run `ledger_forks` is the counterexample.

The refinement adds `NoneWithheld` to `IInv`: no stage waits over a prerequisite that has passed. Together with
`DependenciesHold` it makes the release of a commit the next stage and no other (`NextReleased`).
`HistoryGrows` carries the entries of a transaction over to what they tell, `CommitPairs` and `RetryPairs` say what
those of a commit and of a repair tell and in which order, and `WriteIsAtomic` goes through the seven operations:
the guard still holds (`Standing`), so the step of `AtomicLedger` may be taken, and it leads where `Write` leads. Every other
step leaves the tables alone (`TablesUnseen`). No step needs the state after it. With an operator the
refinement fails as `DependenciesHold` does: two starts of one stage, or a completion over a PASS, are no steps of `AtomicLedger`.

* `TablesAlwaysReplay`: `Spec => []TablesReplay`, with any operators and orphaned workers and without
  `UnderLock`.

What an operation read may be stale when it commits, so its guard may be wrong; the entries it appends
still say what it does to the rows, because both are made in its transaction. `Tells` states this of a list of
entries, and `OneEntryTells`, `OutcomeTells` and `RetryTells` show it of the three kinds of transaction,
releases and resets of many stages included. Ordinals of outputs are the one thing taken from an earlier read.
`ReadBefore` says that such an ordinal is at most the number of outputs now: a stale one is taken already, the
UNIQUE constraint refuses it and the transaction leaves nothing behind. `TablesInv` is inductive: the types,
`ReadBefore`, and the two halves of the property (`StatusesReplay`, `OutputsReplay`).

`CodexSessionsProofs`, for any number of turns, kills and resets, any revisions of the inputs and any
submissions, with and without the review of the analysis (`SessionAssumption` says only that
revisions are positive numbers, 1 among them, that `None` is no value, and that the bounds are numbers):

* `TypeCorrect`: `Spec => []TypeOK`.
* `KnownAlwaysSupplied`: `Spec => []KnownWasSupplied`.
* `ContinuityAlwaysKept`: `Spec => []ContinuityKept`.
* `ExecutionAlwaysKept`: `Spec => ExecutionKept`.
* `UsageNeverChargedTwice`: `Spec => []NeverChargedTwice`.

Three records learn of the thread of a turn, each at another step: the CLI when it begins, the pointer
at the checkpoint, the metrics when they are persisted. A kill may fall between any two, so none of the
properties is inductive. `Inv` adds what the three agree on at each place of the turn (`InTurn`), that a
thread belongs to the conversation of the job that began it (`Owned`), that every reference names
something that exists (`References`), where there is something to work on (`Steps`), and that a
rotation about to be carried out concerns a conversation it may concern (`Rotating`). Jobs and threads
are only ever appended or have one field written, which `Growth`, `JobsAlike` and `ThreadsAlike` state once.

`NeverChargedTwice` compares a sum over all jobs with a counter, and is not inductive either: a job is charged
the difference between the counter it reports and a baseline taken when it was launched. `Charging` adds two things.
`Covered`: up to a job that reported a counter, the jobs of its thread were charged no more than that
counter, and up to the job under way no more than its baseline; where the baseline comes from an earlier job of the
thread, `UsageCovers` finds that job among those that reported. `Counted`: a job begins at most one thread, and there
is room for the jobs to come, so that the sums are defined for every thread there is. The sums are a recursive
function, of which the provers know nothing but the text: that its equations have a solution is proved first
(`SumsExist`, from the sums up to each length), and what two sums have in common by looking for the least length at
which they part (`Induction`, from the well-foundedness of the naturals).

`RepositoryAcquisitionProofs`, for any roles, URLs, refs and commits, whatever the origins, the user's own
repositories and the supplied baselines have, and for any number of turns, faults, crashes and acts.
`AcquisitionAssumption` says that no role is acquired twice, that a source and a target are among
them, and that `None` is no value; `DamagedAssumption` that a spoiled repository is told from a usable one:

* `TypeCorrect`: `Spec => []TypeOK`.
* `LockedAlwaysWhole`: `Spec => []LockedIsWhole`.
* `RevisionAlwaysPublic`: `Spec => []PublicRevision`.
* `AlwaysPaidForCause`: `Spec => PaidForCause`.
* `DownloadAlwaysKept`: `Spec => DownloadKept`.

`Pinned` is the heart of it: except between a download and its receipt, `FETCH_HEAD` is what the origin has for
the ref of the receipt. A seed breaks this, but only between a fetch that has begun and the download that
ends it, a failed download mends it by leaving no `FETCH_HEAD`, and a crash in between is
why the property excepts crashes. The other parts are `Progress` (what each step of the controller may
take for granted), `Acquired` (what this attempt acquired is locked and there, though perhaps dirty),
`TreesRest` (a writable tree does not outlive its baseline) and `Cause` (why the worker is to be asked,
until it is).

`DownloadKept` needs more, and only until somebody acts (`Calm`). A download kept could be lost in one way: for
another ref of the same repository the controller tries a supplied baseline first, whose failed import empties
`FETCH_HEAD` and leaves the receipt; were the worker then asked and did it come back to the first ref, that would be
downloaded again. `Interrupted` says that from there the controller always gets to the download of the other ref
(or stops on the way and goes on later with the same selection): nothing before it fails, since every role before it
is `Settled`, that is, has its receipt, its `FETCH_HEAD` and a whole checkout, whichever attempt made them. `Lasting`
says that a download kept has its receipt, and its `FETCH_HEAD` unless it is `Interrupted`.

`EvidenceClosureProofs`, for any web, repositories and answers, and any number of turns, faults, crashes and acts.
`ClosureAssumption` says what the constants consist of, that `None` is no value of any other kind, and that the
driver's entry has files, finitely many; `AnswerAssumption` that what is submitted has the form of a submission,
and that no choice names a content by its digest:

* `TypeCorrect`: `Spec => []TypeOK`.
* `ContentDownloadedOnce`: `Spec => []DownloadedOnce`.
* `CopiesStayIndependent`: `SeparateDocuments` implies `Spec => []IndependentCopies`.

The next document and the next locator are read off lists of positions that `FlattenSeq` computes, so the types
rest on what it does (`Flattened`, from its definition and the well-foundedness of the naturals) and on `Within`:
the positions reached are within the answer or the plan, with a URL left to retrieve where a response has no
pointer yet. `Kept` is why nothing is downloaded twice: without a crash the pointer of a URL names the last content
taken from it in the attempt, unless that is the response whose pointer is still to be written, which is of the URL under
retrieval (`Pending`).

`Copies` carries the independence from the binding to the acceptance. Whatever was bound or planned is held: the
pointers of all its URLs name contents with its digest, two of them from different hosts (`HeldIn`). So the
collection never downloads for it (`CollectHeld`), and it sees the responses the binding saw. A pointer is moved only
for a URL that had nothing to reuse (`Needed`), hence for none that something bound needs (`BindHeld`). That is
where `SeparateDocuments` comes in: a copy has to have the digest of its document, so a document whose copy is a URL of
another document with other contents has it downloaded again, and moves the pointer under that other document. No
code refuses such an answer; what is then accepted may have changed hosts in between.

Each of these invariants was first checked by TLC on the instances of the runs, as an invariant of `Spec`.

`DeliveryPipelineProofs`, for any files, contents, trees that workers and their scripts leave, and any number
of edits, strays, repairs and crashes. `TreeAssumption` says that the framework's and the driver's files are
different ones and that 0 is no content, `NoneAssumption` that `None` is no value of any other kind:

* `TypeCorrect`: `Spec => []TypeOK`.
* `EvidenceAlwaysChained`: `Spec => []EvidenceChain`.
* `SmokeAlwaysCovers`: `Spec => []SmokeCoversSource`.
* `AlwaysAcceptedOnFrozenSource`: `Spec => AcceptedOnFrozenSource`.
* `FaultsAlwaysWorkedOn`: `Spec => FaultsAreWorkedOn`.

A stage is pending until all before it have passed (`InOrder`), and the controller works on the one stage
that is neither (`AtWork`), first of all on findings that await its worker (`FindingsFirst`). So what a stage
is accepted with refers to results nobody changes any more, until a repair undoes both (`Results`, of
which `EvidenceChain` is the part a reader cares for). `SealedAfterSmoke` carries the smoke from the step
that ran it to the step that seals. `Owed` is why receipts do not help a stage at fault: it has no job, no
work is prepared, and nothing that would spare it a turn is under way.

`AnalysisPipelineProofs`, for any evidence, environments and reports, with and without a review of the analysis,
and any number of repairs, inspections, errors and crashes. `AnalysisAssumption` says that the project is a
developer-evidence one, as `port run` makes them, and what evidence and environments consist of:

* `Invariant`: `Spec => []IInv`, and from it `TypeCorrect`: `Spec => []TypeOK`,
* `RestsAlwaysOnCurrent`: `Spec => []RestsOnCurrent`,
* `RejectedAlwaysStaysOut`: `Spec => []RejectedStaysOut`,
* `InspectedAlwaysOnce`: `Spec => []InspectedOnce`.

What a stage of the phase reads is worked out of the rows of the workflow first (`Graph`, which also shows that
the reads are transitive). A stage is pending until all it reads has passed (`Grounded`), so a product changes
only while nothing rests on it, and answers and findings stay about what is accepted (`JobsCurrent`,
`FindingsCurrent`). Restored studies need `ReceiptsAgree`: what a receipt remembers of the premises is what
the study was made from. A rejected study stays out since a successor is the last one remembered for the same
premises, and since until there is one the study's own repair is open (`RejectedReplaced`). `Counted` and
`InspectedSoFar` follow the inventories of an attempt through the steps of its inspections: what is recorded,
with what each inspection under way still owes, is never more than the operator's inspections and one; and
as long as nothing has gone wrong one inspection at most is under way, and its place tells what is recorded.

`RecoveryControllerProofs`, for any states of the work, inputs, verdicts, workers and bounds. `WorkAssumption` and
`WorkerAssumption` say what verdicts and submissions are made of and that only stages with files of their own run
smokes, `TornAssumption` that a torn record is told from a whole one:

* `TypeCorrect`: `Spec => []TypeOK`.
* `AnswersNeverPaidTwice`: `Spec => NoAnswerPaidTwice`.
* `OnlyJoinedIsOutdated`: `Spec => OutdatedOnlyByJoining`.
* `AnswersAlwaysBounded`: `Spec => []AnswersBounded`.
* `ObservationsAlwaysCounted`: `Spec => []CountedExactly`: a continuation's number is that of the different jobs
  with its observation, in a row. It is stated in the proof module and is no run's property.
* `BlockersAlwaysHeeded`: `Spec => BlockersHeeded`, for stages with a worker of their own (`"static" \notin Kinds`).
  In the others it is false, as section 3 says.
* `AlwaysThreeObservations`: `Spec => []ThreeObservations`, if the adapter says the same of the same work
  (`Deterministic`, as in the run). A check that wavers may fail in another way when a crash has fallen between the
  third observation and the block, and the worker is asked a fourth time.

`Inv` says where the controller can be with what is pending and in its hands (`AtWork`), that no record is
ahead of the jobs (`Recorded`), and what records, continuations and requests on disk say of the latest answer:
it was judged (`JudgedBefore`), it is no blocker (`BlockersSeen`), what was captured is the work of the record's
fingerprint (`Captured`). The bound on answers counts records: every answer to a failure either has an unpaused
record of its own or follows a crash, and the fourth unpaused record of one fingerprint cannot be written,
since it is paused (`Budget`). A torn record breaks this, as no record can be counted any more. For
observations, jobs are continued in order (`Ordered`), and after the third equal one the stage is
blocked or about to be (`Stopped`), with nothing left to observe until somebody acts (`Settled`).

Each of these invariants was first checked by TLC on the instances of the runs, as an invariant of `Spec`.

Only model-checked: liveness (`Rests`), which is beyond the provers. For `IndependentCopies` no instance is checked without
`SeparateDocuments`, which `MCEvidenceClosure` assumes of its answers.

## 5. Not modelled, and why
* Validators of single artifacts, prompts, indexing and reports are pure functions of file contents;
  models see their verdict. The content-addressed store writes files by digest and is idempotent.
* Sealing and transfer: `port run` makes developer-evidence projects only, no command finalizes the
  sealing stages, and nothing produces the binding a seal needs. A model would be of functions without a caller.
* Intake (`intake/`), the commands that do a stage by hand (`environment plan` and `run`, `acquire`), and the
  workflows of the evaluator and the curator (`orchestration/blind.py`): see the plan.
* Licences, size limits, page maps and derived materials of the evidence; how programs are traced in the
  environment; the wording of handoffs, context logs and recorded prompts.

## 6. Plan
Done, in this order: `StageLedger` and `PhasedResults` with their proofs, `MigrationWorkflow`,
`RecoveryController`, `LedgerConcurrency` and `AtomicLedger` with their proofs, `DeliveryPipeline`, `CodexSessions` and
`RepositoryAcquisition` with their proofs, `EvidenceClosure`, `AnalysisPipeline`; then the proofs about
`DeliveryPipeline`, `AnalysisPipeline`, `RecoveryController` and `EvidenceClosure`, and about charges and downloads
that are kept. Next:

1. `Intake`: questions and answers, the frozen envelope. The commands `environment plan` and `run`.
2. The workflows of the evaluator and the curator as further instances of `StageLedger`; sealing and transfer
   when a command reaches them.
