------------------------ MODULE RecoveryController ------------------------
(***************************************************************************)
(* How "port run" drives one stage to an end through worker turns it pays  *)
(* for (port.py, codex/cli.py, core/checker_decision.py,                   *)
(* core/continuation.py, core/recovery_state.py).                          *)
(*                                                                         *)
(* What the controller must remember is durable: the stage row and its     *)
(* artifacts in the ledger, and under .dpf/checker-decisions a record per  *)
(* failed check with a pointer to the one that awaits an answer.  A step   *)
(* is one durable write with the reads that lead to it, a crash may fall   *)
(* between any two steps, and a restarted controller begins at the top of  *)
(* its loop.                                                               *)
(*                                                                         *)
(* The executable files, the upstream inputs and the text of findings are  *)
(* opaque; what the stage's own adapter says of the files is Verdicts.     *)
(***************************************************************************)
EXTENDS Integers, Sequences, FiniteSets

CONSTANTS
  Works,      \* states of what the stage works on
  FirstWork,  \* its state at the start
  Inputs,     \* identities of the upstream inputs
  FirstInput, \* their identity at the start
  Kinds,      \* the kinds of stages; workers of "asking" ones ask for things to be done
  Verdicts,   \* Verdicts[w]: what the adapter may say of w
  Decisions,  \* Decisions[k]: what the worker of a stage of kind k submits
  Reworks,    \* what may become of a repair a worker asks of an earlier stage
  NoWork,     \* not a state of the work
  Torn,       \* a decision record whose write was cut short
  MaxEdits,   \* bound: MaxEdits[k] turns and operator edits that change the work
  MaxCrashes, \* bound: crashes of the controller
  MaxActs,    \* bound: operator acts and repairs of other stages
  MaxAnswers  \* bound: MaxAnswers[k] answers of a worker (a torn record makes them endless)

Observations == {"SMOKE_A", "SMOKE_B"}

\* A verdict says whether a finding was noted on the way, and how the check ended.
Outcomes == {"DONE", "FINDINGS", "ERROR"} \cup Observations

ASSUME WorkAssumption ==
  /\ FirstWork \in Works /\ NoWork \notin Works
  /\ FirstInput \in Inputs
  /\ Kinds \subseteq {"files", "asking", "proposal", "static"}
  /\ Verdicts \in [Works -> SUBSET (BOOLEAN \X Outcomes)]
  /\ Kinds \subseteq {"files", "asking"}
       \/ \A w \in Works : \A v \in Verdicts[w] : v[2] \notin Observations

ASSUME WorkerAssumption ==
  /\ \A k \in Kinds : Decisions[k] \subseteq
       {"pass", "rework", "blocked", "operation", "none"}
         \cup IF k = "proposal" THEN {"submit"} ELSE {}
  /\ Reworks \subseteq {"reset", "exhausted", "sealed", "invalid"}

Statuses == {"PENDING", "READY", "RUNNING", "WAITING_FOR_USER", "PASS", "BLOCKED"}

\* What an adapter or the submission of a worker raises, and what a check finds.
Errors == {"UNSUBMITTED", "UNBOUND", "REWORK", "ERROR"}

Findings == Seq(Errors \cup {"NOTE", "FINDING", "OPERATION"})

\* What a worker can submit.
Submissions == {"pass", "rework", "blocked", "operation", "submit"}

Jobs == [decision : Submissions, proposal : Works \cup {NoWork}, bound : BOOLEAN, frozen : BOOLEAN]

\* What the work is known by, for one failure, and for what a smoke run observed.
Identities == Works \cup {NoWork, "none"}

Fingerprints == Inputs \X Identities \X Findings \X Nat

Observed == Observations \X Identities

Records ==
  [inputs : Inputs, captured : Works \cup {NoWork}, findings : Findings, after : Nat,
   fingerprint : Fingerprints, paused : BOOLEAN]

\* Where the controller can be.
Places == {"stopped", "loop", "gate", "ask", "turn", "turned", "job", "decide", "frozen",
           "accepted", "blocked", "request", "point"}

Continuations ==
  [type : {"CONTINUATION"}, job : Nat, fingerprint : Observed, consecutive : Nat]

Ends == [type : {"PASS", "REOPENED"}]

ASSUME TornAssumption == Torn \notin Records

VARIABLES
  kind,      \* what kind of stage this is; never changes
  status,    \* the stage row
  inputs,    \* identity of the current upstream inputs
  files,     \* state of the executable files
  resume,    \* the operator's resume id
  jobs,      \* the Codex job results of all attempts, by ordinal
  base,      \* the job results before the current attempt
  records,   \* the decision records
  pointer,   \* the record the .pending file names, or 0
  requests,  \* the operation requests served: <<identity, job>>
  events,    \* continuations and ends of repair episodes in the ledger
  published, \* the work the stage published, or NoWork
  at,        \* where the controller is
  held,      \* the record it is answering, or 0
  receipt,   \* the receipt of the turn that just ended
  payload,   \* the decision record it is about to write
  notes,     \* a finding noted in memory awaits the next finalize_stage
  crashes, edits, acts,
  answered   \* the fingerprints answered by a finished turn, in order

durable == <<status, inputs, files, resume, jobs, base, records, pointer, requests, events, published>>
controller == <<at, held, receipt, payload, notes>>
bounds == <<kind, crashes, edits, acts>>
vars == <<durable, controller, bounds, answered>>

\* A stage of PROPOSAL_STAGES: its work is the worker's proposal.
Proposal == kind = "proposal"

\* A stage owned by the controller, with no worker but for recovery.
Static == kind = "static"

-----------------------------------------------------------------------------
(* What is read from the durable state.                                    *)

\* _latest_job_occurrence; 0 stands for no job.
LatestJob == IF Len(jobs) > base THEN Len(jobs) ELSE 0

\* repair_inputs: a proposal is known by the latest job result, other work by
\* the executable files.
RepairInputs ==
  CASE ~Proposal -> files
    [] Proposal /\ LatestJob = 0 -> "none"
    [] OTHER -> jobs[LatestJob].proposal

\* fingerprint
Fingerprint(findings) == <<inputs, RepairInputs, findings, resume>>

\* Mutant: captured outputs stay good while the upstream inputs do.
CaptureMatchesInputs(record) == record.captured # NoWork /\ record.inputs = inputs

\* capture_is_current
CaptureIsCurrent(record) ==
  /\ record.captured # NoWork
  /\ record.inputs = inputs
  /\ record.fingerprint = Fingerprint(record.findings)

\* pending_decision: the record the pointer names, unless its inputs are gone or
\* what paused it has changed.
PendingStands ==
  /\ pointer # 0
  /\ records[pointer].inputs = inputs
  /\ records[pointer].paused =>
       records[pointer].fingerprint = Fingerprint(records[pointer].findings)

\* What the adapter says of the current work.
Work == IF Proposal THEN RepairInputs ELSE files

Judgements == IF Work \in Works THEN Verdicts[Work] ELSE {<<FALSE, "ERROR">>}

\* record_continuation: the last continuation of the current repair episode.
Episode == {i \in DOMAIN events : \A j \in i..Len(events) : events[j].type = "CONTINUATION"}

Previous == events[CHOOSE i \in Episode : \A j \in Episode : j <= i]

\* Mutant: a replayed submission is one more observation.
NeverReplayed(fingerprint) == FALSE

Replayed(fingerprint) ==
  Episode # {} /\ Previous.fingerprint = fingerprint /\ Previous.job = LatestJob

Consecutive(fingerprint) ==
  CASE Episode = {} \/ Previous.fingerprint # fingerprint -> 1
    [] Replayed(fingerprint) -> Previous.consecutive
    [] OTHER -> Previous.consecutive + 1

-----------------------------------------------------------------------------
Init ==
  /\ kind \in Kinds
  /\ status = "READY" /\ inputs = FirstInput /\ files = FirstWork /\ resume = 0
  /\ jobs = <<>> /\ base = 0 /\ records = <<>> /\ pointer = 0
  /\ requests = {} /\ events = <<>> /\ published = NoWork
  /\ at = "stopped" /\ held = 0 /\ receipt = <<>> /\ payload = <<>> /\ notes = FALSE
  /\ crashes = 0 /\ edits = 0 /\ acts = 0 /\ answered = <<>>

\* The controller moves on: the record it answers is put aside, and what it noted
\* in memory ends with the process.
Go(place, record, noted) ==
  /\ at' = place /\ held' = record
  /\ notes' = (noted /\ place # "stopped")
  /\ receipt' = <<>> /\ payload' = <<>>

\* Also a mutant of Goto: the record stays in hand.
Hold(place) == Go(place, held, notes)

Goto(place) == Go(place, 0, notes)

\* request_decision; a forced record is paused whatever came before it.
Request(findings, captured, forced, noted) ==
  /\ at' = "request"
  /\ payload' = [findings |-> findings, captured |-> captured, forced |-> forced]
  /\ held' = 0 /\ receipt' = <<>> /\ notes' = noted

\* request_recovery: an error while a record is pending joins its findings.
RequestRecovery(error, noted) ==
  IF ~PendingStands THEN Request(<<error>>, NoWork, FALSE, noted)
  ELSE LET record == records[pointer]
           seen == \E i \in DOMAIN record.findings : record.findings[i] = error
       IN  Request(IF seen THEN record.findings ELSE Append(record.findings, error),
                   record.captured, FALSE, noted)

-----------------------------------------------------------------------------
(* The controller: _run_project, _checker_decision, _codex_gate.           *)

\* port run
StartController ==
  /\ at = "stopped"
  /\ Goto("loop")
  /\ UNCHANGED <<durable, bounds, answered>>

Stop == Goto("stopped") /\ UNCHANGED durable

\* _run_project: an ended or waiting stage stops the run, a standing pause too.
Rest ==
  /\ at = "loop"
  /\ \/ status \notin {"READY", "RUNNING"}
     \/ PendingStands /\ records[pointer].paused
  /\ Stop
  /\ UNCHANGED <<bounds, answered>>

TakePending ==
  /\ at = "loop"
  /\ status \in {"READY", "RUNNING"}
  /\ PendingStands
  /\ ~records[pointer].paused
  /\ Go("decide", pointer, notes)
  /\ UNCHANGED <<durable, bounds, answered>>

\* clear_pending when the record no longer stands, then the stage's own action
Act ==
  /\ at = "loop"
  /\ status \in {"READY", "RUNNING"}
  /\ ~PendingStands
  /\ pointer' = 0
  /\ Goto("gate")
  /\ UNCHANGED <<status, inputs, files, resume, jobs, base, records, requests, events, published,
                 bounds, answered>>

\* run_codex_stage up to the paid call.
BeginTurn ==
  /\ status' = "RUNNING"
  /\ Hold("turn")
  /\ UNCHANGED <<inputs, files, resume, jobs, base, records, pointer, requests, events, published>>

\* A worker or an operator leaves the files as work.
LeaveFiles(work) ==
  /\ work # files => ~Proposal /\ edits < MaxEdits[kind]
  /\ files' = work
  /\ edits' = edits + (IF work # files THEN 1 ELSE 0)

\* The turn ends with what the worker submitted ("none" when nothing).  Only a
\* pending decision lets it answer for a proposal with a report.
EndTurn(decision, work) ==
  /\ at = "turn"
  /\ Len(answered) < MaxAnswers[kind]
  /\ Proposal /\ held = 0 => decision \in {"submit", "none"}
  /\ LeaveFiles(IF Proposal THEN files ELSE work)
  /\ receipt' = [decision |-> decision, proposal |-> IF decision = "submit" THEN work ELSE NoWork]
  /\ at' = "turned"
  /\ answered' = IF held = 0 THEN answered ELSE Append(answered, records[held].fingerprint)
  /\ UNCHANGED <<status, inputs, resume, jobs, base, records, pointer, requests, events, published,
                 held, payload, notes, kind, crashes, acts>>

\* ModelInvocationError: the run ends, nothing is recorded of the turn.
FailTurn(work) ==
  /\ at = "turn"
  /\ LeaveFiles(work)
  /\ Goto("stopped")
  /\ UNCHANGED <<status, inputs, resume, jobs, base, records, pointer, requests, events, published,
                 kind, crashes, acts, answered>>

\* load_submission and the JOB_RESULT artifact
RecordJob ==
  /\ at = "turned"
  /\ IF receipt.decision = "none"
       THEN RequestRecovery("UNSUBMITTED", notes) /\ UNCHANGED durable
       ELSE /\ jobs' = Append(jobs, [decision |-> receipt.decision, proposal |-> receipt.proposal,
                                     bound |-> FALSE, frozen |-> FALSE])
            /\ Hold("job")
            /\ UNCHANGED <<status, inputs, files, resume, base, records, pointer, requests,
                           events, published>>
  /\ UNCHANGED <<bounds, answered>>

\* The SUBMISSION artifact that binds the receipt to the job.
BindJob ==
  /\ at = "job"
  /\ jobs' = [jobs EXCEPT ![Len(jobs)].bound = TRUE]
  /\ Hold(IF held = 0 THEN "gate" ELSE "decide")
  /\ UNCHANGED <<status, inputs, files, resume, base, records, pointer, requests, events,
                 published, bounds, answered>>

\* Mutant: every pending record is put to a worker, whatever has been answered.
AlwaysAsk == TRUE

\* A job result newer than the record is its answer.
MustAsk == LatestJob <= records[held].after

\* _checker_decision with the latest job in hand.
ClearAndAct ==
  /\ pointer' = 0
  /\ Goto("gate")
  /\ UNCHANGED <<status, inputs, files, resume, jobs, base, records, requests, events, published>>

Accept(record) ==
  /\ status' = "PASS"
  /\ published' = record.captured
  /\ events' = Append(events, [type |-> "PASS"])
  /\ Goto("accepted")
  /\ UNCHANGED <<inputs, files, resume, jobs, base, records, pointer, requests>>

\* What becomes of a report: a blocker or a repair request only counts when this
\* very step froze the report, a replay finds it frozen and goes on.
Route(fresh) ==
  LET record == records[held]
      decision == jobs[LatestJob].decision
      blocker == fresh /\ decision = "blocked"
      misrouted == fresh /\ decision = "rework" /\ Static
      accepts == decision = "pass" /\ CaptureIsCurrent(record)
  IN  \/ /\ blocker
         /\ pointer' = 0 /\ Goto("blocked")
         /\ UNCHANGED <<status, inputs, files, resume, jobs, base, records, requests, events,
                        published>>
      \/ misrouted /\ RequestRecovery("REWORK", notes) /\ UNCHANGED durable
      \/ accepts /\ Accept(record)
      \/ ~blocker /\ ~misrouted /\ ~accepts /\ ClearAndAct

Decide ==
  /\ at = "decide"
  /\ IF MustAsk THEN BeginTurn
     ELSE LET job == jobs[LatestJob]
          IN  CASE ~job.bound -> RequestRecovery("UNBOUND", notes) /\ UNCHANGED durable
                [] job.bound /\ job.decision = "submit" -> ClearAndAct
                [] job.bound /\ job.decision # "submit" /\ job.frozen -> Route(FALSE)
                [] OTHER -> /\ jobs' = [jobs EXCEPT ![LatestJob].frozen = TRUE]
                            /\ Hold("frozen")
                            /\ UNCHANGED <<status, inputs, files, resume, base, records, pointer,
                                           requests, events, published>>
  /\ UNCHANGED <<bounds, answered>>

RouteReport ==
  /\ at = "frozen"
  /\ Route(TRUE)
  /\ UNCHANGED <<bounds, answered>>

\* accept_decision after its commit: the event and clear_pending
ClearAccepted ==
  /\ at = "accepted"
  /\ pointer' = 0
  /\ Goto("loop")
  /\ UNCHANGED <<status, inputs, files, resume, jobs, base, records, requests, events, published,
                 bounds, answered>>

\* Mutant: the blocker only leaves the pending decision.
StillRunning == "RUNNING"

Blocked == "BLOCKED"

\* complete_stage(BLOCKED), for a worker's blocker or a stagnant repair
Block ==
  /\ at = "blocked"
  /\ status' = Blocked
  /\ Goto("loop")
  /\ UNCHANGED <<inputs, files, resume, jobs, base, records, pointer, requests, events, published,
                 bounds, answered>>

\* finalize_stage: publish, unless the check or anything noted before it objects.
Finalize(found, noted) ==
  LET findings == (IF noted THEN <<"NOTE">> ELSE <<>>) \o (IF found THEN <<"FINDING">> ELSE <<>>)
  IN  IF findings # <<>>
        THEN Request(findings, Work, FALSE, FALSE) /\ UNCHANGED durable
        ELSE /\ status' = "PASS"
             /\ published' = Work
             /\ events' = Append(events, [type |-> "PASS"])
             /\ Go("loop", 0, FALSE)
             /\ UNCHANGED <<inputs, files, resume, jobs, base, records, pointer, requests>>

\* record_continuation: the third identical observation stops the repair.
Continue(observation, noted) ==
  LET fingerprint == <<observation, RepairInputs>>
      count == Consecutive(fingerprint)
  IN  /\ events' = IF Replayed(fingerprint) THEN events
                   ELSE Append(events, [type |-> "CONTINUATION", job |-> LatestJob,
                                        fingerprint |-> fingerprint, consecutive |-> count])
      /\ IF count >= 3 THEN Go("blocked", 0, TRUE) ELSE Go("ask", 0, noted)
      /\ UNCHANGED <<status, inputs, files, resume, jobs, base, records, pointer, requests,
                     published>>

\* The adapter's verdict on the work.  What it notes before it raises stays noted.
Judge(verdict) ==
  LET noted == notes \/ verdict[1]
  IN  CASE verdict[2] = "ERROR" -> RequestRecovery("ERROR", noted) /\ UNCHANGED durable
        [] verdict[2] \in Observations -> Continue(verdict[2], noted)
        [] OTHER -> Finalize(verdict[2] = "FINDINGS", noted)

\* guard_operation: three jobs may ask for the same operation on unchanged work.
\* It is on record before the controller runs the script, which may raise.
Operation == <<"OPERATION">>

Serve ==
  LET identity == Fingerprint(Operation)
      served == {r \in requests : r[1] = identity}
  IN  IF <<identity, LatestJob>> \notin requests /\ Cardinality(served) >= 3
        THEN Request(Operation, NoWork, TRUE, notes) /\ UNCHANGED durable
        ELSE /\ requests' = requests \cup {<<identity, LatestJob>>}
             /\ Goto("ask") \/ RequestRecovery("ERROR", notes)
             /\ UNCHANGED <<status, inputs, files, resume, jobs, base, records, pointer, events,
                            published>>

\* What the repair of an earlier stage leaves of this one: a new attempt.
Reset ==
  /\ acts < MaxActs
  /\ status' = "PENDING"
  /\ base' = Len(jobs)
  /\ UNCHANGED <<inputs, files, resume, jobs, records, pointer, requests, events, published>>

\* retry_prerequisite: the earlier stage is reset and this one with it, or the
\* repair repeats itself and blocks this stage, or waits at a sealed phase.
Rework(outcome) ==
  CASE outcome = "invalid" -> RequestRecovery("REWORK", notes) /\ UNCHANGED durable
    [] outcome = "exhausted" -> Goto("blocked") /\ UNCHANGED durable
    [] outcome = "sealed" ->
         /\ status' = "WAITING_FOR_USER"
         /\ Goto("loop")
         /\ UNCHANGED <<inputs, files, resume, jobs, base, records, pointer, requests, events,
                        published>>
    [] OTHER -> Reset /\ Goto("loop")

\* The adapter of a static stage starts it.
StartStage ==
  /\ status' = "RUNNING"
  /\ Hold("gate")
  /\ UNCHANGED <<inputs, files, resume, jobs, base, records, pointer, requests, events, published>>

\* Mutant: a blocker is judged like any other submission.
NoBlocker(job) == FALSE

IsBlocker(job) == job.bound /\ job.decision = "blocked"

\* _codex_gate: the latest job of the attempt is judged before another is asked.
Gate ==
  /\ at = "gate"
  /\ IF Static THEN IF status = "READY" THEN StartStage
                                         ELSE \E verdict \in Judgements : Judge(verdict)
     ELSE IF LatestJob = 0 THEN BeginTurn
     ELSE LET job == jobs[LatestJob]
          IN  CASE IsBlocker(job) -> Goto("blocked") /\ UNCHANGED durable
                [] job.bound /\ job.decision = "rework" ->
                     \E outcome \in Reworks : Rework(outcome)
                [] ~job.bound /\ ~Proposal -> RequestRecovery("UNBOUND", notes) /\ UNCHANGED durable
                [] job.bound /\ job.decision = "operation" -> Serve
                [] OTHER -> \E verdict \in Judgements : Judge(verdict)
  /\ acts' = acts + (IF status' = "PENDING" THEN 1 ELSE 0)
  /\ UNCHANGED <<kind, crashes, edits, answered>>

\* The next turn of the gate, with what the controller observed.
AskAgain ==
  /\ at = "ask"
  /\ BeginTurn
  /\ UNCHANGED <<bounds, answered>>

\* Mutant: a pause needs the same failure to be the latest one.
PausedByLast(fingerprint) ==
  /\ Len(records) >= 3
  /\ \A i \in (Len(records) - 2)..Len(records) : records[i].fingerprint = fingerprint

PausedBy(fingerprint) ==
  Cardinality({i \in DOMAIN records :
                 records[i].fingerprint = fingerprint /\ ~records[i].paused}) >= 3

\* _request: every record is read before the new one is written, so a torn one
\* raises out of the recovery itself and ends the run.
WriteRecord ==
  LET fingerprint == Fingerprint(payload.findings)
      record == [inputs |-> inputs, captured |-> payload.captured,
                 findings |-> payload.findings, after |-> LatestJob,
                 fingerprint |-> fingerprint,
                 paused |-> payload.forced \/ PausedBy(fingerprint)]
  IN  /\ at = "request"
      /\ IF \E i \in DOMAIN records : records[i] = Torn
           THEN Stop
           ELSE /\ records' = Append(records, record)
                /\ Goto("point")
                /\ UNCHANGED <<status, inputs, files, resume, jobs, base, pointer, requests, events,
                               published>>
      /\ UNCHANGED <<bounds, answered>>

\* The pointer is replaced in one piece; a paused record ends the run.
PointAtRecord ==
  /\ at = "point"
  /\ pointer' = Len(records)
  /\ Goto(IF records[Len(records)].paused THEN "stopped" ELSE "loop")
  /\ UNCHANGED <<status, inputs, files, resume, jobs, base, records, requests, events, published,
                 bounds, answered>>

-----------------------------------------------------------------------------
(* Crashes, the operator and the other stages.                             *)

Crash ==
  /\ at # "stopped"
  /\ crashes < MaxCrashes
  /\ crashes' = crashes + 1
  /\ Goto("stopped")
  /\ \/ UNCHANGED <<records, files, edits>>
     \/ /\ at = "request"
        /\ records' = Append(records, Torn)
        /\ UNCHANGED <<files, edits>>
     \/ /\ at = "turn"
        /\ \E work \in Works \ {files} : LeaveFiles(work)
        /\ UNCHANGED records
  /\ UNCHANGED <<status, inputs, resume, jobs, base, pointer, requests, events, published, kind,
                 acts, answered>>

\* resume_recovery
RecoveryResume ==
  /\ pointer # 0
  /\ records[pointer].paused
  /\ resume' = resume + 1
  /\ pointer' = 0
  /\ UNCHANGED <<status, inputs, files, jobs, base, records, requests, events, published, edits>>

\* reopen_blocked: a new attempt and a new repair episode
Reopen ==
  /\ status = "BLOCKED"
  /\ status' = "READY"
  /\ base' = Len(jobs)
  /\ events' = Append(events, [type |-> "REOPENED"])
  /\ UNCHANGED <<inputs, files, resume, jobs, records, pointer, requests, published, edits>>

\* resume_after_user
Answer ==
  /\ status = "WAITING_FOR_USER"
  /\ status' = "RUNNING"
  /\ UNCHANGED <<inputs, files, resume, jobs, base, records, pointer, requests, events, published,
                 edits>>

\* The operator changes the work by hand.
Edit ==
  /\ \E work \in Works \ {files} : LeaveFiles(work)
  /\ UNCHANGED <<status, inputs, resume, jobs, base, records, pointer, requests, events, published>>

\* While the controller is not on this stage: operator acts and other repairs.
Intervene ==
  /\ at = "stopped"
  /\ acts < MaxActs
  /\ acts' = acts + 1
  /\ RecoveryResume \/ Reopen \/ Answer \/ Edit \/ (Reset /\ status # "PENDING" /\ UNCHANGED edits)
  /\ UNCHANGED <<controller, kind, crashes, answered>>

\* refresh_ready, once the stages before have passed again
Release ==
  /\ at = "stopped"
  /\ status = "PENDING"
  /\ status' = "READY"
  /\ inputs' \in Inputs
  /\ UNCHANGED <<files, resume, jobs, base, records, pointer, requests, events, published,
                 controller, bounds, answered>>

TurnEnds ==
  \/ \E decision \in Decisions[kind], work \in Works : EndTurn(decision, work)
  \/ \E work \in Works : FailTurn(work)

Controller ==
  \/ Rest \/ TakePending \/ Act \/ RecordJob \/ BindJob \/ Decide \/ RouteReport
  \/ ClearAccepted \/ Block \/ Gate \/ AskAgain \/ WriteRecord \/ PointAtRecord

Next == StartController \/ Controller \/ TurnEnds \/ Crash \/ Intervene \/ Release

\* The controller is one sequential program, and transport.py ends every turn by
\* its idle and total deadlines.
Spec == Init /\ [][Next]_vars /\ WF_vars(Controller) /\ WF_vars(TurnEnds)

-----------------------------------------------------------------------------
(* Properties.                                                             *)

\* Types, and the shape of what the controller holds at each place.
TypeOK ==
  /\ kind \in Kinds
  /\ status \in Statuses
  /\ inputs \in Inputs
  /\ files \in Works
  /\ resume \in Nat
  /\ jobs \in Seq(Jobs) /\ base \in 0..Len(jobs)
  /\ records \in Seq(Records \cup {Torn})
  /\ events \in Seq(Continuations \cup Ends)
  /\ requests \subseteq Fingerprints \X Nat
  /\ answered \in Seq(Fingerprints)
  /\ pointer \in 0..Len(records) /\ held \in 0..Len(records)
  /\ pointer # 0 => records[pointer] # Torn
  /\ held # 0 => held = pointer
  /\ IF at = "turned"
       THEN receipt \in [decision : Submissions \cup {"none"}, proposal : Works \cup {NoWork}]
       ELSE receipt = <<>>
  /\ IF at = "request"
       THEN payload \in [findings : Findings, captured : Works \cup {NoWork}, forced : BOOLEAN]
       ELSE payload = <<>>
  /\ held # 0 => status \in {"READY", "RUNNING"}
  /\ published \in Works \cup {NoWork}
  /\ at \in Places /\ notes \in BOOLEAN
  /\ {crashes, edits, acts} \subseteq Nat

TurnBegins == at # "turn" /\ at' = "turn"

StageAccepted == status # "PASS" /\ status' = "PASS"

\* No answer is paid for twice: when a turn begins, the latest answer of the
\* worker in this attempt has been judged, and the judgement is on record.
Judged(job) ==
  \/ \E i \in DOMAIN records : records[i] # Torn /\ records[i].after >= job
  \/ \E i \in DOMAIN events : events[i].type = "CONTINUATION" /\ events[i].job = job
  \/ \E request \in requests : request[2] = job

NoAnswerPaidTwice == [][TurnBegins => LatestJob = 0 \/ Judged(LatestJob)]_vars

\* One failure on unchanged work is put to a worker three times at most, however
\* the run is stopped and restarted in between; a crash may cost one turn
\* (docs/WORKFLOW.md: the count is on disk and no restart resets it).
BudgetSurvivesCrashes ==
  \A i \in DOMAIN answered :
    Cardinality({j \in DOMAIN answered : answered[j] = answered[i]}) <= 3 + crashes

\* It does, unless a crash tears a decision record: _request then fails to read it
\* each time, the new failure is not recorded, and each restart pays for an answer
\* to the old one again.
AnswersBounded == (\E i \in DOMAIN records : records[i] = Torn) \/ BudgetSurvivesCrashes

\* What a stage publishes is its work as it stands, even when a worker accepts
\* outputs captured before its turn (capture_is_current: "Only unchanged captured
\* candidates can be published without recapture"), with one exception: a record
\* that joined an error to a captured check.  request_recovery keeps the capture,
\* and _request gives it the fingerprint of the work at the time of the error.
Joined(record) ==
  /\ record.captured # NoWork
  /\ \E i \in DOMAIN record.findings : record.findings[i] \in Errors

OutdatedOnlyByJoining ==
  [][StageAccepted => published' = Work \/ (pointer # 0 /\ Joined(records[pointer]))]_vars

\* Only three different submissions with one observation and one state of the
\* work stop a repair; a restart and a replay neither add to the count nor lose it.
ThreeObservations ==
  \A i \in DOMAIN events : events[i].type = "CONTINUATION" =>
    LET same == {j \in 1..i : \A k \in j..i : /\ events[k].type = "CONTINUATION"
                                              /\ events[k].fingerprint = events[i].fingerprint}
    IN  /\ events[i].consecutive = Cardinality({events[j].job : j \in same})
        /\ events[i].consecutive <= 3 + acts

\* A worker's blocker is not answered with another turn (WorkerBlocked: "An honest
\* missing prerequisite, not a malformed answer to retry three times").  In a stage
\* owned by the controller a crash after the report was frozen still loses it.
BlockersHeeded ==
  [][TurnBegins => LatestJob = 0 \/ ~jobs[LatestJob].bound \/ jobs[LatestJob].decision # "blocked"]_vars

\* Unless it is crashed the run comes to rest: no failure, and no worker that
\* stops changing the work, keeps the controller paying for turns forever.
Rests == at # "stopped" ~> at = "stopped"
=============================================================================
