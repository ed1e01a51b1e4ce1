---------------------- MODULE RecoveryControllerProofs ----------------------
(***************************************************************************)
(* Proofs about RecoveryController, for any states of the work, inputs,    *)
(* verdicts and bounds, and workers who submit whatever they may.          *)
(*                                                                         *)
(* The properties are about turns that are paid for, and a crash may fall  *)
(* between any two writes.  What carries them is where the controller can  *)
(* be with what is pending (AtWork), that no record is ahead of the jobs   *)
(* (Recorded), and what a record, a continuation or a request on disk says *)
(* of the latest answer (BlockersSeen, JudgedBefore, Captured).            *)
(***************************************************************************)
EXTENDS RecoveryController, FiniteSetTheorems, SequenceTheorems, TLAPS

USE DEF Observations, Outcomes, Errors, Submissions, Statuses, Places

-----------------------------------------------------------------------------
(* The inductive invariant.                                                *)

IsRecord(i) == i \in DOMAIN records /\ records[i] # Torn

\* What is pending and in hand at each place of the controller.
AtWork ==
  /\ at \in {"gate", "ask", "blocked", "turn", "turned", "job", "decide", "frozen"} =>
       status \in {"READY", "RUNNING"}
  /\ at \in {"gate", "ask", "blocked"} => pointer = 0
  /\ at \in {"turn", "turned", "job"} /\ held = 0 => pointer = 0
  /\ at \in {"decide", "frozen"} => held # 0
  /\ held # 0 => at \in {"turn", "turned", "job", "decide", "frozen"} /\ ~records[held].paused
  /\ at \in {"turn", "turned"} /\ held # 0 => MustAsk
  /\ at \in {"job", "frozen"} => LatestJob # 0 /\ (held # 0 => ~MustAsk)
  /\ at = "job" => ~jobs[Len(jobs)].bound
  /\ at = "point" => IsRecord(Len(records))

\* A record comes after jobs that are there; the one that is being bound is newer.
Recorded ==
  /\ \A i \in DOMAIN records : IsRecord(i) => records[i].after <= Len(jobs)
  /\ at = "job" => \A i \in DOMAIN records : IsRecord(i) => records[i].after < Len(jobs)

\* No turn is on its way, and no failure on record, past a blocker of a worker.
Heeded == LatestJob # 0 => ~IsBlocker(jobs[LatestJob])

BlockersSeen ==
  ~Static =>
    /\ at \in {"turn", "turned", "request", "ask"} => Heeded
    /\ \A i \in DOMAIN records :
         IsRecord(i) /\ records[i].after # 0 => ~IsBlocker(jobs[records[i].after])

\* The gate asks again only after it has judged.
JudgedBefore == at = "ask" => Judged(LatestJob)

\* Captured outputs are the work of the fingerprint, unless an error joined them.
Captured ==
  /\ \A i \in DOMAIN records :
       IsRecord(i) /\ records[i].captured # NoWork /\ ~Joined(records[i]) =>
         records[i].captured = records[i].fingerprint[2]
  /\ at = "request" /\ payload.captured # NoWork /\ ~Joined(payload) =>
       payload.captured = RepairInputs

-----------------------------------------------------------------------------
(* Types.                                                                  *)

\* The latest job of the attempt is the last one of all, if it is there.
LEMMA LatestJobType ==
  ASSUME TypeOK
  PROVE  /\ LatestJob \in 0..Len(jobs)
         /\ LatestJob # 0 => LatestJob = Len(jobs) /\ LatestJob \in DOMAIN jobs /\ jobs[LatestJob] \in Jobs
BY DEF TypeOK, LatestJob

\* What identifies the work is a value of its type.
LEMMA RepairInputsType ==
  ASSUME TypeOK
  PROVE  RepairInputs \in Identities
BY LatestJobType DEF TypeOK, RepairInputs, Identities, Jobs, Proposal

\* So is the fingerprint of a failure.
LEMMA FingerprintType ==
  ASSUME TypeOK, NEW findings \in Findings
  PROVE  Fingerprint(findings) \in Fingerprints
BY RepairInputsType DEF TypeOK, Fingerprint, Fingerprints

\* The pointer never names a torn record.
LEMMA PendingType ==
  ASSUME TypeOK, pointer # 0
  PROVE  records[pointer] \in Records
BY DEF TypeOK

\* What is left of a request.
LEMMA RequestShape ==
  ASSUME NEW findings \in Findings, NEW captured \in Works \cup {NoWork}, NEW forced \in BOOLEAN,
         NEW noted \in BOOLEAN,
         Request(findings, captured, forced, noted)
  PROVE  /\ at' = "request" /\ held' = 0 /\ receipt' = <<>> /\ notes' \in BOOLEAN
         /\ payload' \in [findings : Findings, captured : Works \cup {NoWork}, forced : BOOLEAN]
         /\ payload'.captured = captured /\ payload'.findings = findings
BY DEF Request

\* An error joins what is pending, and a capture that is kept is then a joined one.
LEMMA RecoveryShape ==
  ASSUME TypeOK, NEW error \in Errors, NEW noted \in BOOLEAN,
         RequestRecovery(error, noted)
  PROVE  /\ at' = "request" /\ held' = 0 /\ receipt' = <<>> /\ notes' \in BOOLEAN
         /\ payload' \in [findings : Findings, captured : Works \cup {NoWork}, forced : BOOLEAN]
         /\ payload'.captured = NoWork \/ Joined(payload')
<1>1. CASE ~PendingStands
  <2>1. <<error>> \in Findings
    BY DEF Findings
  <2> QED BY <1>1, <2>1, RequestShape DEF RequestRecovery
<1>2. CASE PendingStands
  <2> DEFINE record == records[pointer]
             all == IF \E i \in DOMAIN record.findings : record.findings[i] = error
                    THEN record.findings ELSE Append(record.findings, error)
  <2>1. record \in Records
    BY <1>2, PendingType DEF PendingStands
  <2>2. record.findings \in Findings /\ record.captured \in Works \cup {NoWork}
    BY <2>1 DEF Records
  <2>3. all \in Findings /\ \E i \in DOMAIN all : all[i] = error
    <3>1. CASE \E i \in DOMAIN record.findings : record.findings[i] = error
      BY <3>1, <2>2
    <3>2. CASE ~\E i \in DOMAIN record.findings : record.findings[i] = error
      <4>1. all = Append(record.findings, error)
        BY <3>2
      <4>2. all \in Findings /\ Len(all) \in DOMAIN all /\ all[Len(all)] = error
        BY <4>1, <2>2 DEF Findings
      <4> QED BY <4>2
    <3> QED BY <3>1, <3>2
  <2>4. Request(all, record.captured, FALSE, noted)
    BY <1>2 DEF RequestRecovery
  <2> HIDE DEF all, record
  <2>5. /\ at' = "request" /\ held' = 0 /\ receipt' = <<>> /\ notes' \in BOOLEAN
        /\ payload' \in [findings : Findings, captured : Works \cup {NoWork}, forced : BOOLEAN]
        /\ payload'.captured = record.captured /\ payload'.findings = all
    BY <2>2, <2>3, <2>4, RequestShape
  <2>6. payload'.captured = NoWork \/ Joined(payload')
    BY <2>3, <2>5 DEF Joined
  <2> QED BY <2>5, <2>6
<1> QED BY <1>1, <1>2

\* Everything has its type at the start.
LEMMA InitTypes == Init => TypeOK
<1> SUFFICES ASSUME Init PROVE TypeOK
  OBVIOUS
<1>1. /\ jobs \in Seq(Jobs) /\ records \in Seq(Records \cup {Torn})
      /\ events \in Seq(Continuations \cup Ends) /\ answered \in Seq(Fingerprints)
  BY DEF Init
<1>2. Len(jobs) = 0 /\ Len(records) = 0
  BY DEF Init
<1>3. FirstWork \in Works /\ FirstInput \in Inputs
  BY WorkAssumption
<1>4. /\ pointer = 0 /\ held = 0 /\ base = 0 /\ Len(jobs) = 0 /\ Len(records) = 0
      /\ requests = {} /\ resume = 0
  BY <1>2 DEF Init
<1>5. /\ base \in 0..Len(jobs) /\ pointer \in 0..Len(records) /\ held \in 0..Len(records)
  BY <1>4
<1>6. published \in Works \cup {NoWork} /\ {crashes, edits, acts} \subseteq Nat
  BY DEF Init
<1>7. /\ at = "stopped" /\ receipt = <<>> /\ payload = <<>> /\ notes = FALSE
      /\ status = "READY" /\ kind \in Kinds /\ inputs = FirstInput /\ files = FirstWork
  BY DEF Init
<1> QED BY <1>1, <1>3, <1>4, <1>5, <1>6, <1>7 DEF TypeOK

\* One field of the latest job is written.
LEMMA JobWritten ==
  ASSUME TypeOK, LatestJob # 0,
         \/ jobs' = [jobs EXCEPT ![Len(jobs)].bound = TRUE]
         \/ jobs' = [jobs EXCEPT ![Len(jobs)].frozen = TRUE]
  PROVE  /\ jobs' \in Seq(Jobs) /\ Len(jobs') = Len(jobs)
         /\ \A i \in 1..Len(jobs) :
              /\ i # Len(jobs) => jobs'[i] = jobs[i]
              /\ jobs'[i].decision = jobs[i].decision
              /\ jobs'[i].proposal = jobs[i].proposal
<1>1. Len(jobs) \in DOMAIN jobs /\ jobs \in Seq(Jobs) /\ jobs[Len(jobs)] \in Jobs
  BY LatestJobType DEF TypeOK
<1>2. PICK job \in Jobs : /\ jobs' = [jobs EXCEPT ![Len(jobs)] = job]
                          /\ job.decision = jobs[Len(jobs)].decision
                          /\ job.proposal = jobs[Len(jobs)].proposal
  <2>1. /\ [jobs[Len(jobs)] EXCEPT !.bound = TRUE] \in Jobs
        /\ [jobs[Len(jobs)] EXCEPT !.frozen = TRUE] \in Jobs
    BY <1>1 DEF Jobs
  <2>2. CASE jobs' = [jobs EXCEPT ![Len(jobs)].bound = TRUE]
    <3> DEFINE job == [jobs[Len(jobs)] EXCEPT !.bound = TRUE]
    <3>1. jobs' = [jobs EXCEPT ![Len(jobs)] = job]
      BY <2>2
    <3>2. job.decision = jobs[Len(jobs)].decision /\ job.proposal = jobs[Len(jobs)].proposal
      BY <1>1 DEF Jobs
    <3> QED BY <2>1, <3>1, <3>2
  <2>3. CASE jobs' = [jobs EXCEPT ![Len(jobs)].frozen = TRUE]
    <3> DEFINE job == [jobs[Len(jobs)] EXCEPT !.frozen = TRUE]
    <3>1. jobs' = [jobs EXCEPT ![Len(jobs)] = job]
      BY <2>3
    <3>2. job.decision = jobs[Len(jobs)].decision /\ job.proposal = jobs[Len(jobs)].proposal
      BY <1>1 DEF Jobs
    <3> QED BY <2>1, <3>1, <3>2
  <2> QED BY <2>2, <2>3
<1>3. /\ jobs' \in Seq(Jobs) /\ Len(jobs') = Len(jobs)
      /\ \A i \in 1..Len(jobs) : jobs'[i] = IF i = Len(jobs) THEN job ELSE jobs[i]
  BY <1>1, <1>2, ExceptSeq
<1>4. ASSUME NEW i \in 1..Len(jobs)
      PROVE  /\ i # Len(jobs) => jobs'[i] = jobs[i]
             /\ jobs'[i].decision = jobs[i].decision
             /\ jobs'[i].proposal = jobs[i].proposal
  <2>1. CASE i = Len(jobs)
    BY <1>2, <1>3, <2>1
  <2>2. CASE i # Len(jobs)
    BY <1>3, <2>2
  <2> QED BY <2>1, <2>2
<1> QED BY <1>3, <1>4

\* A request keeps the types.
LEMMA RequestTypes ==
  ASSUME TypeOK, NEW findings \in Findings, NEW captured \in Works \cup {NoWork},
         NEW forced \in BOOLEAN, NEW noted \in BOOLEAN,
         Request(findings, captured, forced, noted),
         UNCHANGED <<durable, kind, crashes, edits, answered>>, acts' \in Nat
  PROVE  TypeOK'
<1>1. /\ at' = "request" /\ held' = 0 /\ receipt' = <<>> /\ notes' \in BOOLEAN
      /\ payload' \in [findings : Findings, captured : Works \cup {NoWork}, forced : BOOLEAN]
  BY DEF Request
<1> QED BY <1>1 DEF TypeOK, durable

\* So does the request of a recovery.
LEMMA RecoveryTypes ==
  ASSUME TypeOK, NEW error \in Errors, NEW noted \in BOOLEAN, RequestRecovery(error, noted),
         UNCHANGED <<durable, kind, crashes, edits, answered>>, acts' \in Nat
  PROVE  TypeOK'
BY RecoveryShape DEF TypeOK, durable

\* Types: the moves of the controller that add nothing to the disk.
LEMMA MoveTypes ==
  ASSUME TypeOK, AtWork,
         StartController \/ Rest \/ TakePending \/ Act \/ BindJob \/ ClearAccepted \/ Block
           \/ AskAgain \/ PointAtRecord \/ Release
  PROVE  TypeOK'
<1> USE DEF Goto, Go, Hold, Stop, durable, controller, bounds
<1>1. CASE StartController
  BY <1>1 DEF StartController, TypeOK
<1>2. CASE Rest
  BY <1>2 DEF Rest, TypeOK
<1>3. CASE TakePending
  BY <1>3 DEF TakePending, PendingStands, TypeOK
<1>4. CASE Act
  BY <1>4 DEF Act, TypeOK
<1>5. CASE BindJob
  <2>1. Len(jobs) \in DOMAIN jobs /\ jobs' \in Seq(Jobs) /\ Len(jobs') = Len(jobs)
    BY <1>5, JobWritten, LatestJobType DEF BindJob, AtWork
  <2> QED BY <1>5, <2>1 DEF BindJob, TypeOK
<1>6. CASE ClearAccepted
  BY <1>6 DEF ClearAccepted, TypeOK
<1>7. CASE Block
  BY <1>7 DEF Block, Blocked, TypeOK
<1>8. CASE AskAgain
  BY <1>8 DEF AskAgain, BeginTurn, TypeOK
<1>9. CASE PointAtRecord
  BY <1>9 DEF PointAtRecord, TypeOK, AtWork, IsRecord
<1>10. CASE Release
  BY <1>10 DEF Release, TypeOK
<1> QED BY <1>1, <1>2, <1>3, <1>4, <1>5, <1>6, <1>7, <1>8, <1>9, <1>10

\* Types: the end of a turn.
LEMMA TurnTypes ==
  ASSUME TypeOK, TurnEnds
  PROVE  TypeOK'
<1> USE DEF Goto, Go, LeaveFiles
<1>0. NoWork \notin Works
  BY WorkAssumption
<1>1. ASSUME NEW decision \in Decisions[kind], NEW work \in Works, EndTurn(decision, work)
      PROVE  TypeOK'
  <2>1. decision \in Submissions \cup {"none"}
    BY WorkerAssumption DEF TypeOK
  <2>2. /\ receipt' \in [decision : Submissions \cup {"none"}, proposal : Works \cup {NoWork}]
        /\ files' \in Works /\ edits' \in Nat
    BY <1>1, <2>1 DEF EndTurn, TypeOK
  <2>3. answered' \in Seq(Fingerprints)
    <3>1. CASE held = 0
      BY <1>1, <3>1 DEF EndTurn, TypeOK
    <3>2. CASE held # 0
      <4>1. records[held].fingerprint \in Fingerprints
        BY <3>2, PendingType DEF TypeOK, Records
      <4> QED BY <1>1, <3>2, <4>1 DEF EndTurn, TypeOK
    <3> QED BY <3>1, <3>2
  <2> QED BY <1>1, <2>2, <2>3 DEF EndTurn, TypeOK
<1>2. ASSUME NEW work \in Works, FailTurn(work)
      PROVE  TypeOK'
  <2>1. files' \in Works /\ edits' \in Nat
    BY <1>2 DEF FailTurn, TypeOK
  <2> QED BY <1>2, <2>1 DEF FailTurn, TypeOK
<1> QED BY <1>1, <1>2 DEF TurnEnds

\* Types: the job result.
LEMMA RecordTypes ==
  ASSUME TypeOK, RecordJob
  PROVE  TypeOK'
<1>1. CASE receipt.decision = "none"
  <2>1. /\ RequestRecovery("UNSUBMITTED", notes) /\ UNCHANGED <<durable, kind, crashes, edits, answered>>
        /\ acts' \in Nat /\ notes \in BOOLEAN
    BY <1>1 DEF RecordJob, TypeOK, bounds
  <2> QED BY <2>1, RecoveryTypes
<1>2. CASE receipt.decision # "none"
  <2> DEFINE job == [decision |-> receipt.decision, proposal |-> receipt.proposal,
                     bound |-> FALSE, frozen |-> FALSE]
  <2>1. job \in Jobs /\ jobs' = Append(jobs, job)
    BY <1>2 DEF RecordJob, TypeOK, Jobs
  <2>2. jobs' \in Seq(Jobs) /\ Len(jobs') = Len(jobs) + 1
    BY <2>1 DEF TypeOK
  <2> QED BY <1>2, <2>2 DEF RecordJob, TypeOK, Hold, Go, bounds
<1> QED BY <1>1, <1>2

\* Types: what becomes of a report.
LEMMA RouteTypes ==
  ASSUME TypeOK, AtWork, NEW fresh \in BOOLEAN, held # 0, Route(fresh), UNCHANGED <<bounds, answered>>
  PROVE  TypeOK'
<1> USE DEF Goto, Go
<1>1. CASE RequestRecovery("REWORK", notes) /\ UNCHANGED durable
  BY <1>1, RecoveryTypes DEF TypeOK, bounds
<1>2. CASE Accept(records[held])
  <2>1. /\ records[held].captured \in Works \cup {NoWork}
        /\ [type |-> "PASS"] \in Continuations \cup Ends
    BY PendingType DEF TypeOK, Records, Ends
  <2>2. events' \in Seq(Continuations \cup Ends)
    BY <1>2, <2>1 DEF Accept, TypeOK
  <2> QED BY <1>2, <2>1, <2>2 DEF Accept, TypeOK, bounds
<1>3. CASE ClearAndAct
  BY <1>3 DEF ClearAndAct, TypeOK, bounds
<1>4. CASE /\ pointer' = 0 /\ Goto("blocked")
           /\ UNCHANGED <<status, inputs, files, resume, jobs, base, records, requests, events,
                          published>>
  BY <1>4 DEF TypeOK, bounds
<1> QED BY <1>1, <1>2, <1>3, <1>4 DEF Route

\* Types: the decision with the latest job in hand.
LEMMA DecideTypes ==
  ASSUME TypeOK, AtWork, Decide \/ RouteReport
  PROVE  TypeOK'
<1> USE DEF Goto, Go, Hold
<1>0. held # 0 /\ acts \in Nat /\ notes \in BOOLEAN
  BY DEF AtWork, Decide, RouteReport, TypeOK
<1>1. CASE RouteReport
  BY <1>0, <1>1, RouteTypes DEF RouteReport
<1>2. CASE Decide
  <2>0. UNCHANGED <<bounds, answered>>
    BY <1>2 DEF Decide
  <2>1. CASE MustAsk
    BY <1>2, <2>1 DEF Decide, BeginTurn, TypeOK, bounds
  <2>2. CASE ~MustAsk
    <3>1. LatestJob # 0
      BY <1>0, <2>2, PendingType DEF MustAsk, TypeOK, Records, LatestJob
    <3>2. CASE RequestRecovery("UNBOUND", notes) /\ UNCHANGED durable
      BY <1>0, <2>0, <3>2, RecoveryTypes DEF bounds
    <3>3. CASE ClearAndAct
      BY <2>0, <3>3 DEF ClearAndAct, TypeOK, bounds
    <3>4. CASE Route(FALSE)
      BY <1>0, <2>0, <3>4, RouteTypes
    <3>5. CASE /\ jobs' = [jobs EXCEPT ![LatestJob].frozen = TRUE]
               /\ Hold("frozen")
               /\ UNCHANGED <<status, inputs, files, resume, base, records, pointer,
                              requests, events, published>>
      <4>1. jobs' \in Seq(Jobs) /\ Len(jobs') = Len(jobs)
        BY <3>1, <3>5, JobWritten, LatestJobType
      <4> QED BY <2>0, <3>5, <4>1 DEF TypeOK, bounds
    <3> QED BY <1>2, <2>2, <3>2, <3>3, <3>4, <3>5 DEF Decide
  <2> QED BY <2>1, <2>2
<1> QED BY <1>1, <1>2

-----------------------------------------------------------------------------
(* The gate.                                                               *)

\* The episode is the continuations at the end of the ledger.
LEMMA LastOfEpisode ==
  ASSUME TypeOK
  PROVE  /\ Episode # {} <=> Len(events) # 0 /\ events[Len(events)].type = "CONTINUATION"
         /\ Episode # {} => /\ Previous = events[Len(events)] /\ Len(events) \in DOMAIN events
                            /\ Previous \in Continuations
<1>0. events \in Seq(Continuations \cup Ends) /\ Len(events) \in Nat /\ DOMAIN events = 1..Len(events)
  BY DEF TypeOK
<1>1. ASSUME Episode # {}
      PROVE  Len(events) \in Episode
  <2>1. PICK i \in DOMAIN events : \A j \in i..Len(events) : events[j].type = "CONTINUATION"
    BY <1>1 DEF Episode
  <2> QED BY <1>0, <2>1 DEF Episode
<1>2. ASSUME Len(events) # 0, events[Len(events)].type = "CONTINUATION"
      PROVE  Episode # {}
  <2>1. Len(events) \in DOMAIN events /\ \A j \in Len(events)..Len(events) : j = Len(events)
    BY <1>0, <1>2
  <2> QED BY <1>2, <2>1 DEF Episode
<1>3. ASSUME Episode # {}
      PROVE  /\ Len(events) # 0 /\ events[Len(events)].type = "CONTINUATION"
             /\ Previous = events[Len(events)] /\ Len(events) \in DOMAIN events
             /\ Previous \in Continuations
  <2>1. Len(events) \in DOMAIN events /\ Len(events) \in Episode
    BY <1>1, <1>3 DEF Episode
  <2>2. events[Len(events)].type = "CONTINUATION"
    BY <1>0, <2>1 DEF Episode
  <2>3. \A i \in Episode : (\A j \in Episode : j <= i) => i = Len(events)
    BY <1>0, <2>1 DEF Episode
  <2>4. \A j \in Episode : j <= Len(events)
    BY <1>0 DEF Episode
  <2>5. (CHOOSE i \in Episode : \A j \in Episode : j <= i) = Len(events)
    BY <2>1, <2>3, <2>4
  <2>6. events[Len(events)] \in Continuations
    BY <1>0, <2>1, <2>2 DEF Ends
  <2>7. Previous = events[Len(events)]
    BY <2>5 DEF Previous
  <2> QED BY <1>0, <2>1, <2>2, <2>6, <2>7
<1> QED BY <1>2, <1>3

\* What a smoke run observed is counted as the ledger has it.
Observation(observation) == <<observation, RepairInputs>>

Continuation(observation) ==
  [type |-> "CONTINUATION", job |-> LatestJob, fingerprint |-> Observation(observation),
   consecutive |-> Consecutive(Observation(observation))]

\* A continuation as record_continuation writes it has its type.
LEMMA ContinuationType ==
  ASSUME TypeOK, NEW observation \in Observations
  PROVE  /\ Observation(observation) \in Observed
         /\ Consecutive(Observation(observation)) \in Nat
         /\ Continuation(observation) \in Continuations
<1>1. Observation(observation) \in Observed
  BY RepairInputsType DEF Observation, Observed
<1>2. Consecutive(Observation(observation)) \in Nat
  <2>1. Episode # {} => Previous.consecutive \in Nat
    BY LastOfEpisode DEF Continuations
  <2> QED BY <2>1 DEF Consecutive, Replayed
<1> QED BY <1>1, <1>2, LatestJobType DEF Continuation, Continuations

\* Types: a continuation.
LEMMA ContinueTypes ==
  ASSUME TypeOK, NEW observation \in Observations, NEW noted \in BOOLEAN,
         Continue(observation, noted),
         UNCHANGED <<kind, crashes, edits, answered>>, acts' \in Nat
  PROVE  TypeOK'
<1>1. events' \in Seq(Continuations \cup Ends)
  <2>1. events' = events \/ events' = Append(events, Continuation(observation))
    BY DEF Continue, Continuation, Observation
  <2>2. Continuation(observation) \in Continuations \cup Ends /\ events \in Seq(Continuations \cup Ends)
    BY ContinuationType DEF TypeOK
  <2> HIDE DEF Continuation
  <2> QED BY <2>1, <2>2, AppendProperties
<1>2. /\ at' \in {"blocked", "ask"} /\ held' = 0 /\ receipt' = <<>> /\ payload' = <<>>
      /\ notes' \in BOOLEAN
      /\ UNCHANGED <<status, inputs, files, resume, jobs, base, records, pointer, requests,
                     published>>
  <2>1. CASE Consecutive(Observation(observation)) >= 3
    BY <2>1 DEF Continue, Observation, Go
  <2>2. CASE ~(Consecutive(Observation(observation)) >= 3)
    BY <2>2 DEF Continue, Observation, Go
  <2> QED BY <2>1, <2>2
<1> QED BY <1>1, <1>2 DEF TypeOK

\* Types: finalize_stage.
LEMMA FinalizeTypes ==
  ASSUME TypeOK, NEW found \in BOOLEAN, NEW noted \in BOOLEAN, Work \in Works,
         Finalize(found, noted),
         UNCHANGED <<kind, crashes, edits, answered>>, acts' \in Nat
  PROVE  TypeOK'
<1> DEFINE findings == (IF noted THEN <<"NOTE">> ELSE <<>>) \o (IF found THEN <<"FINDING">> ELSE <<>>)
<1>1. findings \in Findings
  <2> DEFINE first == IF noted THEN <<"NOTE">> ELSE <<>>
             second == IF found THEN <<"FINDING">> ELSE <<>>
  <2>0. <<>> \in Findings /\ <<"NOTE">> \in Findings /\ <<"FINDING">> \in Findings
    BY DEF Findings
  <2>1. first \in Findings
    BY <2>0
  <2>2. second \in Findings
    BY <2>0
  <2> HIDE DEF first, second
  <2>3. first \o second \in Findings
    BY <2>1, <2>2, ConcatProperties DEF Findings
  <2> QED BY <2>3 DEF first, second
<1>2. CASE findings # <<>>
  <2>1. Request(findings, Work, FALSE, FALSE) /\ UNCHANGED durable
    BY <1>2 DEF Finalize
  <2> HIDE DEF findings
  <2> QED BY <1>1, <2>1, RequestTypes
<1>3. CASE findings = <<>>
  <2>1. /\ status' = "PASS" /\ published' = Work /\ events' = Append(events, [type |-> "PASS"])
        /\ Go("loop", 0, FALSE)
        /\ UNCHANGED <<inputs, files, resume, jobs, base, records, pointer, requests>>
    BY <1>3 DEF Finalize
  <2>2. [type |-> "PASS"] \in Continuations \cup Ends
    BY DEF Ends
  <2>3. events' \in Seq(Continuations \cup Ends)
    BY <2>1, <2>2 DEF TypeOK
  <2> QED BY <2>1, <2>3 DEF TypeOK, Go
<1> QED BY <1>2, <1>3

\* A verdict, and on what there is one.
LEMMA VerdictType ==
  ASSUME NEW verdict \in Judgements
  PROVE  /\ verdict[1] \in BOOLEAN /\ verdict[2] \in Outcomes
         /\ verdict[2] # "ERROR" => Work \in Works
<1>1. CASE Work \in Works
  <2>1. verdict \in BOOLEAN \X Outcomes
    BY <1>1, WorkAssumption DEF Judgements
  <2> QED BY <1>1, <2>1
<1>2. CASE Work \notin Works
  <2>1. verdict = <<FALSE, "ERROR">>
    BY <1>2 DEF Judgements
  <2> QED BY <2>1
<1> QED BY <1>1, <1>2

\* Types: the verdict.
LEMMA JudgeTypes ==
  ASSUME TypeOK, NEW verdict \in Judgements, Judge(verdict),
         UNCHANGED <<kind, crashes, edits, answered>>, acts' \in Nat
  PROVE  TypeOK'
<1> DEFINE noted == notes \/ verdict[1]
<1>0. noted \in BOOLEAN /\ verdict[2] \in Outcomes /\ (verdict[2] # "ERROR" => Work \in Works)
  BY VerdictType DEF TypeOK
<1>1. CASE verdict[2] = "ERROR"
  <2>1. RequestRecovery("ERROR", noted) /\ UNCHANGED durable
    BY <1>1 DEF Judge
  <2> HIDE DEF noted
  <2> QED BY <1>0, <2>1, RecoveryTypes
<1>2. CASE verdict[2] \in Observations
  <2>1. Continue(verdict[2], noted)
    BY <1>2 DEF Judge
  <2> HIDE DEF noted
  <2> QED BY <1>0, <1>2, <2>1, ContinueTypes
<1>3. CASE verdict[2] \in {"DONE", "FINDINGS"}
  <2>1. Finalize(verdict[2] = "FINDINGS", noted)
    BY <1>3 DEF Judge
  <2>2. (verdict[2] = "FINDINGS") \in BOOLEAN
    OBVIOUS
  <2> HIDE DEF noted
  <2> QED BY <1>0, <1>3, <2>1, <2>2, FinalizeTypes
<1> QED BY <1>0, <1>1, <1>2, <1>3

\* Types: the gate.
LEMMA GateTypes ==
  ASSUME TypeOK, Gate
  PROVE  TypeOK'
<1> USE DEF Goto, Go, Hold
<1>0. UNCHANGED <<kind, crashes, edits, answered>> /\ acts' \in Nat /\ notes \in BOOLEAN
  BY DEF Gate, TypeOK
<1>1. CASE StartStage
  BY <1>0, <1>1 DEF StartStage, TypeOK
<1>2. CASE BeginTurn
  BY <1>0, <1>2 DEF BeginTurn, TypeOK
<1>3. CASE \E verdict \in Judgements : Judge(verdict)
  BY <1>0, <1>3, JudgeTypes
<1>4. CASE Goto("blocked") /\ UNCHANGED durable
  BY <1>0, <1>4 DEF TypeOK, durable
<1>5. CASE \E outcome \in Reworks : Rework(outcome)
  <2>1. CASE RequestRecovery("REWORK", notes) /\ UNCHANGED durable
    BY <1>0, <2>1, RecoveryTypes
  <2>2. CASE Goto("blocked") /\ UNCHANGED durable
    BY <1>0, <2>2 DEF TypeOK, durable
  <2>3. CASE /\ status' = "WAITING_FOR_USER" /\ Goto("loop")
             /\ UNCHANGED <<inputs, files, resume, jobs, base, records, pointer, requests, events,
                            published>>
    BY <1>0, <2>3 DEF TypeOK
  <2>4. CASE Reset /\ Goto("loop")
    BY <1>0, <2>4 DEF Reset, TypeOK
  <2> QED BY <1>5, <2>1, <2>2, <2>3, <2>4 DEF Rework
<1>6. CASE \E error \in Errors : RequestRecovery(error, notes) /\ UNCHANGED durable
  BY <1>0, <1>6, RecoveryTypes
<1>7. CASE Serve
  <2>1. Operation \in Findings
    BY DEF Operation, Findings
  <2>2. CASE Request(Operation, NoWork, TRUE, notes) /\ UNCHANGED durable
    BY <1>0, <2>1, <2>2, RequestTypes
  <2>3. CASE /\ requests' = requests \cup {<<Fingerprint(Operation), LatestJob>>}
             /\ Goto("ask") \/ RequestRecovery("ERROR", notes)
             /\ UNCHANGED <<status, inputs, files, resume, jobs, base, records, pointer, events,
                            published>>
    <3>1. requests' \subseteq Fingerprints \X Nat
      BY <2>1, <2>3, FingerprintType, LatestJobType DEF TypeOK
    <3>2. CASE Goto("ask")
      BY <1>0, <2>3, <3>1, <3>2 DEF TypeOK
    <3>3. CASE RequestRecovery("ERROR", notes)
      <4>1. /\ at' = "request" /\ held' = 0 /\ receipt' = <<>> /\ notes' \in BOOLEAN
            /\ payload' \in [findings : Findings, captured : Works \cup {NoWork}, forced : BOOLEAN]
        BY <1>0, <3>3, RecoveryShape DEF Errors
      <4> QED BY <1>0, <2>3, <3>1, <4>1 DEF TypeOK
    <3> QED BY <2>3, <3>2, <3>3
  <2> QED BY <1>7, <2>2, <2>3 DEF Serve
<1> QED BY <1>1, <1>2, <1>3, <1>4, <1>5, <1>6, <1>7 DEF Gate

-----------------------------------------------------------------------------
(* The other writes, crashes and the operator.                             *)

\* The record that is about to be written.
Written ==
  LET fingerprint == Fingerprint(payload.findings)
  IN  [inputs |-> inputs, captured |-> payload.captured,
       findings |-> payload.findings, after |-> LatestJob,
       fingerprint |-> fingerprint,
       paused |-> payload.forced \/ PausedBy(fingerprint)]

\* The record _request writes is one, and not torn.
LEMMA WrittenType ==
  ASSUME TypeOK, at = "request"
  PROVE  Written \in Records /\ Written # Torn
<1>1. payload.findings \in Findings /\ payload.captured \in Works \cup {NoWork} /\ payload.forced \in BOOLEAN
  BY DEF TypeOK
<1>2. Fingerprint(payload.findings) \in Fingerprints /\ inputs \in Inputs /\ LatestJob \in Nat
  BY <1>1, FingerprintType, LatestJobType DEF TypeOK
<1>3. (payload.forced \/ PausedBy(Fingerprint(payload.findings))) \in BOOLEAN
  OBVIOUS
<1>4. Written \in Records
  BY <1>1, <1>2, <1>3 DEF Written, Records
<1> QED BY <1>4, TornAssumption

\* A write of a record: it is torn records alone that prevent it.
LEMMA WriteEffect ==
  ASSUME TypeOK, WriteRecord
  PROVE  /\ at = "request"
         /\ UNCHANGED <<bounds, answered, status, inputs, files, resume, jobs, base, pointer,
                        requests, events, published>>
         /\ \/ Goto("stopped") /\ records' = records /\ \E i \in DOMAIN records : records[i] = Torn
            \/ /\ Goto("point") /\ records' = Append(records, Written)
               /\ \A i \in DOMAIN records : records[i] # Torn
BY DEF WriteRecord, Written, Stop, durable

\* Types: the write of a record.
LEMMA WriteTypes ==
  ASSUME TypeOK, WriteRecord
  PROVE  TypeOK'
<1>0. /\ UNCHANGED <<answered, status, inputs, files, resume, jobs, base, pointer, requests,
                     events, published>>
      /\ UNCHANGED <<kind, crashes, edits, acts>>
  BY WriteEffect DEF bounds
<1>1. CASE Goto("stopped") /\ records' = records
  BY <1>0, <1>1 DEF Goto, Go, TypeOK, Places
<1>2. CASE Goto("point") /\ records' = Append(records, Written)
  <2>1. /\ records \in Seq(Records \cup {Torn}) /\ Written \in Records \cup {Torn} /\ at = "request"
        /\ Len(records) \in Nat /\ DOMAIN records = 1 .. Len(records) /\ pointer \in 0..Len(records)
    BY WriteEffect, WrittenType DEF TypeOK
  <2>2. records' \in Seq(Records \cup {Torn}) /\ Len(records') = Len(records) + 1
        /\ \A i \in DOMAIN records : records'[i] = records[i]
    BY <1>2, <2>1, AppendProperties
  <2> HIDE DEF Written
  <2>3. pointer' \in 0..Len(records') /\ (pointer' # 0 => records'[pointer'] # Torn)
    <3>1. pointer' = pointer /\ (pointer # 0 => pointer \in DOMAIN records /\ records[pointer] # Torn)
      BY <1>0, <2>1 DEF TypeOK
    <3> QED BY <2>1, <2>2, <3>1
  <2>4. /\ at' = "point" /\ held' = 0 /\ notes' \in BOOLEAN /\ receipt' = <<>> /\ payload' = <<>>
        /\ at' \in Places /\ 0 \in 0..Len(records')
    BY <1>2, <2>1, <2>2 DEF Goto, Go, Places, TypeOK
  <2> QED BY <1>0, <2>2, <2>3, <2>4 DEF TypeOK
<1> QED BY <1>1, <1>2, WriteEffect

\* Types: a crash, which may leave a torn record.
LEMMA CrashTypes ==
  ASSUME TypeOK, Crash
  PROVE  TypeOK'
<1> USE DEF Goto, Go
<1>1. records' \in Seq(Records \cup {Torn}) /\ Len(records') >= Len(records)
      /\ \A i \in DOMAIN records : records'[i] = records[i]
  <2>1. CASE records' = records
    BY <2>1 DEF TypeOK
  <2>2. CASE records' = Append(records, Torn)
    <3>1. records \in Seq(Records \cup {Torn}) /\ Torn \in Records \cup {Torn}
      BY DEF TypeOK
    <3> QED BY <2>2, <3>1, AppendProperties
  <2> QED BY <2>1, <2>2 DEF Crash
<1>2. files' \in Works /\ edits' \in Nat /\ crashes' \in Nat
  BY DEF Crash, LeaveFiles, TypeOK
<1>3. /\ UNCHANGED <<status, inputs, resume, jobs, base, pointer, requests, events, published,
                     kind, acts, answered>>
      /\ at' = "stopped" /\ held' = 0 /\ notes' \in BOOLEAN /\ receipt' = <<>> /\ payload' = <<>>
  BY DEF Crash
<1>4. pointer' \in 0..Len(records') /\ (pointer' # 0 => records'[pointer'] # Torn)
  <2>1. /\ pointer \in 0..Len(records) /\ (pointer # 0 => records[pointer] # Torn)
        /\ Len(records) \in Nat /\ DOMAIN records = 1..Len(records) /\ Len(records') \in Nat
    BY <1>1 DEF TypeOK
  <2> QED BY <1>1, <1>3, <2>1
<1>5. 0 \in 0..Len(records')
  BY <1>1
<1> QED BY <1>1, <1>2, <1>3, <1>4, <1>5 DEF TypeOK, Places

\* Types: the acts of the operator and of other stages.
LEMMA InterveneTypes ==
  ASSUME TypeOK, AtWork, Intervene
  PROVE  TypeOK'
<1>0. held = 0 /\ acts' \in Nat /\ UNCHANGED <<controller, kind, crashes, answered>>
  BY DEF Intervene, AtWork, TypeOK
<1>1. CASE RecoveryResume
  BY <1>0, <1>1 DEF RecoveryResume, TypeOK, controller
<1>2. CASE Reopen
  <2>1. [type |-> "REOPENED"] \in Continuations \cup Ends
    BY DEF Ends
  <2>2. events' \in Seq(Continuations \cup Ends)
    BY <1>2, <2>1 DEF Reopen, TypeOK
  <2> QED BY <1>0, <1>2, <2>2 DEF Reopen, TypeOK, controller
<1>3. CASE Answer
  BY <1>0, <1>3 DEF Answer, TypeOK, controller
<1>4. CASE Edit
  BY <1>0, <1>4 DEF Edit, LeaveFiles, TypeOK, controller
<1>5. CASE Reset /\ UNCHANGED edits
  BY <1>0, <1>5 DEF Reset, TypeOK, controller
<1> QED BY <1>1, <1>2, <1>3, <1>4, <1>5 DEF Intervene

\* Every step keeps the types.
LEMMA StepTypes ==
  ASSUME TypeOK, AtWork, [Next]_vars
  PROVE  TypeOK'
<1>1. CASE UNCHANGED vars
  BY <1>1 DEF vars, durable, controller, bounds, TypeOK
<1>2. CASE Next
  BY <1>2, MoveTypes, TurnTypes, RecordTypes, DecideTypes, GateTypes, WriteTypes, CrashTypes,
     InterveneTypes DEF Next, Controller
<1> QED BY <1>1, <1>2

-----------------------------------------------------------------------------
(* What is pending and in hand.                                            *)

\* The latest job is read from the jobs and where the attempt begins.
LEMMA LatestJobKept ==
  ASSUME UNCHANGED <<jobs, base>>
  PROVE  LatestJob' = LatestJob
BY DEF LatestJob

\* What is in hand is what is pending, at every place of the controller.
LEMMA StepAtWork ==
  ASSUME TypeOK, AtWork, Recorded, Next
  PROVE  AtWork'
<1> USE LatestJobKept DEF Goto, Go, Hold, durable, controller, bounds
<1>1. CASE StartController
  BY <1>1 DEF StartController, AtWork
<1>2. CASE Rest
  BY <1>2 DEF Rest, Stop, AtWork
<1>3. CASE TakePending
  BY <1>3 DEF TakePending, PendingStands, AtWork
<1>4. CASE Act
  BY <1>4 DEF Act, AtWork
<1>5. CASE RecordJob
  <2>1. CASE receipt.decision = "none"
    <3>1. RequestRecovery("UNSUBMITTED", notes) /\ UNCHANGED durable /\ notes \in BOOLEAN
      BY <1>5, <2>1 DEF RecordJob, TypeOK
    <3> QED BY <3>1, RecoveryShape DEF AtWork
  <2>2. CASE receipt.decision # "none"
    <3>1. PICK job : jobs' = Append(jobs, job) /\ job.bound = FALSE
      BY <1>5, <2>2 DEF RecordJob
    <3>2. Len(jobs') = Len(jobs) + 1 /\ jobs'[Len(jobs) + 1] = job
      BY <3>1 DEF TypeOK
    <3>3. LatestJob' = Len(jobs) + 1
      BY <1>5, <2>2, <3>2 DEF RecordJob, LatestJob, TypeOK
    <3>4. held # 0 => ~(LatestJob' <= records[held].after)
      BY <3>3, PendingType DEF TypeOK, Recorded, IsRecord, Records
    <3> QED BY <1>5, <2>2, <3>2, <3>3, <3>4 DEF RecordJob, AtWork, MustAsk, TypeOK
  <2> QED BY <2>1, <2>2
<1>6. CASE BindJob
  BY <1>6, LatestJobType DEF BindJob, AtWork, LatestJob, TypeOK, MustAsk
<1>7. CASE Decide
  <2>1. CASE MustAsk
    BY <1>7, <2>1 DEF Decide, BeginTurn, AtWork, MustAsk
  <2>2. CASE ~MustAsk
    <3>1. LatestJob # 0
      BY <1>7, <2>2, PendingType DEF Decide, AtWork, MustAsk, TypeOK, Records, LatestJob
    <3>2. CASE RequestRecovery("UNBOUND", notes) /\ UNCHANGED durable
      BY <3>2, RecoveryShape DEF AtWork, TypeOK
    <3>3. CASE ClearAndAct
      BY <1>7, <3>3 DEF Decide, ClearAndAct, AtWork
    <3>4. CASE Route(FALSE)
      BY <1>7, <3>4 DEF Decide, Route, Accept, ClearAndAct, AtWork
    <3>5. CASE /\ jobs' = [jobs EXCEPT ![LatestJob].frozen = TRUE]
               /\ Hold("frozen")
               /\ UNCHANGED <<status, inputs, files, resume, base, records, pointer,
                              requests, events, published>>
      <4>1. Len(jobs') = Len(jobs) /\ LatestJob' = LatestJob
        BY <3>1, <3>5, JobWritten, LatestJobType DEF LatestJob
      <4> QED BY <1>7, <2>2, <3>1, <3>5, <4>1 DEF Decide, AtWork, MustAsk
    <3> QED BY <1>7, <2>2, <3>2, <3>3, <3>4, <3>5 DEF Decide
  <2> QED BY <2>1, <2>2
<1>8. CASE RouteReport
  <2>1. CASE RequestRecovery("REWORK", notes) /\ UNCHANGED durable
    BY <2>1, RecoveryShape DEF AtWork, TypeOK
  <2>2. CASE ~(RequestRecovery("REWORK", notes) /\ UNCHANGED durable)
    BY <1>8, <2>2 DEF RouteReport, Route, Accept, ClearAndAct, AtWork
  <2> QED BY <2>1, <2>2
<1>9. CASE ClearAccepted \/ Block
  BY <1>9 DEF ClearAccepted, Block, AtWork
<1>10. CASE Gate
  <2>0. pointer = 0
    BY <1>10 DEF Gate, AtWork
  <2>1. CASE at' = "request"
    <3>1. held' = 0
      BY <1>10, <2>1 DEF Gate, StartStage, BeginTurn, Judge, Continue, Finalize, Rework, Serve,
                         RequestRecovery, Request
    <3> QED BY <2>1, <3>1 DEF AtWork
  <2>2. CASE at' # "request"
    <3>1. pointer' = 0 /\ at' \in {"gate", "ask", "turn", "blocked", "loop"} /\ held' \in {0, held}
      BY <1>10, <2>0, <2>2 DEF Gate, StartStage, BeginTurn, Judge, Continue, Finalize, Rework, Serve,
                         RequestRecovery, Request, Reset
    <3>2. at' = "loop" \/ status' \in {"READY", "RUNNING"}
      BY <1>10, <2>2 DEF Gate, StartStage, BeginTurn, Judge, Continue, Finalize, Rework, Serve,
                         RequestRecovery, Request, Reset, AtWork
    <3> QED BY <2>0, <3>1, <3>2, <1>10 DEF AtWork, Gate, TypeOK
  <2> QED BY <2>1, <2>2
<1>11. CASE AskAgain
  BY <1>11 DEF AskAgain, BeginTurn, AtWork
<1>12. CASE WriteRecord
  <2>1. CASE Goto("stopped")
    BY <2>1, WriteEffect DEF AtWork
  <2>2. CASE Goto("point") /\ records' = Append(records, Written)
    <3>1. Len(records') = Len(records) + 1 /\ records'[Len(records) + 1] # Torn
          /\ Len(records) + 1 \in DOMAIN records'
      BY <1>12, <2>2, WriteEffect, WrittenType DEF TypeOK
    <3> QED BY <2>2, <3>1 DEF AtWork, IsRecord
  <2> QED BY <1>12, <2>1, <2>2, WriteEffect
<1>13. CASE PointAtRecord
  BY <1>13 DEF PointAtRecord, AtWork
<1>14. CASE TurnEnds
  <2>1. ASSUME NEW decision \in Decisions[kind], NEW work \in Works, EndTurn(decision, work)
        PROVE  AtWork'
    BY <2>1 DEF EndTurn, AtWork, MustAsk
  <2>2. ASSUME NEW work \in Works, FailTurn(work)
        PROVE  AtWork'
    BY <2>2 DEF FailTurn, AtWork
  <2> QED BY <1>14, <2>1, <2>2 DEF TurnEnds
<1>15. CASE Crash
  BY <1>15 DEF Crash, AtWork
<1>16. CASE Intervene \/ Release
  BY <1>16 DEF Intervene, Release, AtWork, TypeOK
<1> QED BY <1>1, <1>2, <1>3, <1>4, <1>5, <1>6, <1>7, <1>8, <1>9, <1>10, <1>11, <1>12, <1>13,
           <1>14, <1>15, <1>16 DEF Next, Controller

-----------------------------------------------------------------------------
(* What a step does to the jobs and to the records.                        *)

Submitted ==
  /\ at = "turned" /\ at' = "job"
  /\ \E job \in Jobs : ~job.bound /\ jobs' = Append(jobs, job)
  /\ UNCHANGED <<records, base>>

Bound ==
  /\ at = "job" /\ at' \in {"gate", "decide"}
  /\ jobs' = [jobs EXCEPT ![Len(jobs)].bound = TRUE]
  /\ UNCHANGED <<records, base>>

Frozen ==
  /\ at = "decide" /\ at' = "frozen" /\ LatestJob # 0
  /\ jobs' = [jobs EXCEPT ![Len(jobs)].frozen = TRUE]
  /\ UNCHANGED <<records, base>>

Tears ==
  /\ at = "request" /\ at' = "stopped"
  /\ records' = Append(records, Torn)
  /\ UNCHANGED jobs

Writes ==
  /\ at = "request" /\ at' = "point"
  /\ records' = Append(records, Written)
  /\ \A i \in DOMAIN records : records[i] # Torn
  /\ UNCHANGED <<jobs, base>>

\* A step adds or writes one job, or adds one record, or does neither.
LEMMA Effects ==
  ASSUME TypeOK, AtWork, Next
  PROVE  \/ UNCHANGED <<jobs, records>> /\ at' # "job"
         \/ Submitted \/ Bound \/ Frozen \/ Tears \/ Writes
<1> USE DEF Goto, Go, Hold, durable, controller, bounds
<1>1. CASE \/ StartController \/ Rest \/ TakePending \/ Act \/ ClearAccepted \/ Block \/ AskAgain
           \/ PointAtRecord \/ Intervene \/ Release
  BY <1>1 DEF StartController, Rest, Stop, TakePending, Act, ClearAccepted, Block, AskAgain, BeginTurn,
              PointAtRecord, Intervene, RecoveryResume, Reopen, Answer, Edit, Reset, Release
<1>2. CASE RecordJob
  <2>1. CASE receipt.decision = "none"
    BY <1>2, <2>1, RecoveryShape DEF RecordJob, TypeOK
  <2>2. CASE receipt.decision # "none"
    <3> DEFINE job == [decision |-> receipt.decision, proposal |-> receipt.proposal,
                       bound |-> FALSE, frozen |-> FALSE]
    <3>1. job \in Jobs /\ ~job.bound /\ jobs' = Append(jobs, job)
      BY <1>2, <2>2 DEF RecordJob, TypeOK, Jobs
    <3> QED BY <1>2, <2>2, <3>1 DEF RecordJob, Submitted
  <2> QED BY <2>1, <2>2
<1>3. CASE BindJob
  BY <1>3 DEF BindJob, Bound
<1>4. CASE Decide
  <2>1. CASE MustAsk
    BY <1>4, <2>1 DEF Decide, BeginTurn
  <2>2. CASE ~MustAsk
    <3>1. LatestJob = Len(jobs) /\ LatestJob # 0
      BY <1>4, <2>2, PendingType, LatestJobType DEF Decide, AtWork, MustAsk, TypeOK, Records, LatestJob
    <3>2. CASE RequestRecovery("UNBOUND", notes) /\ UNCHANGED durable
      BY <3>2, RecoveryShape DEF TypeOK
    <3>3. CASE ClearAndAct
      BY <3>3 DEF ClearAndAct
    <3>4. CASE Route(FALSE)
      BY <3>4 DEF Route, Accept, ClearAndAct
    <3>5. CASE /\ jobs' = [jobs EXCEPT ![LatestJob].frozen = TRUE]
               /\ Hold("frozen")
               /\ UNCHANGED <<status, inputs, files, resume, base, records, pointer,
                              requests, events, published>>
      BY <1>4, <3>1, <3>5 DEF Decide, Frozen
    <3> QED BY <1>4, <2>2, <3>2, <3>3, <3>4, <3>5 DEF Decide
  <2> QED BY <2>1, <2>2
<1>5. CASE RouteReport
  <2>1. CASE RequestRecovery("REWORK", notes) /\ UNCHANGED durable
    BY <2>1, RecoveryShape DEF TypeOK
  <2>2. CASE ~(RequestRecovery("REWORK", notes) /\ UNCHANGED durable)
    BY <1>5, <2>2 DEF RouteReport, Route, Accept, ClearAndAct
  <2> QED BY <2>1, <2>2
<1>6. CASE Gate
  BY <1>6 DEF Gate, StartStage, BeginTurn, Judge, Continue, Finalize, Rework, Serve,
              RequestRecovery, Request, Reset
<1>7. CASE WriteRecord
  BY <1>7, WriteEffect DEF Writes
<1>8. CASE TurnEnds
  BY <1>8 DEF TurnEnds, EndTurn, FailTurn, LeaveFiles
<1>9. CASE Crash
  BY <1>9 DEF Crash, Tears
<1> QED BY <1>1, <1>2, <1>3, <1>4, <1>5, <1>6, <1>7, <1>8, <1>9 DEF Next, Controller

\* Records are only added.
LEMMA RecordsKept ==
  ASSUME TypeOK, AtWork, Next
  PROVE  /\ Len(records') >= Len(records) /\ Len(records') <= Len(records) + 1
         /\ \A i \in DOMAIN records : i \in DOMAIN records' /\ records'[i] = records[i]
<1>0. records \in Seq(Records \cup {Torn})
  BY DEF TypeOK
<1>1. CASE records' = records
  BY <1>0, <1>1
<1>2. CASE Tears
  BY <1>0, <1>2, AppendProperties DEF Tears
<1>3. CASE Writes
  <2>1. Written \in Records \cup {Torn}
    BY <1>3, WrittenType DEF Writes
  <2> QED BY <1>0, <1>3, <2>1, AppendProperties DEF Writes
<1> QED BY <1>1, <1>2, <1>3, Effects DEF Submitted, Bound, Frozen

\* A record that was not there before is the one just written.
LEMMA NewRecord ==
  ASSUME TypeOK, AtWork, Next, NEW i \in DOMAIN records', records'[i] # Torn
  PROVE  \/ i \in DOMAIN records /\ IsRecord(i) /\ records'[i] = records[i]
         \/ Writes /\ i = Len(records) + 1 /\ records'[i] = Written
<1>0. records \in Seq(Records \cup {Torn})
  BY DEF TypeOK
<1>1. CASE i \in DOMAIN records
  BY <1>1, RecordsKept DEF IsRecord
<1>2. CASE i \notin DOMAIN records
  <2>0. records' \in Seq(Records \cup {Torn})
    BY StepTypes DEF TypeOK
  <2>1. i = Len(records) + 1 /\ records' # records
    BY <1>0, <1>2, <2>0, RecordsKept
  <2>2. CASE Tears
    BY <1>0, <2>1, <2>2, AppendProperties DEF Tears
  <2>3. CASE Writes
    <3>1. Written \in Records \cup {Torn}
      BY <2>3, WrittenType DEF Writes
    <3>2. records'[i] = Written
      BY <1>0, <2>1, <2>3, <3>1, AppendProperties DEF Writes
    <3> QED BY <2>1, <2>3, <3>2
  <2> QED BY <2>1, <2>2, <2>3, Effects DEF Submitted, Bound, Frozen
<1> QED BY <1>1, <1>2

\* Jobs are only added, and written at the end.
LEMMA JobsKept ==
  ASSUME TypeOK, AtWork, Next
  PROVE  /\ Len(jobs') >= Len(jobs) /\ (at' = "job" => Len(jobs') = Len(jobs) + 1)
         /\ \A i \in 1..Len(jobs) :
              /\ jobs'[i].decision = jobs[i].decision
              /\ jobs'[i].proposal = jobs[i].proposal
              /\ at # "job" => jobs'[i].bound = jobs[i].bound
              /\ i < Len(jobs) => jobs'[i] = jobs[i]
<1>0. jobs \in Seq(Jobs)
  BY DEF TypeOK
<1>1. CASE UNCHANGED jobs /\ at' # "job"
  BY <1>0, <1>1
<1>2. CASE Submitted
  <2>1. PICK job \in Jobs : jobs' = Append(jobs, job)
    BY <1>2 DEF Submitted
  <2> QED BY <1>0, <2>1, AppendProperties
<1>3. CASE Bound
  <2>1. LatestJob # 0
    BY <1>3 DEF Bound, AtWork
  <2>2. /\ jobs' \in Seq(Jobs) /\ Len(jobs') = Len(jobs)
        /\ \A i \in 1..Len(jobs) :
              /\ i # Len(jobs) => jobs'[i] = jobs[i]
              /\ jobs'[i].decision = jobs[i].decision
              /\ jobs'[i].proposal = jobs[i].proposal
    BY <1>3, <2>1, JobWritten DEF Bound
  <2>3. at = "job" /\ at' # "job"
    BY <1>3 DEF Bound
  <2> QED BY <1>0, <2>2, <2>3
<1>4. CASE Frozen
  <2>1. Len(jobs) \in DOMAIN jobs /\ jobs[Len(jobs)] \in Jobs
    BY <1>4, LatestJobType DEF Frozen
  <2>2. jobs'[Len(jobs)].bound = jobs[Len(jobs)].bound
    BY <1>0, <1>4, <2>1 DEF Frozen, Jobs
  <2>3. /\ jobs' \in Seq(Jobs) /\ Len(jobs') = Len(jobs)
        /\ \A i \in 1..Len(jobs) :
              /\ i # Len(jobs) => jobs'[i] = jobs[i]
              /\ jobs'[i].decision = jobs[i].decision
              /\ jobs'[i].proposal = jobs[i].proposal
    BY <1>4, JobWritten DEF Frozen
  <2> QED BY <1>0, <1>4, <2>2, <2>3 DEF Frozen
<1> QED BY <1>1, <1>2, <1>3, <1>4, Effects DEF Tears, Writes

\* No record is ahead of the jobs.
LEMMA StepRecorded ==
  ASSUME TypeOK, AtWork, Recorded, Next
  PROVE  Recorded'
<1>a. TypeOK'
  BY StepTypes
<1>b. jobs \in Seq(Jobs) /\ records \in Seq(Records \cup {Torn})
  BY DEF TypeOK
<1>c. jobs' \in Seq(Jobs) /\ records' \in Seq(Records \cup {Torn})
  BY <1>a DEF TypeOK
<1>0. /\ jobs \in Seq(Jobs) /\ records \in Seq(Records \cup {Torn}) /\ Len(jobs) \in Nat
      /\ Len(jobs') \in Nat
  BY <1>b, <1>c, LenProperties
<1>1. ASSUME NEW i \in DOMAIN records', records'[i] # Torn
      PROVE  records'[i].after <= Len(jobs') /\ (at' = "job" => records'[i].after < Len(jobs'))
  <2>1. CASE i \in DOMAIN records /\ IsRecord(i) /\ records'[i] = records[i]
    <3>1. records[i].after <= Len(jobs) /\ records[i].after \in Nat
      BY <1>0, <2>1 DEF Recorded, IsRecord, Records
    <3> QED BY <1>0, <2>1, <3>1, JobsKept
  <2>2. CASE Writes /\ records'[i] = Written
    BY <1>0, <2>2, LatestJobType DEF Writes, Written
  <2> QED BY <1>1, <2>1, <2>2, NewRecord
<1> QED BY <1>1 DEF Recorded, IsRecord

-----------------------------------------------------------------------------
(* No turn, and no record, past a blocker.                                 *)

\* A stage stays of its kind.
LEMMA KindKept == ASSUME Next PROVE kind' = kind
BY DEF Next, StartController, Controller, Rest, TakePending, Act, RecordJob, BindJob, Decide, RouteReport,
       ClearAccepted, Block, Gate, AskAgain, WriteRecord, PointAtRecord, TurnEnds, EndTurn, FailTurn, Crash,
       Intervene, Release, bounds

\* What leads to a turn or to a record finds no blocker as the latest job.
LEMMA HeededOnTheWay ==
  ASSUME TypeOK, AtWork, Recorded, BlockersSeen, ~Static, Next,
         at' \in {"turn", "turned", "request", "ask"}
  PROVE  UNCHANGED <<jobs, base>> /\ Heeded
<1> USE DEF Goto, Go, Hold, durable, controller, bounds
<1>1. CASE RecordJob
  <2>1. receipt.decision = "none" /\ at = "turned" /\ UNCHANGED durable
    BY <1>1 DEF RecordJob
  <2> QED BY <2>1 DEF BlockersSeen
<1>2. CASE Decide
  <2>1. CASE MustAsk
    <3>1. UNCHANGED <<jobs, base>>
      BY <1>2, <2>1 DEF Decide, BeginTurn
    <3>2. ASSUME LatestJob # 0
          PROVE  ~IsBlocker(jobs[LatestJob])
      <4>1. held \in DOMAIN records /\ IsRecord(held) /\ records[held].after \in Nat
        BY <1>2, PendingType DEF Decide, AtWork, TypeOK, IsRecord, Records
      <4>2. records[held].after = LatestJob
        BY <2>1, <3>2, <4>1, LatestJobType DEF MustAsk, Recorded, TypeOK
      <4> QED BY <3>2, <4>1, <4>2 DEF BlockersSeen
    <3> QED BY <3>1, <3>2 DEF Heeded
  <2>2. CASE ~MustAsk
    <3>1. ~jobs[LatestJob].bound /\ UNCHANGED durable
      BY <1>2, <2>2 DEF Decide, ClearAndAct, Route, Accept
    <3> QED BY <3>1 DEF Heeded, IsBlocker
  <2> QED BY <2>1, <2>2
<1>3. CASE RouteReport
  BY <1>3 DEF RouteReport, Route, Accept, ClearAndAct
<1>4. CASE Gate
  <2>1. CASE LatestJob = 0
    <3>1. BeginTurn
      BY <1>4, <2>1 DEF Gate
    <3> QED BY <2>1, <3>1 DEF BeginTurn, Heeded
  <2>2. CASE LatestJob # 0
    <3>1. ~IsBlocker(jobs[LatestJob])
      BY <1>4, <2>2 DEF Gate, IsBlocker
    <3>2. UNCHANGED <<jobs, base>>
      BY <1>4, <2>2 DEF Gate, Judge, Continue, Finalize, Rework, Serve, Request, RequestRecovery, Reset
    <3> QED BY <3>1, <3>2 DEF Heeded
  <2> QED BY <2>1, <2>2
<1>5. CASE AskAgain
  BY <1>5 DEF AskAgain, BeginTurn, BlockersSeen
<1>6. CASE TurnEnds
  BY <1>6 DEF TurnEnds, EndTurn, FailTurn, BlockersSeen
<1>7. CASE \/ StartController \/ Rest \/ TakePending \/ Act \/ BindJob \/ ClearAccepted \/ Block
           \/ WriteRecord \/ PointAtRecord \/ Crash \/ Intervene \/ Release
  BY <1>7 DEF StartController, Rest, Stop, TakePending, Act, BindJob, ClearAccepted, Block, WriteRecord,
              PointAtRecord, Crash, Intervene, Release, AtWork
<1> QED BY <1>1, <1>2, <1>3, <1>4, <1>5, <1>6, <1>7 DEF Next, Controller

\* No step puts a turn or a record past a blocker.
LEMMA StepBlockersSeen ==
  ASSUME TypeOK, AtWork, Recorded, BlockersSeen, Next
  PROVE  BlockersSeen'
<1> SUFFICES ASSUME ~Static
             PROVE  BlockersSeen'
  BY KindKept DEF BlockersSeen, Static
<1>1. ASSUME at' \in {"turn", "turned", "request", "ask"}
      PROVE  Heeded'
  BY <1>1, HeededOnTheWay DEF Heeded, LatestJob, IsBlocker
<1>2. ASSUME NEW i \in DOMAIN records', records'[i] # Torn, records'[i].after # 0
      PROVE  ~IsBlocker(jobs'[records'[i].after])
  <2>1. CASE i \in DOMAIN records /\ IsRecord(i) /\ records'[i] = records[i]
    <3> DEFINE job == records[i].after
    <3>1. job \in 1..Len(jobs) /\ (at = "job" => job < Len(jobs))
      BY <1>2, <2>1 DEF Recorded, IsRecord, Records, TypeOK
    <3>2. jobs'[job].decision = jobs[job].decision /\ jobs'[job].bound = jobs[job].bound
      BY <3>1, JobsKept
    <3>3. ~IsBlocker(jobs[job])
      BY <1>2, <2>1 DEF BlockersSeen
    <3> QED BY <2>1, <3>2, <3>3 DEF IsBlocker
  <2>2. CASE Writes /\ records'[i] = Written
    <3>1. records'[i].after = LatestJob /\ UNCHANGED jobs /\ at = "request"
      BY <2>2 DEF Writes, Written
    <3> QED BY <1>2, <3>1 DEF BlockersSeen, Heeded
  <2> QED BY <1>2, <2>1, <2>2, NewRecord
<1> QED BY <1>1, <1>2 DEF BlockersSeen, IsRecord

-----------------------------------------------------------------------------
(* The gate asks again only after it has judged.                           *)

\* The gate comes to ask again with a continuation or a served request.
LEMMA StepJudgedBefore ==
  ASSUME TypeOK, AtWork, Next
  PROVE  JudgedBefore'
<1> USE DEF Goto, Go, Hold, durable, controller, bounds
<1> SUFFICES ASSUME at' = "ask"
             PROVE  Judged(LatestJob)'
  BY DEF JudgedBefore
<1>1. Gate
  BY DEF Next, StartController, Controller, Rest, Stop, TakePending, Act, RecordJob, RequestRecovery, Request,
         BindJob, Decide, RouteReport, Route, Accept, ClearAndAct, BeginTurn, ClearAccepted, Block, AskAgain,
         WriteRecord, PointAtRecord, TurnEnds, EndTurn, FailTurn, Crash, Intervene, Release, AtWork
<1>2. \/ Serve
      \/ \E observation \in Observations : \E noted : Continue(observation, noted)
  BY <1>1 DEF Gate, StartStage, BeginTurn, Judge, Finalize, Rework, Request, RequestRecovery
<1>3. CASE Serve
  <2>1. /\ requests' = requests \cup {<<Fingerprint(Operation), LatestJob>>}
        /\ UNCHANGED <<jobs, base>>
    BY <1>3 DEF Serve, Request
  <2>2. PICK request \in requests' : request[2] = LatestJob
    <3> DEFINE new == <<Fingerprint(Operation), LatestJob>>
    <3>1. new \in requests' /\ new[2] = LatestJob
      BY <2>1
    <3> QED BY <3>1
  <2> QED BY <2>1, <2>2, LatestJobKept DEF Judged
<1>4. ASSUME NEW observation \in Observations, NEW noted, Continue(observation, noted)
      PROVE  Judged(LatestJob)'
  <2>0. UNCHANGED <<jobs, base>> /\ LatestJob' = LatestJob
    BY <1>4, LatestJobKept DEF Continue
  <2>1. CASE Replayed(Observation(observation))
    <3>1. events' = events
      BY <1>4, <2>1 DEF Continue, Observation
    <3>2. /\ Len(events) \in DOMAIN events /\ events[Len(events)].type = "CONTINUATION"
          /\ events[Len(events)].job = LatestJob
      BY <2>1, LastOfEpisode DEF Replayed
    <3> QED BY <2>0, <3>1, <3>2 DEF Judged
  <2>2. CASE ~Replayed(Observation(observation))
    <3>1. events' = Append(events, Continuation(observation))
      BY <1>4, <2>2 DEF Continue, Continuation, Observation
    <3>2. /\ Continuation(observation) \in Continuations \cup Ends
          /\ Continuation(observation).type = "CONTINUATION" /\ Continuation(observation).job = LatestJob
      BY ContinuationType DEF Continuation
    <3>3. /\ events \in Seq(Continuations \cup Ends)
          /\ Len(events') \in DOMAIN events' /\ events'[Len(events')] = Continuation(observation)
      BY <3>1, <3>2, AppendProperties DEF TypeOK
    <3> QED BY <2>0, <3>2, <3>3 DEF Judged
  <2> QED BY <2>1, <2>2
<1> QED BY <1>2, <1>3, <1>4

-----------------------------------------------------------------------------
(* Captured outputs.                                                       *)

\* Work does not change between a check and the record of what it captured.
LEMMA StepCaptured ==
  ASSUME TypeOK, AtWork, Captured, Next
  PROVE  Captured'
<1> USE DEF Goto, Go, Hold, durable, controller, bounds
<1>1. ASSUME NEW i \in DOMAIN records', records'[i] # Torn,
             records'[i].captured # NoWork, ~Joined(records'[i])
      PROVE  records'[i].captured = records'[i].fingerprint[2]
  <2>1. CASE i \in DOMAIN records /\ IsRecord(i) /\ records'[i] = records[i]
    BY <1>1, <2>1 DEF Captured
  <2>2. CASE Writes /\ records'[i] = Written
    <3>1. /\ Written.captured = payload.captured /\ Written.findings = payload.findings
          /\ Written.fingerprint[2] = RepairInputs /\ at = "request"
      BY <2>2 DEF Writes, Written, Fingerprint
    <3>2. payload.captured # NoWork /\ ~Joined(payload)
      BY <1>1, <2>2, <3>1 DEF Joined
    <3> QED BY <2>2, <3>1, <3>2 DEF Captured
  <2> QED BY <1>1, <2>1, <2>2, NewRecord
<1>2. ASSUME at' = "request", payload'.captured # NoWork, ~Joined(payload')
      PROVE  payload'.captured = RepairInputs'
  <2>1. CASE \E error \in Errors, noted \in BOOLEAN : RequestRecovery(error, noted)
    BY <1>2, <2>1, RecoveryShape
  <2>2. CASE \E found, noted \in BOOLEAN : Finalize(found, noted)
    <3>1. payload'.captured = Work /\ UNCHANGED durable
      BY <1>2, <2>2 DEF Finalize, Request
    <3> QED BY <3>1, KindKept DEF Work, RepairInputs, Proposal, LatestJob
  <2>3. CASE Serve
    <3>1. CASE RequestRecovery("ERROR", notes)
      <4>1. notes \in BOOLEAN
        BY DEF TypeOK
      <4> QED BY <1>2, <3>1, <4>1, RecoveryShape DEF Errors
    <3>2. CASE ~RequestRecovery("ERROR", notes)
      BY <1>2, <2>3, <3>2 DEF Serve, Request
    <3> QED BY <3>1, <3>2
  <2>4. \/ \E error \in Errors, noted \in BOOLEAN : RequestRecovery(error, noted)
        \/ \E found, noted \in BOOLEAN : Finalize(found, noted)
        \/ Serve
    <3>0. notes \in BOOLEAN
      BY DEF TypeOK
    <3>1. CASE Gate
      <4>1. \/ \E verdict \in Judgements : Judge(verdict)
            \/ Serve
            \/ RequestRecovery("REWORK", notes) \/ RequestRecovery("UNBOUND", notes)
        BY <1>2, <3>1 DEF Gate, StartStage, BeginTurn, Rework
      <4>2. ASSUME NEW verdict \in Judgements, Judge(verdict)
            PROVE  \/ RequestRecovery("ERROR", notes \/ verdict[1])
                   \/ Finalize(verdict[2] = "FINDINGS", notes \/ verdict[1])
        BY <1>2, <4>2, VerdictType DEF Judge, Continue
      <4>3. \A verdict \in Judgements :
              (notes \/ verdict[1]) \in BOOLEAN /\ (verdict[2] = "FINDINGS") \in BOOLEAN
        BY <3>0
      <4> QED BY <3>0, <4>1, <4>2, <4>3
    <3>2. CASE RecordJob
      BY <1>2, <3>0, <3>2 DEF RecordJob
    <3>3. CASE Decide \/ RouteReport
      BY <1>2, <3>0, <3>3 DEF Decide, RouteReport, Route, Accept, ClearAndAct, BeginTurn
    <3> QED BY <1>2, <3>1, <3>2, <3>3 DEF Next, StartController, Controller, Rest, Stop, TakePending, Act,
              BindJob, ClearAccepted, Block, AskAgain, BeginTurn,
              WriteRecord, PointAtRecord, TurnEnds, EndTurn, FailTurn, Crash, Intervene, Release, AtWork
  <2> QED BY <2>1, <2>2, <2>3, <2>4
<1> QED BY <1>1, <1>2 DEF Captured, IsRecord

-----------------------------------------------------------------------------
(* What follows of the steps.                                              *)

Inv == TypeOK /\ AtWork /\ Recorded /\ BlockersSeen /\ JudgedBefore /\ Captured

\* The invariant holds at the start,
LEMMA InvInit == Init => Inv
<1> SUFFICES ASSUME Init PROVE Inv
  OBVIOUS
<1>1. at = "stopped" /\ held = 0 /\ records = <<>>
  BY DEF Init
<1> QED BY <1>1, InitTypes DEF Inv, AtWork, Recorded, BlockersSeen, JudgedBefore, Captured

\* and every step keeps it.
LEMMA InvStep == Inv /\ [Next]_vars => Inv'
<1> SUFFICES ASSUME Inv, [Next]_vars PROVE Inv'
  OBVIOUS
<1> USE DEF Inv
<1>1. CASE Next
  BY <1>1, StepTypes, StepAtWork, StepRecorded, StepBlockersSeen, StepJudgedBefore, StepCaptured
<1>2. CASE UNCHANGED vars
  BY <1>2, StepTypes
     DEF vars, durable, controller, bounds, AtWork, Recorded, IsRecord, BlockersSeen, Static, Heeded, IsBlocker,
         LatestJob, JudgedBefore, Judged, Captured, Joined, RepairInputs, Proposal, MustAsk
<1> QED BY <1>1, <1>2

\* So it holds in every state.
LEMMA Invariant == Spec => []Inv
<1>1. Inv /\ [Next]_vars => Inv'
  BY InvStep
<1> QED BY <1>1, InvInit, PTL DEF Spec

\* Every variable has its type, and the controller holds what is pending or nothing.
THEOREM TypeCorrect == Spec => []TypeOK
<1>1. Inv => TypeOK
  BY DEF Inv
<1> QED BY <1>1, Invariant, PTL

\* When a turn begins: in answer to a record, or because there is nothing to judge, or
\* because the gate asks again.
LEMMA TurnBegun ==
  ASSUME TypeOK, AtWork, Next, TurnBegins
  PROVE  \/ at = "decide" /\ MustAsk
         \/ LatestJob = 0
         \/ at = "ask"
<1> USE DEF Goto, Go, Hold, TurnBegins
<1>1. CASE Decide
  BY <1>1 DEF Decide, RequestRecovery, Request, Route, Accept, ClearAndAct
<1>2. CASE RouteReport
  BY <1>2 DEF RouteReport, RequestRecovery, Request, Route, Accept, ClearAndAct
<1>3. CASE Gate
  BY <1>3 DEF Gate, StartStage, Judge, Continue, Finalize, Rework, Serve, RequestRecovery, Request
<1> QED BY <1>1, <1>2, <1>3 DEF Next, StartController, Controller, Rest, Stop, TakePending, Act, RecordJob,
         RequestRecovery, Request,
         BindJob, ClearAccepted, Block, AskAgain,
         WriteRecord, PointAtRecord, TurnEnds, EndTurn, FailTurn, Crash, Intervene, Release, controller

\* A turn begins only when the latest answer of the attempt has been judged and the
\* judgement is on disk, wherever the run was stopped and started again (port.py, _checker_decision
\* and _codex_gate).
THEOREM AnswersNeverPaidTwice == Spec => NoAnswerPaidTwice
<1>1. ASSUME Inv, Next, TurnBegins
      PROVE  LatestJob = 0 \/ Judged(LatestJob)
  <2>1. CASE at = "decide" /\ MustAsk
    <3>1. held \in DOMAIN records /\ records[held] # Torn
      BY <1>1, <2>1 DEF Inv, TypeOK, AtWork
    <3>2. records[held].after >= LatestJob
      BY <1>1, <2>1, <3>1, LatestJobType DEF Inv, TypeOK, MustAsk, Records
    <3> QED BY <3>1, <3>2 DEF Judged
  <2>2. CASE at = "ask"
    BY <1>1, <2>2 DEF Inv, JudgedBefore
  <2> QED BY <1>1, <2>1, <2>2, TurnBegun DEF Inv
<1>2. ASSUME UNCHANGED vars
      PROVE  ~TurnBegins
  BY <1>2 DEF vars, controller, TurnBegins
<1>3. Inv /\ [Next]_vars => [TurnBegins => LatestJob = 0 \/ Judged(LatestJob)]_vars
  BY <1>1
<1> QED BY <1>3, Invariant, PTL DEF Spec, NoAnswerPaidTwice

\* A stage with a worker of its own does not answer a blocker with another turn.  In a
\* stage owned by the controller it may (port.py:301-315: a report found frozen is not routed).
THEOREM BlockersAlwaysHeeded ==
  ASSUME "static" \notin Kinds
  PROVE  Spec => BlockersHeeded
<1>1. ASSUME Inv, Next, TurnBegins
      PROVE  LatestJob = 0 \/ ~jobs[LatestJob].bound \/ jobs[LatestJob].decision # "blocked"
  <2>1. ~Static
    BY <1>1 DEF Inv, TypeOK, Static
  <2>2. Heeded
    BY <1>1, <2>1, HeededOnTheWay DEF Inv, TurnBegins
  <2> QED BY <2>2 DEF Heeded, IsBlocker
<1>2. Inv /\ [Next]_vars =>
        [TurnBegins => LatestJob = 0 \/ ~jobs[LatestJob].bound \/ jobs[LatestJob].decision # "blocked"]_vars
  BY <1>1
<1> QED BY <1>2, Invariant, PTL DEF Spec, BlockersHeeded

\* What is published is the work as it stands, unless an error has joined a captured check
\* (checker_decision.py: request_recovery keeps the capture).
THEOREM OnlyJoinedIsOutdated == Spec => OutdatedOnlyByJoining
<1> USE DEF Goto, Go, Hold
<1>1. ASSUME Inv, Next, StageAccepted
      PROVE  published' = Work \/ (pointer # 0 /\ Joined(records[pointer]))
  <2>1. \/ \E found, noted : Finalize(found, noted)
        \/ held # 0 /\ CaptureIsCurrent(records[held]) /\ Accept(records[held])
    <3>1. CASE Decide \/ RouteReport
      BY <1>1, <3>1 DEF StageAccepted, Decide, RouteReport, Route, RequestRecovery, Request, ClearAndAct,
                        BeginTurn, durable, Inv, AtWork
    <3>2. CASE Gate
      BY <1>1, <3>2 DEF StageAccepted, Gate, StartStage, BeginTurn, Judge, Continue, Rework, Reset, Serve,
                        RequestRecovery, Request, durable
    <3> QED BY <1>1, <3>1, <3>2
            DEF StageAccepted, Next, StartController, Controller, Rest, Stop, TakePending, Act, RecordJob,
                RequestRecovery, Request, BindJob, ClearAccepted, Block, Blocked, AskAgain, BeginTurn,
                WriteRecord, PointAtRecord, TurnEnds, EndTurn, FailTurn, Crash, Intervene, RecoveryResume,
                Reopen, Answer, Edit, Reset, Release, durable
  <2>2. ASSUME NEW found, NEW noted, Finalize(found, noted)
        PROVE  published' = Work
    BY <1>1, <2>2 DEF StageAccepted, Finalize, Request, durable
  <2>3. CASE held # 0 /\ CaptureIsCurrent(records[held]) /\ Accept(records[held])
    <3>1. pointer = held /\ held \in DOMAIN records /\ records[held] # Torn
      BY <1>1, <2>3 DEF Inv, TypeOK
    <3>2. CASE ~Joined(records[held])
      <4>1. published' = records[held].fingerprint[2]
        BY <1>1, <2>3, <3>1, <3>2 DEF Accept, CaptureIsCurrent, Inv, Captured, IsRecord
      <4>2. records[held].fingerprint[2] = RepairInputs
        BY <2>3 DEF CaptureIsCurrent, Fingerprint
      <4>3. Work = RepairInputs
        BY DEF Work, RepairInputs
      <4> QED BY <4>1, <4>2, <4>3
    <3> QED BY <2>3, <3>1, <3>2
  <2> QED BY <2>1, <2>2, <2>3
<1>2. Inv /\ [Next]_vars =>
        [StageAccepted => published' = Work \/ (pointer # 0 /\ Joined(records[pointer]))]_vars
  BY <1>1
<1> QED BY <1>2, Invariant, PTL DEF Spec, OutdatedOnlyByJoining

-----------------------------------------------------------------------------
(* How often one failure is put to a worker.                               *)

\* The record a worker may yet be asked to answer without another crash, or 0.
Awaited ==
  CASE at = "point" -> Len(records)
    [] at \in {"stopped", "loop", "turn"} -> pointer
    [] at = "decide" -> IF MustAsk THEN pointer ELSE 0
    [] OTHER -> 0

IsTorn == \E i \in DOMAIN records : records[i] = Torn

AnswersTo(f) == {i \in DOMAIN answered : answered[i] = f}

Unpaused(f) == {i \in DOMAIN records : records[i].fingerprint = f /\ ~records[i].paused}

Owed(f) ==
  IF Awaited # 0 /\ ~records[Awaited].paused /\ records[Awaited].fingerprint = f THEN 1 ELSE 0

\* Every answer is to a record of its own or follows a crash, and a fourth record is paused.
Budget ==
  IsTorn \/ \A f \in Fingerprints :
    /\ Cardinality(Unpaused(f)) <= 3
    /\ Cardinality(AnswersTo(f)) + Owed(f) <= Cardinality(Unpaused(f)) + crashes

\* One more number makes one more.
LEMMA CountOne ==
  ASSUME NEW n \in Nat, NEW A \in SUBSET (1..n)
  PROVE  /\ Cardinality(A) \in Nat
         /\ Cardinality(A \cup {n + 1}) = Cardinality(A) + 1
<1>1. IsFiniteSet(1..n)
  BY FS_Interval
<1>2. IsFiniteSet(A)
  BY <1>1, FS_Subset
<1>3. n + 1 \notin A
  OBVIOUS
<1> QED BY <1>2, <1>3, FS_CardinalityType, FS_AddElement

\* The counts are numbers.
LEMMA Counts ==
  ASSUME TypeOK, NEW f
  PROVE  /\ Cardinality(AnswersTo(f)) \in Nat /\ Cardinality(Unpaused(f)) \in Nat
         /\ Owed(f) \in {0, 1}
<1>1. AnswersTo(f) \in SUBSET (1..Len(answered)) /\ Len(answered) \in Nat
  BY DEF TypeOK, AnswersTo
<1>2. Unpaused(f) \in SUBSET (1..Len(records)) /\ Len(records) \in Nat
  BY DEF TypeOK, Unpaused
<1> QED BY <1>1, <1>2, CountOne DEF Owed

\* Nothing has been asked at the start.
LEMMA BudgetInit == Init => Budget
<1> SUFFICES ASSUME Init, NEW f \in Fingerprints
             PROVE  /\ Cardinality(Unpaused(f)) <= 3
                    /\ Cardinality(AnswersTo(f)) + Owed(f) <= Cardinality(Unpaused(f)) + crashes
  BY DEF Budget
<1>1. Unpaused(f) = {} /\ AnswersTo(f) = {} /\ Owed(f) = 0 /\ crashes = 0
  BY DEF Init, Unpaused, AnswersTo, Owed, Awaited
<1> QED BY <1>1, FS_EmptySet

\* But for an answer, a record and a crash, a step asks for no more than was asked for.
LEMMA NothingMoreAwaited ==
  ASSUME Inv, Next, UNCHANGED <<records, crashes>>, ~IsTorn
  PROVE  \/ Awaited' = 0
         \/ answered' = answered /\ Awaited' = Awaited
<1> USE DEF Goto, Go, Hold, durable, controller, bounds
<1>0. TypeOK /\ AtWork /\ AtWork'
  BY StepAtWork DEF Inv
<1>1. CASE StartController \/ Rest \/ Act \/ ClearAccepted \/ Block \/ AskAgain \/ Intervene \/ Release
  BY <1>0, <1>1 DEF StartController, Rest, Stop, Act, ClearAccepted, Block, AskAgain, BeginTurn,
              Intervene, RecoveryResume, Reopen, Answer, Edit, Reset, Release, Awaited, AtWork
<1>2. CASE TakePending
  BY <1>2 DEF TakePending, Awaited
<1>3. CASE RecordJob
  <2>1. at' \in {"request", "job"}
    BY <1>3 DEF RecordJob, RequestRecovery, Request
  <2> QED BY <2>1 DEF Awaited
<1>4. CASE BindJob
  <2>1. at' = "gate" \/ (at' = "decide" /\ held # 0 /\ held' = held /\ Len(jobs') = Len(jobs) /\ base' = base)
    BY <1>0, <1>4, JobWritten DEF BindJob, AtWork
  <2>2. LatestJob' = LatestJob \/ at' = "gate"
    BY <2>1 DEF LatestJob
  <2>3. at' = "gate" \/ ~MustAsk'
    BY <1>0, <1>4, <2>1, <2>2 DEF BindJob, AtWork, MustAsk
  <2> QED BY <2>1, <2>3 DEF Awaited
<1>5. CASE Decide
  <2>1. CASE MustAsk
    <3>1. at = "decide" /\ at' = "turn" /\ pointer' = pointer /\ answered' = answered
      BY <1>5, <2>1 DEF Decide, BeginTurn
    <3> QED BY <2>1, <3>1 DEF Awaited
  <2>2. CASE ~MustAsk
    <3>1. at' \in {"request", "gate", "frozen", "blocked", "accepted"}
      BY <1>5, <2>2 DEF Decide, RequestRecovery, Request, Route, Accept, ClearAndAct
    <3> QED BY <3>1 DEF Awaited
  <2> QED BY <2>1, <2>2
<1>6. CASE RouteReport
  <2>1. at' \in {"request", "gate", "blocked", "accepted"}
    BY <1>6 DEF RouteReport, RequestRecovery, Request, Route, Accept, ClearAndAct
  <2> QED BY <2>1 DEF Awaited
<1>7. CASE Gate
  <2>0. pointer = 0
    BY <1>0, <1>7 DEF Gate, AtWork
  <2>1. ASSUME at' # "request"
        PROVE  pointer' = 0
    BY <1>7, <2>0, <2>1 DEF Gate, StartStage, BeginTurn, Judge, Continue, Finalize, Rework, Serve,
                       RequestRecovery, Request, Reset
  <2>2. at' # "point"
    BY <1>7 DEF Gate, StartStage, BeginTurn, Judge, Continue, Finalize, Rework, Serve,
                       RequestRecovery, Request, Reset
  <2> QED BY <2>1, <2>2 DEF Awaited
<1>8. CASE WriteRecord
  <2>1. records' # records
    <3>1. records' = Append(records, Written)
      BY <1>0, <1>8, WriteEffect DEF IsTorn
    <3>2. Len(records') = Len(records) + 1
      BY <1>0, <1>8, <3>1, WrittenType, WriteEffect DEF TypeOK
    <3> QED BY <1>0, <3>2 DEF TypeOK
  <2> QED BY <2>1
<1>9. CASE PointAtRecord
  BY <1>9 DEF PointAtRecord, Awaited
<1>10. CASE TurnEnds
  BY <1>0, <1>10 DEF TurnEnds, EndTurn, FailTurn, Awaited
<1>11. CASE Crash
  BY <1>0, <1>11 DEF Crash, TypeOK
<1> QED BY <1>1, <1>2, <1>3, <1>4, <1>5, <1>6, <1>7, <1>8, <1>9, <1>10, <1>11 DEF Next, Controller

\* A turn that ends in answer to a record is one more answer to it.
LEMMA AnswerCounted ==
  ASSUME Inv, Next, answered' # answered, NEW f
  PROVE  /\ records' = records /\ crashes' = crashes /\ Awaited' = 0
         /\ Cardinality(AnswersTo(f)') = Cardinality(AnswersTo(f)) + Owed(f)
<1>0. TypeOK /\ AtWork
  BY DEF Inv
<1>1. PICK decision \in Decisions[kind], work \in Works : EndTurn(decision, work)
  BY DEF Next, StartController, Controller, Rest, TakePending, Act, RecordJob, BindJob, Decide, RouteReport,
       ClearAccepted, Block, Gate, AskAgain, WriteRecord, PointAtRecord, TurnEnds, FailTurn, Crash,
       Intervene, Release
<1>2. /\ held # 0 /\ held = pointer /\ answered' = Append(answered, records[held].fingerprint)
      /\ at = "turn" /\ at' = "turned"
  BY <1>0, <1>1 DEF EndTurn, TypeOK
<1>3. Awaited = held /\ ~records[held].paused
  BY <1>0, <1>2 DEF Awaited, AtWork
<1>4. records[held].fingerprint \in Fingerprints
  BY <1>0, <1>2, PendingType DEF Records
<1>5. /\ answered \in Seq(Fingerprints) /\ Len(answered) \in Nat /\ DOMAIN answered = 1..Len(answered)
      /\ answered' \in Seq(Fingerprints)
      /\ Len(answered') = Len(answered) + 1
      /\ \A i \in 1..Len(answered) : answered'[i] = answered[i]
      /\ answered'[Len(answered) + 1] = records[held].fingerprint
  BY <1>0, <1>2, <1>4, AppendProperties DEF TypeOK
<1>6. DOMAIN answered' = 1..(Len(answered) + 1)
  BY <1>5
<1>7. CASE records[held].fingerprint = f
  <2>1. AnswersTo(f)' = AnswersTo(f) \cup {Len(answered) + 1}
    BY <1>5, <1>6, <1>7 DEF AnswersTo
  <2>2. Owed(f) = 1
    BY <1>2, <1>3, <1>7 DEF Owed
  <2>3. AnswersTo(f) \in SUBSET (1..Len(answered))
    BY <1>5 DEF AnswersTo
  <2> QED BY <1>1, <1>2, <1>5, <2>1, <2>2, <2>3, CountOne DEF EndTurn, Awaited
<1>8. CASE records[held].fingerprint # f
  <2>1. AnswersTo(f)' = AnswersTo(f)
    BY <1>5, <1>6, <1>8 DEF AnswersTo
  <2>2. Owed(f) = 0
    BY <1>3, <1>8 DEF Owed
  <2> QED BY <1>0, <1>1, <1>2, <2>1, <2>2, Counts DEF EndTurn, Awaited
<1> QED BY <1>7, <1>8

\* A record that is not paused may be answered once more, and there were two at most.
LEMMA RecordCounted ==
  ASSUME Inv, Next, Writes, NEW f
  PROVE  /\ answered' = answered /\ crashes' = crashes /\ Owed(f) = 0
         /\ Cardinality(Unpaused(f)') = Cardinality(Unpaused(f)) + Owed(f)'
         /\ Owed(f)' = 1 => ~(Cardinality(Unpaused(f)) >= 3)
<1>0. TypeOK /\ AtWork /\ TypeOK'
  BY StepTypes DEF Inv
<1>1. WriteRecord
  BY DEF Writes, Next, StartController, Controller, Rest, TakePending, Act, RecordJob, BindJob, Decide,
       RouteReport, ClearAccepted, Block, Gate, AskAgain, PointAtRecord, TurnEnds, EndTurn, FailTurn, Crash,
       Intervene, Release, controller, Goto, Go
<1>2. answered' = answered /\ crashes' = crashes /\ at = "request" /\ at' = "point"
  BY <1>0, <1>1, WriteEffect DEF Writes, bounds
<1>3. Written \in Records
  BY <1>0, <1>2, WrittenType
<1>4. /\ records \in Seq(Records \cup {Torn}) /\ Len(records) \in Nat /\ DOMAIN records = 1..Len(records)
      /\ records' \in Seq(Records \cup {Torn})
      /\ Len(records') = Len(records) + 1
      /\ \A i \in 1..Len(records) : records'[i] = records[i]
      /\ records'[Len(records) + 1] = Written
  <2>1. /\ records \in Seq(Records \cup {Torn}) /\ Written \in Records \cup {Torn}
        /\ records' = Append(records, Written)
    BY <1>0, <1>3 DEF TypeOK, Writes
  <2> QED BY <2>1, AppendProperties
<1>5. DOMAIN records' = 1..(Len(records) + 1)
  BY <1>4
<1>6. Owed(f) = 0 /\ Awaited' = Len(records) + 1
  BY <1>2, <1>4 DEF Owed, Awaited
<1>7. CASE Written.fingerprint = f /\ ~Written.paused
  <2>1. Unpaused(f)' = Unpaused(f) \cup {Len(records) + 1}
    BY <1>4, <1>5, <1>7 DEF Unpaused
  <2>2. Owed(f)' = 1
    BY <1>4, <1>6, <1>7 DEF Owed
  <2>3. Unpaused(f) \in SUBSET (1..Len(records))
    BY <1>4 DEF Unpaused
  <2>4. ~PausedBy(f)
    BY <1>7 DEF Written
  <2>5. ~(Cardinality(Unpaused(f)) >= 3)
    BY <2>4 DEF PausedBy, Unpaused
  <2> QED BY <1>2, <1>4, <1>6, <2>1, <2>2, <2>3, <2>5, CountOne
<1>8. CASE ~(Written.fingerprint = f /\ ~Written.paused)
  <2>1. Unpaused(f)' = Unpaused(f)
    BY <1>4, <1>5, <1>8 DEF Unpaused
  <2>2. Owed(f)' = 0
    BY <1>4, <1>6, <1>8 DEF Owed
  <2> QED BY <1>0, <1>2, <1>6, <2>1, <2>2, Counts
<1> QED BY <1>7, <1>8

\* No step asks for more than the records and the crashes allow.
LEMMA BudgetStep ==
  ASSUME Inv, Budget, [Next]_vars
  PROVE  Budget'
<1>0. TypeOK /\ AtWork /\ TypeOK' /\ crashes \in Nat
  BY StepTypes DEF Inv, TypeOK
<1>1. CASE UNCHANGED vars
  BY <1>1 DEF vars, durable, controller, bounds, Budget, IsTorn, Unpaused, AnswersTo, Owed, Awaited, MustAsk,
              LatestJob
<1>2. CASE Next /\ IsTorn
  <2>1. IsTorn'
    BY <1>0, <1>2, RecordsKept DEF IsTorn
  <2> QED BY <2>1 DEF Budget
<1>3. CASE Next /\ ~IsTorn
  <2> SUFFICES ASSUME ~IsTorn', NEW f \in Fingerprints
               PROVE  /\ Cardinality(Unpaused(f)') <= 3
                      /\ Cardinality(AnswersTo(f)') + Owed(f)' <= Cardinality(Unpaused(f)') + crashes'
    BY DEF Budget
  <2>1. /\ Cardinality(Unpaused(f)) <= 3
        /\ Cardinality(AnswersTo(f)) + Owed(f) <= Cardinality(Unpaused(f)) + crashes
    BY <1>3 DEF Budget
  <2>2. /\ Cardinality(AnswersTo(f)) \in Nat /\ Cardinality(Unpaused(f)) \in Nat
        /\ Owed(f) \in {0, 1}
    BY <1>0, Counts
  <2>3. Owed(f)' \in {0, 1}
    BY DEF Owed
  <2>4. CASE answered' # answered
    <3>1. /\ records' = records /\ crashes' = crashes /\ Awaited' = 0
          /\ Cardinality(AnswersTo(f)') = Cardinality(AnswersTo(f)) + Owed(f)
      BY <1>3, <2>4, AnswerCounted
    <3>2. Unpaused(f)' = Unpaused(f) /\ Owed(f)' = 0
      BY <3>1 DEF Unpaused, Owed
    <3> QED BY <1>0, <2>1, <2>2, <3>1, <3>2
  <2>5. CASE answered' = answered /\ Writes
    <3>1. /\ crashes' = crashes /\ Owed(f) = 0
          /\ Cardinality(Unpaused(f)') = Cardinality(Unpaused(f)) + Owed(f)'
          /\ Owed(f)' = 1 => ~(Cardinality(Unpaused(f)) >= 3)
      BY <1>3, <2>5, RecordCounted
    <3>2. AnswersTo(f)' = AnswersTo(f)
      BY <2>5 DEF AnswersTo
    <3> QED BY <1>0, <2>1, <2>2, <2>3, <3>1, <3>2
  <2>6. CASE answered' = answered /\ records' = records
    <3>1. Unpaused(f)' = Unpaused(f) /\ AnswersTo(f)' = AnswersTo(f)
      BY <2>6 DEF Unpaused, AnswersTo
    <3>2. CASE crashes' = crashes
      <4>1. Awaited' = 0 \/ Awaited' = Awaited
        BY <1>3, <2>6, <3>2, NothingMoreAwaited
      <4>2. Owed(f)' <= Owed(f)
        BY <2>2, <2>3, <2>6, <4>1 DEF Owed
      <4> QED BY <1>0, <2>1, <2>2, <2>3, <3>1, <3>2, <4>2
    <3>3. CASE crashes' # crashes
      <4>1. crashes' = crashes + 1
        BY <1>3, <3>3 DEF Next, StartController, Controller, Rest, TakePending, Act, RecordJob, BindJob,
             Decide, RouteReport, ClearAccepted, Block, Gate, AskAgain, WriteRecord, PointAtRecord, TurnEnds,
             EndTurn, FailTurn, Crash, Intervene, Release, bounds
      <4> QED BY <1>0, <2>1, <2>2, <2>3, <3>1, <4>1
    <3> QED BY <3>2, <3>3
  <2>7. ~Tears
    <3>1. ASSUME Tears PROVE FALSE
      <4>1. Len(records) + 1 \in DOMAIN records' /\ records'[Len(records) + 1] = Torn
        <5>1. records \in Seq(Records \cup {Torn}) /\ records' = Append(records, Torn)
          BY <1>0, <3>1 DEF Tears, TypeOK
        <5> QED BY <5>1, AppendProperties
      <4> QED BY <4>1 DEF IsTorn
    <3> QED BY <3>1
  <2> QED BY <1>0, <1>3, <2>4, <2>5, <2>6, <2>7, Effects DEF Submitted, Bound, Frozen
<1> QED BY <1>1, <1>2, <1>3

\* However often the run is stopped and started again, one failure on unchanged work costs
\* three answers and one for each crash, until a crash tears a decision record.
THEOREM AnswersAlwaysBounded == Spec => []AnswersBounded
<1>1. Inv /\ Budget => AnswersBounded
  <2> SUFFICES ASSUME Inv, Budget, ~IsTorn, NEW i \in DOMAIN answered
               PROVE  Cardinality({j \in DOMAIN answered : answered[j] = answered[i]}) <= 3 + crashes
    BY DEF AnswersBounded, BudgetSurvivesCrashes, IsTorn
  <2>1. answered[i] \in Fingerprints /\ crashes \in Nat /\ TypeOK
    BY DEF Inv, TypeOK
  <2>2. /\ Cardinality(Unpaused(answered[i])) <= 3
        /\ Cardinality(AnswersTo(answered[i])) + Owed(answered[i])
             <= Cardinality(Unpaused(answered[i])) + crashes
    BY <2>1 DEF Budget
  <2>3. Cardinality(AnswersTo(answered[i])) <= 3 + crashes
    BY <2>1, <2>2, Counts
  <2> QED BY <2>3 DEF AnswersTo
<1>2. Init => Budget
  BY BudgetInit
<1>3. Inv /\ Budget /\ [Next]_vars => Budget'
  BY BudgetStep
<1> QED BY <1>1, <1>2, <1>3, Invariant, PTL DEF Spec

-----------------------------------------------------------------------------
(* Identical observations.                                                 *)

IsContinuation(i) == events[i].type = "CONTINUATION"

\* The jobs of the continuations follow each other.
Ordered ==
  /\ \A i \in DOMAIN events : IsContinuation(i) => events[i].job \in 1..Len(jobs)
  /\ \A i, j \in DOMAIN events :
       i <= j /\ IsContinuation(i) /\ IsContinuation(j) => events[i].job <= events[j].job

\* The observations identical to the one at i, up to it and without interruption.
Same(i) ==
  {j \in 1..i : \A k \in j..i : IsContinuation(k) /\ events[k].fingerprint = events[i].fingerprint}

Observing(i) == {events[j].job : j \in Same(i)}

CountedExactly ==
  \A i \in DOMAIN events : IsContinuation(i) => events[i].consecutive = Cardinality(Observing(i))

\* The gate puts such a job to the adapter.
ToJudge(job) ==
  /\ ~IsBlocker(job)
  /\ ~(job.bound /\ job.decision \in {"rework", "operation"})
  /\ job.bound \/ Proposal

Observes(observation) ==
  /\ at = "gate" /\ ~Static
  /\ LatestJob # 0 /\ ToJudge(jobs[LatestJob])
  /\ \E verdict \in Judgements : verdict[2] = observation
  /\ \E noted \in BOOLEAN : Continue(observation, noted)

\* A replay changes nothing; another observation is added, and the third one blocks.
LEMMA ContinueEffect ==
  ASSUME TypeOK, NEW observation \in Observations, Observes(observation)
  PROVE  /\ IF Replayed(Observation(observation)) THEN events' = events
            ELSE events' = Append(events, Continuation(observation))
         /\ at' = IF Consecutive(Observation(observation)) >= 3 THEN "blocked" ELSE "ask"
         /\ UNCHANGED <<status, files, jobs, base, pointer>>
<1>1. PICK noted \in BOOLEAN : Continue(observation, noted)
  BY DEF Observes
<1> QED BY <1>1 DEF Continue, Observation, Continuation, Go

\* A verdict is an observation to continue with, or leaves no continuation.
LEMMA JudgeEffect ==
  ASSUME TypeOK, NEW verdict \in Judgements, Judge(verdict)
  PROVE  \/ /\ verdict[2] \in Observations /\ Work \in Works /\ verdict \in Verdicts[Work]
            /\ \E noted \in BOOLEAN : Continue(verdict[2], noted)
         \/ /\ verdict[2] \notin Observations
            /\ events' = events \/ events' = Append(events, [type |-> "PASS"])
<1>1. CASE verdict[2] \in Observations
  <2>1. Work \in Works
    BY <1>1, VerdictType
  <2>2. verdict \in Verdicts[Work]
    BY <2>1 DEF Judgements
  <2>3. (notes \/ verdict[1]) \in BOOLEAN /\ Continue(verdict[2], notes \/ verdict[1])
    BY <1>1 DEF Judge
  <2> QED BY <1>1, <2>1, <2>2, <2>3
<1>2. CASE verdict[2] \notin Observations
  BY <1>2 DEF Judge, RequestRecovery, Request, Finalize, durable
<1> QED BY <1>1, <1>2

\* The gate adds a continuation, the end of a passed stage, or nothing.
LEMMA GateEffect ==
  ASSUME TypeOK, Gate
  PROVE  \/ events' = events
         \/ events' = Append(events, [type |-> "PASS"])
         \/ \E observation \in Observations : Observes(observation)
<1> USE DEF Goto, Go, Hold, durable
<1>1. CASE Static
  <2>1. CASE StartStage
    BY <2>1 DEF StartStage
  <2>2. CASE \E verdict \in Judgements : Judge(verdict)
    <3>1. PICK verdict \in Judgements : Judge(verdict)
      BY <2>2
    <3>2. ~(verdict[2] \in Observations /\ Work \in Works /\ verdict \in Verdicts[Work])
      <4>1. "static" \in Kinds
        BY <1>1 DEF TypeOK, Static
      <4>2. ~(Kinds \subseteq {"files", "asking"})
        BY <4>1
      <4> QED BY <4>2, WorkAssumption
    <3> QED BY <3>1, <3>2, JudgeEffect
  <2> QED BY <1>1, <2>1, <2>2 DEF Gate
<1>2. CASE ~Static /\ LatestJob # 0 /\ ToJudge(jobs[LatestJob])
  <2>1. PICK verdict \in Judgements : Judge(verdict)
    BY <1>2 DEF Gate, ToJudge, IsBlocker
  <2>2. CASE verdict[2] \in Observations
    <3>1. Observes(verdict[2])
      BY <1>2, <2>1, <2>2, JudgeEffect DEF Observes, Gate
    <3> QED BY <2>2, <3>1
  <2> QED BY <2>1, <2>2, JudgeEffect
<1>3. CASE ~Static /\ (LatestJob = 0 \/ ~ToJudge(jobs[LatestJob]))
  <2>1. CASE LatestJob = 0
    BY <1>3, <2>1 DEF Gate, BeginTurn
  <2>2. CASE LatestJob # 0
    BY <1>3, <2>2 DEF Gate, ToJudge, IsBlocker, Rework, Reset, Serve, RequestRecovery, Request
  <2> QED BY <2>1, <2>2
<1> QED BY <1>1, <1>2, <1>3

\* So does every other step, which adds no continuation.
LEMMA EventsEffect ==
  ASSUME TypeOK, AtWork, Next
  PROVE  \/ events' = events
         \/ \E end \in Ends : events' = Append(events, end)
         \/ \E observation \in Observations : Observes(observation)
<1> USE DEF Goto, Go, Hold, durable, controller, bounds
<1>0. [type |-> "PASS"] \in Ends /\ [type |-> "REOPENED"] \in Ends
  BY DEF Ends
<1>1. CASE Gate
  BY <1>0, <1>1, GateEffect
<1>2. CASE Decide \/ RouteReport
  BY <1>0, <1>2 DEF Decide, RouteReport, Route, Accept, ClearAndAct, BeginTurn, RequestRecovery, Request
<1>3. CASE Intervene
  BY <1>0, <1>3 DEF Intervene, RecoveryResume, Reopen, Answer, Edit, Reset
<1> QED BY <1>1, <1>2, <1>3
        DEF Next, StartController, Controller, Rest, Stop, TakePending, Act, RecordJob,
            RequestRecovery, Request, BindJob, ClearAccepted, Block, AskAgain, BeginTurn,
            WriteRecord, PointAtRecord, TurnEnds, EndTurn, FailTurn, Crash, Release

\* What is on record stays, and what is added comes last.
LEMMA EventsGrow ==
  ASSUME TypeOK, NEW event \in Continuations \cup Ends, events' = Append(events, event)
  PROVE  /\ Len(events') = Len(events) + 1 /\ DOMAIN events' = 1..(Len(events) + 1)
         /\ \A i \in DOMAIN events : i \in DOMAIN events' /\ events'[i] = events[i]
         /\ events'[Len(events) + 1] = event
         /\ \A i \in DOMAIN events : Same(i)' = Same(i) /\ Observing(i)' = Observing(i)
<1>1. events \in Seq(Continuations \cup Ends) /\ Len(events) \in Nat /\ DOMAIN events = 1..Len(events)
  BY DEF TypeOK
<1>2. /\ events' \in Seq(Continuations \cup Ends)
      /\ Len(events') = Len(events) + 1
      /\ \A i \in 1..Len(events) : events'[i] = events[i]
      /\ events'[Len(events) + 1] = event
  BY <1>1, AppendProperties
<1>3. DOMAIN events' = 1..(Len(events) + 1)
  BY <1>2
<1>4. ASSUME NEW i \in DOMAIN events
      PROVE  Same(i)' = Same(i)
  BY <1>1, <1>2 DEF Same, IsContinuation
<1>5. ASSUME NEW i \in DOMAIN events
      PROVE  Observing(i)' = Observing(i)
  <2>1. \A j \in Same(i) : events'[j] = events[j]
    BY <1>1, <1>2 DEF Same
  <2> QED BY <1>4, <2>1 DEF Observing
<1> QED BY <1>1, <1>2, <1>3, <1>4, <1>5

\* A new continuation is by the latest job.
LEMMA StepOrdered ==
  ASSUME Inv, Ordered, [Next]_vars
  PROVE  Ordered'
<1>0. TypeOK /\ AtWork /\ TypeOK'
  BY StepTypes DEF Inv
<1>1. Len(jobs) \in Nat /\ Len(jobs') \in Nat /\ Len(jobs') >= Len(jobs)
  <2>1. CASE Next
    <3>1. Len(jobs') >= Len(jobs)
      BY <1>0, <2>1, JobsKept
    <3>2. jobs \in Seq(Jobs) /\ jobs' \in Seq(Jobs)
      BY <1>0 DEF TypeOK
    <3> QED BY <3>1, <3>2
  <2>2. CASE UNCHANGED vars
    BY <1>0, <2>2 DEF vars, durable, TypeOK
  <2> QED BY <2>1, <2>2
<1>2. CASE events' = events
  BY <1>1, <1>2 DEF Ordered, IsContinuation
<1>3. ASSUME NEW end \in Ends, events' = Append(events, end)
      PROVE  Ordered'
  <2>0. events \in Seq(Continuations \cup Ends)
    BY <1>0 DEF TypeOK
  <2>1. end.type # "CONTINUATION" /\ Len(events) \in Nat /\ DOMAIN events = 1..Len(events)
    BY <2>0 DEF Ends
  <2>2. /\ DOMAIN events' = 1..(Len(events) + 1)
        /\ \A i \in DOMAIN events : events'[i] = events[i]
        /\ events'[Len(events) + 1] = end
    BY <1>0, <1>3, EventsGrow
  <2> QED BY <1>1, <2>1, <2>2 DEF Ordered, IsContinuation
<1>4. ASSUME NEW observation \in Observations, Observes(observation),
             events' = Append(events, Continuation(observation))
      PROVE  Ordered'
  <2>1. Len(events) \in Nat /\ DOMAIN events = 1..Len(events)
    BY <1>0 DEF TypeOK
  <2>2. /\ DOMAIN events' = 1..(Len(events) + 1)
        /\ \A i \in DOMAIN events : events'[i] = events[i]
        /\ events'[Len(events) + 1] = Continuation(observation)
    BY <1>0, <1>4, ContinuationType, EventsGrow
  <2>3. Continuation(observation).job = Len(jobs) /\ Len(jobs) # 0
    BY <1>0, <1>1, <1>4, LatestJobType DEF Observes, Continuation
  <2> QED BY <1>1, <2>1, <2>2, <2>3 DEF Ordered, IsContinuation
<1>5. CASE Next
  BY <1>0, <1>2, <1>3, <1>4, <1>5, EventsEffect, ContinueEffect
<1>6. CASE UNCHANGED vars
  BY <1>2, <1>6 DEF vars, durable
<1> QED BY <1>5, <1>6

\* An observation that is not a replay is by a job that has not made it yet.
LEMMA NewObservation ==
  ASSUME Inv, Ordered, CountedExactly, NEW observation \in Observations, Observes(observation),
         ~Replayed(Observation(observation)), events' = Append(events, Continuation(observation)),
         NEW n, n = Len(events)
  PROVE  Continuation(observation).consecutive = Cardinality(Observing(n + 1)')
<1>0. TypeOK /\ n \in Nat /\ DOMAIN events = 1..n /\ Len(events) = n
  BY DEF Inv, TypeOK
<1>n. PICK new \in Continuations : new = Continuation(observation)
  BY <1>0, ContinuationType
<1>1. /\ DOMAIN events' = 1..(n + 1)
      /\ \A i \in DOMAIN events : events'[i] = events[i]
      /\ events'[n + 1] = new
      /\ \A i \in DOMAIN events : Same(i)' = Same(i) /\ Observing(i)' = Observing(i)
  <2>1. events' = Append(events, new) /\ new \in Continuations \cup Ends
    BY <1>n
  <2> QED BY <1>0, <2>1, EventsGrow
<1>2. /\ new.job = Len(jobs) /\ new.type = "CONTINUATION" /\ new.fingerprint = Observation(observation)
      /\ new.consecutive = Consecutive(Observation(observation)) /\ Len(jobs) \in Nat /\ LatestJob = Len(jobs)
  BY <1>0, <1>n, LatestJobType DEF Observes, Continuation, TypeOK
<1>3. CASE Episode = {} \/ Previous.fingerprint # Observation(observation)
  <2>1. new.consecutive = 1
    BY <1>2, <1>3 DEF Consecutive, Replayed
  <2>2. \/ n = 0 \/ ~IsContinuation(n)
        \/ events[n].fingerprint # Observation(observation)
    BY <1>0, <1>3, LastOfEpisode DEF IsContinuation
  <2>3. Same(n + 1)' = {n + 1}
    BY <1>0, <1>1, <1>2, <2>2 DEF Same, IsContinuation
  <2>4. Observing(n + 1)' = {Len(jobs)}
    BY <1>1, <1>2, <2>3 DEF Observing
  <2>5. Cardinality({Len(jobs)}) = 1
    BY FS_Singleton
  <2> QED BY <1>n, <2>1, <2>4, <2>5
<1>4. CASE Episode # {} /\ Previous.fingerprint = Observation(observation)
  <2>1. /\ n \in DOMAIN events /\ Previous = events[n] /\ IsContinuation(n)
        /\ events[n].fingerprint = Observation(observation)
    BY <1>0, <1>4, LastOfEpisode DEF IsContinuation
  <2>2. new.consecutive = events[n].consecutive + 1 /\ events[n].job # Len(jobs)
    BY <1>2, <1>4, <2>1 DEF Consecutive, Replayed
  <2>3. Same(n + 1)' = Same(n) \cup {n + 1}
    <3>1. ASSUME NEW j \in 1..n
          PROVE  j \in Same(n + 1)' <=> j \in Same(n)
      BY <1>0, <1>1, <1>2, <2>1 DEF Same, IsContinuation
    <3>2. n + 1 \in Same(n + 1)'
      BY <1>0, <1>1, <1>2 DEF Same, IsContinuation
    <3>3. Same(n + 1)' \subseteq 1..(n + 1) /\ Same(n) \subseteq 1..n
      BY DEF Same
    <3> QED BY <1>0, <3>1, <3>2, <3>3
  <2>4. Observing(n + 1)' = Observing(n) \cup {Len(jobs)}
    <3>1. \A j \in Same(n) : events'[j] = events[j]
      BY <1>0, <1>1 DEF Same
    <3>2. Observing(n + 1)' = {events'[j].job : j \in Same(n + 1)'}
      BY DEF Observing
    <3>3. events'[n + 1].job = Len(jobs)
      BY <1>1, <1>2
    <3>4. Observing(n) = {events[j].job : j \in Same(n)}
      BY DEF Observing
    <3> HIDE DEF Same
    <3>5. Observing(n + 1)' \subseteq Observing(n) \cup {Len(jobs)}
      BY <2>3, <3>1, <3>2, <3>3, <3>4
    <3>6. Observing(n) \subseteq Observing(n + 1)'
      BY <2>3, <3>1, <3>2, <3>4
    <3>7. Len(jobs) \in Observing(n + 1)'
      BY <2>3, <3>2, <3>3
    <3> QED BY <3>5, <3>6, <3>7
  <2>5. \A job \in Observing(n) : job \in 1..Len(jobs) /\ job # Len(jobs)
    <3>1. ASSUME NEW j \in Same(n)
          PROVE  events[j].job \in 1..Len(jobs) /\ events[j].job # Len(jobs)
      <4>1. j \in DOMAIN events /\ IsContinuation(j) /\ j <= n
        BY <1>0 DEF Same
      <4>2. events[j].job <= events[n].job /\ events[j].job \in 1..Len(jobs) /\ events[n].job \in 1..Len(jobs)
        BY <2>1, <4>1 DEF Ordered
      <4> QED BY <1>2, <2>2, <4>2
    <3> QED BY <3>1 DEF Observing
  <2>6. IsFiniteSet(Observing(n))
    <3>1. Observing(n) \in SUBSET (1..Len(jobs))
      BY <2>5
    <3>2. IsFiniteSet(1..Len(jobs))
      BY <1>2, FS_Interval
    <3> QED BY <3>1, <3>2, FS_Subset
  <2>7. Cardinality(Observing(n) \cup {Len(jobs)}) = Cardinality(Observing(n)) + 1
    BY <2>5, <2>6, FS_AddElement
  <2>8. events[n].consecutive = Cardinality(Observing(n))
    BY <2>1 DEF CountedExactly
  <2> QED BY <1>n, <2>2, <2>4, <2>7, <2>8
<1> QED BY <1>n, <1>3, <1>4

\* The number a continuation carries is that of the jobs that made the observation.
LEMMA StepCounted ==
  ASSUME Inv, Ordered, CountedExactly, [Next]_vars
  PROVE  CountedExactly'
<1>0. TypeOK /\ AtWork
  BY DEF Inv
<1>1. CASE events' = events
  BY <1>1 DEF CountedExactly, IsContinuation, Observing, Same
<1>2. ASSUME NEW event \in Continuations \cup Ends, events' = Append(events, event),
             NEW n, n = Len(events),
             event.type = "CONTINUATION" => event.consecutive = Cardinality(Observing(n + 1)')
      PROVE  CountedExactly'
  <2>0. n \in Nat /\ DOMAIN events = 1..n
    BY <1>0, <1>2 DEF TypeOK
  <2>1. /\ DOMAIN events' = 1..(n + 1)
        /\ \A i \in DOMAIN events : events'[i] = events[i]
        /\ events'[n + 1] = event
        /\ \A i \in DOMAIN events : Observing(i)' = Observing(i)
    BY <1>0, <1>2, EventsGrow
  <2>2. ASSUME NEW i \in DOMAIN events', IsContinuation(i)'
        PROVE  events'[i].consecutive = Cardinality(Observing(i)')
    <3>1. CASE i \in DOMAIN events
      BY <2>1, <2>2, <3>1 DEF CountedExactly, IsContinuation
    <3>2. CASE i = n + 1
      BY <1>2, <2>1, <2>2, <3>2 DEF IsContinuation
    <3> QED BY <2>0, <2>1, <3>1, <3>2
  <2> QED BY <2>2 DEF CountedExactly
<1>3. ASSUME NEW end \in Ends, events' = Append(events, end)
      PROVE  CountedExactly'
  <2>1. PICK n : n = Len(events)
    OBVIOUS
  <2>2. end \in Continuations \cup Ends /\ end.type # "CONTINUATION"
    BY DEF Ends
  <2> QED BY <1>2, <1>3, <2>1, <2>2
<1>4. ASSUME NEW observation \in Observations, Observes(observation)
      PROVE  CountedExactly'
  <2>1. CASE Replayed(Observation(observation))
    BY <1>0, <1>1, <1>4, <2>1, ContinueEffect
  <2>2. CASE ~Replayed(Observation(observation))
    <3>1. events' = Append(events, Continuation(observation))
      BY <1>0, <1>4, <2>2, ContinueEffect
    <3>2. PICK n : n = Len(events)
      OBVIOUS
    <3>3. PICK new \in Continuations : new = Continuation(observation)
      BY <1>0, ContinuationType
    <3>4. new.consecutive = Cardinality(Observing(n + 1)')
      BY <1>4, <2>2, <3>1, <3>2, <3>3, NewObservation
    <3> QED BY <1>2, <3>1, <3>2, <3>3, <3>4
  <2> QED BY <2>1, <2>2
<1>5. CASE Next
  BY <1>0, <1>1, <1>3, <1>4, <1>5, EventsEffect
<1>6. CASE UNCHANGED vars
  BY <1>1, <1>6 DEF vars, durable
<1> QED BY <1>5, <1>6

\* The third identical observation by other jobs has ended the repair: the stage is
\* blocked, or what the gate would judge is what it has judged.
Settled ==
  LET last == events[Len(events)]
  IN  /\ at \in {"blocked", "stopped", "loop", "gate"} /\ pointer = 0
      /\ IF status = "BLOCKED" THEN at \in {"stopped", "loop"}
         ELSE /\ status \in {"READY", "RUNNING"}
              /\ ~Static /\ LatestJob # 0 /\ ToJudge(jobs[LatestJob])
              /\ last.job = LatestJob /\ last.fingerprint = Observation(last.fingerprint[1])
              /\ \E verdict \in Judgements : verdict[2] = last.fingerprint[1]

\* Each act undoes the end of a repair once.
Stopped ==
  /\ \A i \in DOMAIN events : IsContinuation(i) => events[i].consecutive <= 3 + acts
  /\ Len(events) # 0 /\ IsContinuation(Len(events)) /\ events[Len(events)].consecutive >= 3 =>
       Settled \/ events[Len(events)].consecutive < 3 + acts

\* The adapter says the same of the same work whenever it is asked.
Deterministic == \A w \in Works : \A v1, v2 \in Verdicts[w] : v1 = v2

\* Only an act moves a stage that rests.
LEMMA ActsGrow ==
  ASSUME TypeOK, Next
  PROVE  /\ acts \in Nat /\ acts' \in Nat /\ acts' >= acts
         /\ at = "stopped" /\ at' = "stopped" /\ status # "PENDING" => acts' = acts + 1
         /\ status # "PENDING" /\ status' = "PENDING" => acts' = acts + 1
<1>1. acts \in Nat
  BY DEF TypeOK
<1>2. ASSUME acts' = acts, status' = status \/ status' # "PENDING", at # "stopped"
      PROVE  /\ acts \in Nat /\ acts' \in Nat /\ acts' >= acts
             /\ at = "stopped" /\ at' = "stopped" /\ status # "PENDING" => acts' = acts + 1
             /\ status # "PENDING" /\ status' = "PENDING" => acts' = acts + 1
  BY <1>1, <1>2
<1>3. CASE Rest \/ TakePending \/ Act \/ Block \/ ClearAccepted \/ PointAtRecord
  <2>1. acts' = acts /\ at # "stopped" /\ (status' = status \/ status' # "PENDING")
    BY <1>3 DEF Rest, TakePending, Act, Block, Blocked, ClearAccepted, PointAtRecord, bounds, Stop, durable
  <2> QED BY <1>2, <2>1
<1>4. CASE AskAgain
  <2>1. acts' = acts /\ at # "stopped" /\ (status' = status \/ status' # "PENDING")
    BY <1>4 DEF AskAgain, BeginTurn, bounds
  <2> QED BY <1>2, <2>1
<1>5. CASE WriteRecord
  <2>1. acts' = acts /\ at # "stopped" /\ status' = status
    BY <1>5, WriteEffect DEF bounds
  <2> QED BY <1>2, <2>1
<1>6. ASSUME NEW fresh \in BOOLEAN, Route(fresh)
      PROVE  status' = status \/ status' # "PENDING"
  BY <1>6 DEF Route, Accept, ClearAndAct, durable
<1>7. CASE RecordJob
  <2>1. acts' = acts /\ at # "stopped" /\ status' = status
    BY <1>7 DEF RecordJob, bounds, durable
  <2> QED BY <1>2, <2>1
<1>8. CASE BindJob
  <2>1. acts' = acts /\ at # "stopped" /\ status' = status
    BY <1>8 DEF BindJob, bounds
  <2> QED BY <1>2, <2>1
<1>9. CASE RouteReport
  <2>1. acts' = acts /\ at # "stopped" /\ Route(TRUE)
    BY <1>9 DEF RouteReport, bounds
  <2> QED BY <1>2, <1>6, <2>1
<1>10. CASE Decide
  <2>1. acts' = acts /\ at # "stopped"
    BY <1>10 DEF Decide, bounds
  <2>2. BeginTurn \/ UNCHANGED durable \/ ClearAndAct \/ Route(FALSE) \/ UNCHANGED status
    BY <1>10 DEF Decide
  <2>3. status' = status \/ status' # "PENDING"
    BY <1>6, <2>2 DEF BeginTurn, ClearAndAct, durable
  <2> QED BY <1>2, <2>1, <2>3
<1>11. CASE Gate
  <2>1. at = "gate" /\ acts' = acts + (IF status' = "PENDING" THEN 1 ELSE 0)
    BY <1>11 DEF Gate
  <2> QED BY <1>1, <2>1
<1>12. CASE StartController \/ TurnEnds \/ Crash \/ Intervene \/ Release
  BY <1>1, <1>12
     DEF StartController, TurnEnds, EndTurn, FailTurn, Crash, Intervene, Release, bounds, durable,
         controller, Goto, Go
<1> QED BY <1>3, <1>4, <1>5, <1>7, <1>8, <1>9, <1>10, <1>11, <1>12 DEF Next, Controller

\* What an end of a repair rests on stays but for an act.
LEMMA SettledKept ==
  ASSUME Inv, Deterministic, Next, Settled,
         Len(events) # 0, IsContinuation(Len(events)), events[Len(events)].consecutive >= 3
  PROVE  acts' = acts + 1 \/ (events' = events /\ Settled')
<1> USE DEF Goto, Go, Hold, durable, controller, bounds
<1>0. TypeOK /\ AtWork /\ kind' = kind /\ pointer = 0
  BY KindKept DEF Inv, Settled
<1>1. ASSUME UNCHANGED <<jobs, base, files, events>>, pointer' = 0,
             at' \in {"blocked", "stopped", "loop", "gate"},
             IF status' = "BLOCKED" THEN at' \in {"stopped", "loop"}
             ELSE status' \in {"READY", "RUNNING"} /\ status # "BLOCKED"
      PROVE  Settled'
  <2>1. LatestJob' = LatestJob /\ RepairInputs' = RepairInputs /\ Work' = Work /\ Judgements' = Judgements
    BY <1>0, <1>1 DEF LatestJob, RepairInputs, Proposal, Work, Judgements
  <2>2. ToJudge(jobs[LatestJob])' <=> ToJudge(jobs[LatestJob])
    BY <1>0, <1>1, <2>1 DEF ToJudge, IsBlocker, Proposal
  <2>3. Static' = Static
    BY <1>0 DEF Static
  <2> QED BY <1>1, <2>1, <2>2, <2>3 DEF Settled, Observation
<1>2. CASE StartController
  BY <1>0, <1>1, <1>2 DEF StartController, Settled
<1>3. CASE Rest
  BY <1>0, <1>1, <1>3 DEF Rest, Stop, Settled
<1>4. CASE Act
  BY <1>0, <1>1, <1>4 DEF Act, Settled
<1>5. CASE Block
  BY <1>0, <1>1, <1>5 DEF Block, Blocked, Settled
<1>6. CASE Crash
  BY <1>0, <1>1, <1>6 DEF Crash, Settled
<1>7. CASE Intervene
  BY <1>7 DEF Intervene
<1>8. CASE Gate
  <2> DEFINE last == events[Len(events)]
  <2>1. at = "gate" /\ status # "BLOCKED"
    BY <1>0, <1>8 DEF Gate, AtWork
  <2>2. /\ status \in {"READY", "RUNNING"} /\ ~Static /\ LatestJob # 0 /\ ToJudge(jobs[LatestJob])
        /\ last.job = LatestJob /\ last.fingerprint = Observation(last.fingerprint[1])
        /\ \E verdict \in Judgements : verdict[2] = last.fingerprint[1]
    BY <2>1 DEF Settled
  <2>3. Episode # {} /\ Previous = last /\ last \in Continuations
    BY <1>0, LastOfEpisode DEF IsContinuation
  <2>4. last.fingerprint[1] \in Observations
    BY <2>3 DEF Continuations, Observed
  <2>5. PICK verdict \in Judgements : Judge(verdict)
    BY <1>8, <2>2 DEF Gate, ToJudge, IsBlocker
  <2>6. verdict[2] = last.fingerprint[1]
    BY <2>2, <2>5 DEF Deterministic, Judgements
  <2> DEFINE observation == verdict[2]
  <2>7. observation \in Observations /\ Observes(observation)
    BY <1>0, <2>1, <2>2, <2>4, <2>5, <2>6, JudgeEffect DEF Observes
  <2>8. Replayed(Observation(observation)) /\ Consecutive(Observation(observation)) = last.consecutive
    BY <2>2, <2>3, <2>6 DEF Replayed, Consecutive
  <2>9. events' = events /\ at' = "blocked" /\ UNCHANGED <<status, files, jobs, base, pointer>>
    BY <1>0, <2>7, <2>8, ContinueEffect
  <2> QED BY <1>0, <1>1, <2>2, <2>9
<1> QED BY <1>0, <1>2, <1>3, <1>4, <1>5, <1>6, <1>7, <1>8
        DEF Settled, Next, Controller, TakePending, PendingStands, RecordJob, BindJob, Decide, RouteReport,
            ClearAccepted, AskAgain, WriteRecord, PointAtRecord, TurnEnds, EndTurn, FailTurn, Release

\* No fourth observation without an act.
LEMMA StepStopped ==
  ASSUME Inv, Deterministic, Stopped, [Next]_vars
  PROVE  Stopped'
<1>0. TypeOK /\ AtWork /\ AtWork' /\ TypeOK'
  BY StepTypes, InvStep DEF Inv
<1>1. CASE UNCHANGED vars
  BY <1>1 DEF vars, durable, controller, bounds, Stopped, Settled, IsContinuation, Static, LatestJob, ToJudge,
              IsBlocker, Proposal, Observation, RepairInputs, Judgements, Work
<1>2. CASE Next
  <2>0. /\ acts \in Nat /\ acts' \in Nat /\ acts' >= acts
        /\ events \in Seq(Continuations \cup Ends) /\ Len(events) \in Nat /\ DOMAIN events = 1..Len(events)
    <3>1. acts \in Nat /\ acts' \in Nat /\ acts' >= acts
      BY <1>0, <1>2, ActsGrow
    <3>2. events \in Seq(Continuations \cup Ends)
      BY <1>0 DEF TypeOK
    <3> QED BY <3>1, <3>2
  <2>a. ASSUME NEW i \in DOMAIN events, IsContinuation(i)
        PROVE  events[i].consecutive \in Nat /\ events[i].consecutive <= 3 + acts'
    <3>1. events[i] \in Continuations
      BY <2>0, <2>a DEF IsContinuation, Ends
    <3> QED BY <2>0, <2>a, <3>1 DEF Stopped, Continuations
  <2>1. CASE events' = events
    <3>1. ASSUME Len(events) # 0, IsContinuation(Len(events)), events[Len(events)].consecutive >= 3
          PROVE  Settled' \/ events[Len(events)].consecutive < 3 + acts'
      <4>1. /\ Len(events) \in DOMAIN events /\ events[Len(events)].consecutive \in Nat
            /\ events[Len(events)].consecutive <= 3 + acts
        <5>1. Len(events) \in DOMAIN events
          BY <2>0, <3>1
        <5> QED BY <2>a, <3>1, <5>1 DEF Stopped
      <4>2. CASE Settled
        BY <1>2, <2>0, <3>1, <4>1, <4>2, SettledKept
      <4>3. CASE events[Len(events)].consecutive < 3 + acts
        BY <2>0, <4>1, <4>3
      <4> QED BY <3>1, <4>2, <4>3 DEF Stopped
    <3> QED BY <2>1, <2>a, <3>1 DEF Stopped, IsContinuation
  <2>2. ASSUME NEW end \in Ends, events' = Append(events, end)
        PROVE  Stopped'
    <3>1. /\ DOMAIN events' = 1..(Len(events) + 1) /\ Len(events') = Len(events) + 1
          /\ \A i \in DOMAIN events : events'[i] = events[i]
          /\ events'[Len(events) + 1] = end
      BY <1>0, <2>2, EventsGrow
    <3>2. end.type # "CONTINUATION"
      BY DEF Ends
    <3> QED BY <2>0, <2>a, <3>1, <3>2 DEF Stopped, IsContinuation
  <2>3. ASSUME NEW observation \in Observations, Observes(observation)
        PROVE  Stopped'
    <3>1. CASE Replayed(Observation(observation))
      BY <1>0, <2>1, <2>3, <3>1, ContinueEffect
    <3>2. CASE ~Replayed(Observation(observation))
      <4>0. PICK new \in Continuations : new = Continuation(observation)
        BY <1>0, ContinuationType
      <4>1. /\ events' = Append(events, new)
            /\ at' = IF new.consecutive >= 3 THEN "blocked" ELSE "ask"
            /\ UNCHANGED <<status, files, jobs, base, pointer>>
        BY <1>0, <2>3, <3>2, <4>0, ContinueEffect DEF Continuation
      <4>2. /\ DOMAIN events' = 1..(Len(events) + 1) /\ Len(events') = Len(events) + 1
            /\ \A i \in DOMAIN events : events'[i] = events[i]
            /\ events'[Len(events) + 1] = new
        BY <1>0, <4>1, EventsGrow
      <4>3. new.consecutive \in Nat /\ new.consecutive <= 3 + acts
        <5>1. CASE Episode = {} \/ Previous.fingerprint # Observation(observation)
          <6>1. new.consecutive = 1
            BY <4>0, <5>1 DEF Continuation, Consecutive, Replayed
          <6> QED BY <2>0, <6>1
        <5>2. CASE Episode # {} /\ Previous.fingerprint = Observation(observation)
          <6>1. new.consecutive = Previous.consecutive + 1
            BY <3>2, <4>0, <5>2 DEF Continuation, Consecutive
          <6>2. /\ Previous = events[Len(events)] /\ IsContinuation(Len(events)) /\ Len(events) # 0
                /\ Previous.consecutive \in Nat
            BY <1>0, <5>2, LastOfEpisode DEF IsContinuation, Continuations
          <6>3. ASSUME Previous.consecutive >= 3
                PROVE  Previous.consecutive < 3 + acts
            <7>1. events' # events
              BY <2>0, <4>2
            <7>2. acts' # acts + 1
              BY <1>0, <1>2, <2>3
                 DEF Observes, Next, StartController, Controller, Rest, TakePending, Act, RecordJob,
                     BindJob, Decide, RouteReport, ClearAccepted, Block, Gate, AskAgain, WriteRecord,
                     PointAtRecord, TurnEnds, EndTurn, FailTurn, Crash, Intervene, Release, bounds,
                     TypeOK, AtWork, Continue
            <7>3. ~Settled
              BY <1>2, <6>2, <6>3, <7>1, <7>2, SettledKept
            <7> QED BY <6>2, <6>3, <7>3 DEF Stopped
          <6> QED BY <2>0, <6>1, <6>2, <6>3
        <5> QED BY <5>1, <5>2
      <4>4. ASSUME new.consecutive >= 3
            PROVE  Settled'
        <5>1. /\ at = "gate" /\ pointer = 0 /\ status \in {"READY", "RUNNING"}
              /\ ~Static /\ LatestJob # 0 /\ ToJudge(jobs[LatestJob])
              /\ \E verdict \in Judgements : verdict[2] = observation
          BY <1>0, <2>3 DEF Observes, AtWork
        <5>2. /\ new.job = LatestJob /\ new.fingerprint = Observation(observation)
              /\ new.fingerprint[1] = observation
          BY <4>0 DEF Continuation, Observation
        <5>3. kind' = kind
          BY <1>2, KindKept
        <5>4. LatestJob' = LatestJob /\ RepairInputs' = RepairInputs /\ Work' = Work
              /\ Judgements' = Judgements /\ Static' = Static
              /\ (ToJudge(jobs[LatestJob])' <=> ToJudge(jobs[LatestJob]))
          BY <4>1, <5>3 DEF LatestJob, RepairInputs, Proposal, Work, Judgements, Static, ToJudge, IsBlocker
        <5>5. events'[Len(events')] = new /\ at' = "blocked" /\ pointer' = 0 /\ status' = status
          BY <4>1, <4>2, <4>4, <5>1
        <5> QED BY <5>1, <5>2, <5>4, <5>5 DEF Settled, Observation
      <4> QED BY <2>0, <2>a, <4>2, <4>3, <4>4 DEF Stopped, IsContinuation
    <3> QED BY <3>1, <3>2
  <2> QED BY <1>0, <1>2, <2>1, <2>2, <2>3, EventsEffect
<1> QED BY <1>1, <1>2

\* A continuation counts the different jobs that made one observation of one state of the
\* work in a row: a restart and a replay neither add to the count nor lose it (continuation.py).
THEOREM ObservationsAlwaysCounted == Spec => []CountedExactly
<1>1. Init => Ordered /\ CountedExactly
  BY DEF Init, Ordered, CountedExactly
<1>2. Inv /\ (Ordered /\ CountedExactly) /\ [Next]_vars => (Ordered /\ CountedExactly)'
  BY StepOrdered, StepCounted
<1> QED BY <1>1, <1>2, Invariant, PTL DEF Spec

\* If the adapter says the same of the same work, three of them stop a repair, and each
\* act of the operator or of another stage allows one more.
THEOREM AlwaysThreeObservations ==
  ASSUME Deterministic
  PROVE  Spec => []ThreeObservations
<1>1. Init => Ordered /\ CountedExactly /\ Stopped
  BY DEF Init, Ordered, CountedExactly, Stopped
<1>2. Inv /\ (Ordered /\ CountedExactly /\ Stopped) /\ [Next]_vars => (Ordered /\ CountedExactly /\ Stopped)'
  BY StepOrdered, StepCounted, StepStopped
<1>3. CountedExactly /\ Stopped => ThreeObservations
  BY DEF CountedExactly, Stopped, ThreeObservations, IsContinuation, Observing, Same
<1> QED BY <1>1, <1>2, <1>3, Invariant, PTL DEF Spec

=============================================================================
