--------------------------- MODULE CodexSessions ---------------------------
(***************************************************************************)
(* The conversations a project has with its models (codex/cli.py,          *)
(* gateway.py, transport.py, sessions.py, context_policy.py,               *)
(* context_reset.py, submission.py, accounting.py).                        *)
(*                                                                         *)
(* The worker's stages share one conversation, the reviewer's another.  A  *)
(* conversation is a thread kept by the model's CLI and a pointer to it on *)
(* disk, with a note of the material the thread already has.  At most once *)
(* the pointer is switched to a handoff, from which a new thread begins;   *)
(* an operator may do the same between runs.  Every turn leaves metrics    *)
(* and at most one submission.                                             *)
(*                                                                         *)
(* A step is one durable write, or one event of the CLI's process, so that *)
(* the controller can be interrupted or killed between any two.  A killed  *)
(* controller leaves the process of its turn behind.                       *)
(*                                                                         *)
(* Prompts are reduced to the revision of the material they are made from; *)
(* documents and inputs are remembered alike.  The judgement of a result   *)
(* is RecoveryController's.  Recorded prompts and logs are left out.       *)
(***************************************************************************)
EXTENDS Naturals, FiniteSets, Sequences

CONSTANTS
  AnalysisReview, \* is the analysis reviewed before execution begins?
  Revisions,      \* bound: revisions of the material prompts are made from
  Contents,       \* contents of a deliverable
  None,           \* no such thing, or unknown
  MaxJobs,        \* bound: turns
  MaxKills,       \* bound: killed controllers
  MaxActs         \* bound: conversations reset and policies changed by an operator

ASSUME SessionAssumption ==
  /\ AnalysisReview \in BOOLEAN
  /\ Revisions \subseteq Nat \ {0} /\ 1 \in Revisions
  /\ None \notin Contents \cup Nat
  /\ MaxJobs \in Nat /\ MaxKills \in Nat /\ MaxActs \in Nat

VARIABLES
  policy,    \* context-policy.json
  passed,    \* stages with status PASS
  feedback,  \* stages that a repair has reset and that have not passed since
  material,  \* the revision of the stage inputs and policy documents
  session,   \* the pointer file of each conversation
  resets,    \* the ledger's session resets
  jobs,      \* the metrics files
  turn,      \* what the latest job was given and has submitted
  threads,   \* the CLI's conversations: what they consumed and hold
  writers,   \* jobs whose process is alive
  at,        \* what the controller does
  continuing,\* is this process going on with its stage?
  kills,     \* controllers killed so far
  acts       \* acts of the operator so far

vars == <<policy, passed, feedback, material, session, resets, jobs, turn, threads,
          writers, at, continuing, kills, acts>>

ledger == <<policy, passed, feedback, material>>

-----------------------------------------------------------------------------
(* Stages, conversations and the boundary of a policy.                     *)

Stages == {"contracts", "framework", "implementation", "review"}
          \cup IF AnalysisReview THEN {"analysis_review"} ELSE {}

Position(s) == CASE s = "contracts" -> 1 [] s = "analysis_review" -> 2 [] s = "framework" -> 3
                 [] s = "implementation" -> 4 [] s = "review" -> 5

Phase(s) == IF s \in {"contracts", "analysis_review"} THEN "analysis" ELSE "delivery"

Conversations == {"worker", "reviewer"}

Conversation(s) == IF s \in {"analysis_review", "review"} THEN "reviewer" ELSE "worker"

Policies == {"persistent", "implementation-handoff", "analysis-handoff"}

Boundary(p) == IF p = "analysis-handoff" THEN "framework" ELSE "implementation"

\* The stage `port run` works on next.
Due == {s \in Stages \ passed : \A r \in Stages \ passed : Position(s) <= Position(r)}

Stage == CHOOSE s \in Due : TRUE

Job == jobs[Len(jobs)]

Started(names) == \E i \in DOMAIN jobs : jobs[i].stage \in names

\* Mutant: whether execution has begun is not looked at.
RotatesLate(s, carrying) ==
  /\ policy # "persistent"
  /\ s = Boundary(policy)
  /\ ~carrying
  /\ session[Conversation(s)].thread # None
  /\ ~session[Conversation(s)].boundary

\* Why prepare_context gives a conversation a handoff; it is kept otherwise.
Rotates(s, carrying) ==
  /\ policy # "persistent"
  /\ s = Boundary(policy)
  /\ ~carrying
  /\ ~Started({Boundary(policy), "implementation"})
  /\ session[Conversation(s)].thread # None
  /\ ~session[Conversation(s)].boundary
  /\ "contracts" \in passed
  /\ policy = "analysis-handoff" /\ AnalysisReview => "analysis_review" \in passed

\* Mutant: a thread whose latest job reported nothing starts from zero.
UsageFromZero(thread) ==
  LET of == {i \in DOMAIN jobs : jobs[i].thread = thread}
  IN  IF of = {} THEN 0
      ELSE LET last == jobs[CHOOSE i \in of : \A j \in of : j <= i].reported
           IN  IF last = None THEN 0 ELSE last

\* The cumulative counter a new job subtracts: the last one reported for the
\* thread, unknown when its latest job reported none.
LatestUsage(thread) ==
  LET of == {i \in DOMAIN jobs : jobs[i].thread = thread}
  IN  IF thread = None THEN 0
      ELSE IF of = {} THEN None
      ELSE jobs[CHOOSE i \in of : \A j \in of : j <= i].reported

\* What the statistics charge for a job, zero when it is unknown.
Charged(job) == IF None \in {job.reported, job.baseline} THEN 0
                ELSE IF job.reported < job.baseline THEN 0
                ELSE job.reported - job.baseline

\* Before a turn.
NoTurn == [shows |-> None, gives |-> None, handoff |-> None, file |-> None, receipt |-> None]

-----------------------------------------------------------------------------
(* The controller and its operator.                                        *)

Open ==
  /\ at = "stopped"
  /\ Due # {}
  /\ at' = "idle"
  /\ continuing' = FALSE
  /\ turn' = NoTurn
  /\ UNCHANGED <<ledger, session, resets, jobs, threads, writers, kills, acts>>

\* context-policy: the event, then the file; the same setting is no change.
Configure ==
  /\ at = "stopped"
  /\ acts < MaxActs
  /\ policy' \in Policies \ {policy}
  /\ acts' = acts + 1
  /\ UNCHANGED <<passed, feedback, material, session, resets, jobs, turn, threads, writers,
                 at, continuing, kills>>

\* Upstream work or the policy documents change between turns.
Revise ==
  /\ at \in {"stopped", "idle"}
  /\ material + 1 \in Revisions
  /\ material' = material + 1
  /\ UNCHANGED <<policy, passed, feedback, session, resets, jobs, turn, threads, writers,
                 at, continuing, kills, acts>>

\* A turn goes on with what its process or an open decision was doing, or
\* begins like the first one of its stage.
Prepare ==
  /\ at = "idle"
  /\ Due # {}
  /\ Len(jobs) < MaxJobs
  /\ \E carrying \in BOOLEAN :
       /\ continuing \/ Stage \in feedback => carrying
       /\ carrying => continuing \/ Stage \in feedback \/ Started({Stage})
       /\ at' = IF Rotates(Stage, carrying) THEN "reset" ELSE "launch"
  /\ UNCHANGED <<ledger, session, resets, jobs, turn, threads, writers, continuing, kills, acts>>

Reset(c, automatic) ==
  /\ session[c].thread # None
  /\ resets' = Append(resets, [conversation |-> c, thread |-> session[c].thread,
                               automatic |-> automatic])
  /\ at' = "switch"
  /\ UNCHANGED <<ledger, session, jobs, turn, threads, writers, continuing, kills>>

\* The event of a rotation at the boundary is recorded ...
ResetAtBoundary == at = "reset" /\ Reset(Conversation(Stage), TRUE) /\ UNCHANGED acts

\* ... or that of `codex reset-session` ...
ResetByOperator ==
  /\ at = "stopped"
  /\ acts < MaxActs
  /\ acts' = acts + 1
  /\ \E c \in Conversations : Reset(c, FALSE)

\* Mutant: the pointer keeps the note of what the old thread had.
SwitchKeepingNotes ==
  LET reset == resets[Len(resets)]
  IN  /\ at = "switch"
      /\ session' = [session EXCEPT ![reset.conversation] =
           [@ EXCEPT !.thread = None, !.handoff = Len(resets) + 1]]
      /\ at' = IF reset.automatic THEN "launch" ELSE "stopped"
      /\ UNCHANGED <<ledger, resets, jobs, turn, threads, writers, continuing, kills, acts>>

\* ... and then the pointer is switched to the handoff.
SwitchPointer ==
  LET reset == resets[Len(resets)]
  IN  /\ at = "switch"
      /\ session' = [session EXCEPT ![reset.conversation] =
           [thread |-> None, known |-> None, handoff |-> Len(resets),
            boundary |-> reset.automatic \/ @.boundary]]
      /\ at' = IF reset.automatic THEN "launch" ELSE "stopped"
      /\ UNCHANGED <<ledger, resets, jobs, turn, threads, writers, continuing, kills, acts>>

-----------------------------------------------------------------------------
(* A turn.                                                                 *)

\* Mutant: only the first turn of a stage is given a handoff.
LaunchOnce ==
  LET own == session[Conversation(Stage)]
  IN  /\ at = "launch"
      /\ jobs' = Append(jobs,
           [stage |-> Stage, thread |-> own.thread, baseline |-> LatestUsage(own.thread),
            reported |-> None, state |-> "RUNNING"])
      /\ turn' = [NoTurn EXCEPT
           !.shows = material,
           !.gives = IF own.known = material THEN None ELSE material,
           !.handoff = IF own.thread = None /\ ~Started({Stage}) THEN own.handoff ELSE None]
      /\ at' = "spawn"
      /\ UNCHANGED <<ledger, session, resets, threads, writers, continuing, kills, acts>>

\* The metrics of a job are there before its process is; a handoff is given
\* to a conversation that has no thread.
Launch ==
  LET own == session[Conversation(Stage)]
  IN  /\ at = "launch"
      /\ jobs' = Append(jobs,
           [stage |-> Stage, thread |-> own.thread, baseline |-> LatestUsage(own.thread),
            reported |-> None, state |-> "RUNNING"])
      /\ turn' = [NoTurn EXCEPT
           !.shows = material,
           !.gives = IF own.known = material THEN None ELSE material,
           !.handoff = IF own.thread = None THEN own.handoff ELSE None]
      /\ at' = "spawn"
      /\ UNCHANGED <<ledger, session, resets, threads, writers, continuing, kills, acts>>

\* The lock of the conversation is free whenever a controller gets here: it
\* is held by a controller, of which there is one, and never by its worker.
Spawn ==
  /\ at = "spawn"
  /\ writers' = writers \cup {Len(jobs)}
  /\ at' = "turn"
  /\ UNCHANGED <<ledger, session, resets, jobs, turn, threads, continuing, kills, acts>>

\* The CLI names the thread, which has the prompt from now on.
ThreadStarted ==
  /\ at = "turn"
  /\ threads' = IF Job.thread # None THEN threads
                ELSE Append(threads, [handoff |-> turn.handoff, told |-> {}, counter |-> 0,
                                      first |-> Len(jobs)])
  /\ at' = "checkpoint"
  /\ UNCHANGED <<ledger, session, resets, jobs, turn, writers, continuing, kills, acts>>

\* The thread of a job, on record or not.
ThreadOf(i) ==
  LET own == {t \in DOMAIN threads : threads[t].first = i}
  IN  IF own = {} THEN jobs[i].thread ELSE CHOOSE t \in own : TRUE

\* Mutant: the pointer notes the material of the prompt as soon as there is a thread.
CheckpointEagerly ==
  /\ at = "checkpoint"
  /\ session' = [session EXCEPT ![Conversation(Job.stage)].thread = ThreadOf(Len(jobs)),
                                ![Conversation(Job.stage)].known = turn.shows]
  /\ at' = "persist"
  /\ UNCHANGED <<ledger, resets, jobs, turn, threads, writers, continuing, kills, acts>>

\* The pointer names the thread before the turn is over; what the prompt
\* holds is not yet known to it.
Checkpoint ==
  /\ at = "checkpoint"
  /\ session' = [session EXCEPT ![Conversation(Job.stage)].thread = ThreadOf(Len(jobs))]
  /\ at' = "persist"
  /\ UNCHANGED <<ledger, resets, jobs, turn, threads, writers, continuing, kills, acts>>

\* The metrics name it afterwards.
PersistThread ==
  /\ at = "persist"
  /\ jobs' = [jobs EXCEPT ![Len(jobs)].thread = ThreadOf(Len(jobs))]
  /\ at' = "working"
  /\ UNCHANGED <<ledger, session, resets, turn, threads, writers, continuing, kills, acts>>

WriteFile ==
  /\ at = "working"
  /\ \E content \in Contents \ {turn.file} : turn' = [turn EXCEPT !.file = content]
  /\ UNCHANGED <<ledger, session, resets, jobs, threads, writers, at, continuing, kills, acts>>

\* `codex submit`: one receipt for a job.  A second call with another file
\* fails and one with the same file changes nothing.
Submit ==
  /\ at = "working"
  /\ turn.file # None
  /\ turn.receipt = None
  /\ turn' = [turn EXCEPT !.receipt = turn.file]
  /\ UNCHANGED <<ledger, session, resets, jobs, threads, writers, at, continuing, kills, acts>>

\* The model answers: paid for, whether or not the controller hears of it.
Answered(t) == [threads EXCEPT ![t].counter = @ + 1]

Answer ==
  /\ at = "working"
  /\ threads' = Answered(Job.thread)
  /\ at' = "answered"
  /\ UNCHANGED <<ledger, session, resets, jobs, turn, writers, continuing, kills, acts>>

\* turn.completed, with the counter of the thread.
Complete ==
  /\ at = "answered"
  /\ jobs' = [jobs EXCEPT ![Len(jobs)].reported = threads[Job.thread].counter]
  /\ threads' = [threads EXCEPT ![Job.thread].told = @ \cup ({turn.gives} \ {None})]
  /\ at' = "completed"
  /\ UNCHANGED <<ledger, session, resets, turn, writers, continuing, kills, acts>>

\* The metrics say how the job ended, and in which thread.
Close(state) ==
  jobs' = [jobs EXCEPT ![Len(jobs)].state = state, ![Len(jobs)].thread = ThreadOf(Len(jobs))]

Finish ==
  /\ at = "completed"
  /\ Close("COMPLETED")
  /\ writers' = writers \ {Len(jobs)}
  /\ at' = "save"
  /\ UNCHANGED <<ledger, session, resets, turn, threads, continuing, kills, acts>>

\* A failed turn, a deadline or a termination: the process group is stopped
\* and the run ends.
Stop ==
  /\ at \in {"turn", "checkpoint", "persist", "working", "answered", "completed"}
  /\ \E state \in {"FAILED", "INTERRUPTED"} : Close(state)
  /\ writers' = writers \ {Len(jobs)}
  /\ at' = "stopped"
  /\ UNCHANGED <<ledger, session, resets, turn, threads, continuing, kills, acts>>

-----------------------------------------------------------------------------
(* After the turn.                                                         *)

\* Only now does the pointer say what the thread has been given.
Save ==
  /\ at = "save"
  /\ session' = [session EXCEPT ![Conversation(Job.stage)].thread = Job.thread,
                                ![Conversation(Job.stage)].known = turn.shows]
  /\ at' = "load"
  /\ UNCHANGED <<ledger, resets, jobs, turn, threads, writers, continuing, kills, acts>>

\* Without a receipt, or with another file than the one submitted, the
\* worker is asked again.
Refuse ==
  /\ at = "load"
  /\ turn.receipt = None \/ turn.receipt # turn.file
  /\ at' = "idle"
  /\ continuing' = TRUE
  /\ turn' = NoTurn
  /\ UNCHANGED <<ledger, session, resets, jobs, threads, writers, kills, acts>>

Load ==
  /\ at = "load"
  /\ turn.receipt # None /\ turn.receipt = turn.file
  /\ at' = "judge"
  /\ UNCHANGED <<ledger, session, resets, jobs, turn, threads, writers, continuing, kills, acts>>

\* The result passes, is put to the worker again, or asks for the repair of an
\* earlier stage of the phase, which resets all that follows, started or not.
Judge ==
  /\ at = "judge"
  /\ at' = "idle"
  /\ turn' = NoTurn
  /\ \/ /\ passed' = passed \cup {Stage}
        /\ feedback' = feedback \ {Stage}
        /\ continuing' = FALSE
     \/ continuing' = TRUE /\ UNCHANGED <<passed, feedback>>
     \/ \E s \in passed :
          /\ Phase(s) = Phase(Stage)
          /\ passed' = {r \in passed : Position(r) < Position(s)}
          /\ feedback' = feedback \cup {r \in Stages : Position(s) <= Position(r)}
          /\ continuing' = FALSE
  /\ UNCHANGED <<policy, material, session, resets, jobs, threads, writers, kills, acts>>

-----------------------------------------------------------------------------
(* Faults.                                                                 *)

\* The controller is killed; the process of its turn has a session of its own.
Kill ==
  /\ at # "stopped"
  /\ kills < MaxKills
  /\ kills' = kills + 1
  /\ at' = "stopped"
  /\ UNCHANGED <<ledger, session, resets, jobs, turn, threads, writers, continuing, acts>>

Orphans == {i \in writers : at = "stopped" \/ i # Len(jobs)}

\* Such a process ends at its next output, which nobody reads; what it has
\* asked of the model by then is paid for.
OrphanEnds ==
  \E i \in Orphans :
    /\ writers' = writers \ {i}
    /\ \/ UNCHANGED threads
       \/ ThreadOf(i) # None /\ threads' = Answered(ThreadOf(i))
    /\ UNCHANGED <<ledger, session, resets, jobs, turn, at, continuing, kills, acts>>

-----------------------------------------------------------------------------
Init ==
  /\ policy \in Policies
  /\ passed = {} /\ feedback = {}
  /\ material = 1
  /\ session = [c \in Conversations |->
                 [thread |-> None, known |-> None, handoff |-> None, boundary |-> FALSE]]
  /\ resets = <<>> /\ jobs = <<>> /\ threads = <<>>
  /\ turn = NoTurn
  /\ writers = {}
  /\ at = "stopped" /\ continuing = FALSE
  /\ kills = 0 /\ acts = 0

Turn == \/ Launch \/ Spawn \/ ThreadStarted \/ Checkpoint \/ PersistThread \/ WriteFile \/ Submit \/ Answer
        \/ Complete \/ Finish \/ Stop \/ Save \/ Refuse \/ Load \/ Judge

Next == \/ Open \/ Configure \/ Revise \/ Prepare \/ ResetAtBoundary \/ ResetByOperator
        \/ SwitchPointer \/ Turn \/ Kill \/ OrphanEnds

Spec == Init /\ [][Next]_vars

-----------------------------------------------------------------------------
(* Properties.                                                             *)

Metrics ==
  [stage : Stages, thread : Nat \cup {None}, baseline : Nat \cup {None},
   reported : Nat \cup {None}, state : {"RUNNING", "COMPLETED", "FAILED", "INTERRUPTED"}]

Turns ==
  [shows : Revisions \cup {None}, gives : Revisions \cup {None},
   handoff : DOMAIN resets \cup {None}, file : Contents \cup {None}, receipt : Contents \cup {None}]

\* The pointers name threads that exist and handoffs the ledger knows, metrics
\* and the steps of a turn fit together.
TypeOK ==
  /\ policy \in Policies /\ passed \subseteq Stages /\ feedback \subseteq Stages
  /\ material \in Revisions
  /\ session \in [Conversations -> [thread : DOMAIN threads \cup {None},
                                    known : Revisions \cup {None},
                                    handoff : DOMAIN resets \cup {None}, boundary : BOOLEAN]]
  /\ \A i \in DOMAIN resets : resets[i] \in
       [conversation : Conversations, thread : DOMAIN threads, automatic : BOOLEAN]
  /\ \A i \in DOMAIN jobs : jobs[i] \in Metrics
  /\ turn \in Turns
  /\ \A t \in DOMAIN threads : threads[t] \in
       [handoff : DOMAIN resets \cup {None}, told : SUBSET Revisions, counter : Nat,
        first : DOMAIN jobs]
  /\ writers \subseteq DOMAIN jobs
  /\ at \in {"stopped", "idle", "reset", "switch", "launch", "spawn", "turn", "checkpoint",
             "persist", "working", "answered", "completed", "save", "load", "judge"}
  /\ continuing \in BOOLEAN /\ kills \in Nat /\ acts \in Nat

\* Prompts omit what the thread is noted to have (sessions.py, input_changes
\* and known_documents): it has been given just that, in a turn that completed,
\* across failures, kills, resets and new threads.
KnownWasSupplied ==
  \A c \in Conversations :
    session[c].known # None =>
      /\ session[c].thread # None
      /\ session[c].known \in threads[session[c].thread].told

\* A conversation is not lost (context_reset.py): one that has had a completed
\* turn saved has a thread or a pending handoff, and a thread that began after
\* a reset began with the handoff now in force.
ContinuityKept ==
  \A c \in Conversations :
    /\ session[c].thread = None /\ session[c].handoff = None =>
         ~\E i \in DOMAIN jobs : /\ Conversation(jobs[i].stage) = c
                                 /\ jobs[i].state = "COMPLETED"
    /\ session[c].thread # None /\ session[c].handoff # None =>
         threads[session[c].thread].handoff = session[c].handoff

\* The jobs of a thread are never charged more than the thread has consumed
\* (accounting.py), although counters are cumulative and reports get lost.
ChargedFrom[n \in Nat] ==
  [t \in 1..MaxJobs |->
     IF n = 0 THEN 0
     ELSE ChargedFrom[n - 1][t] + IF jobs[n].thread = t THEN Charged(jobs[n]) ELSE 0]

NeverChargedTwice ==
  \A t \in DOMAIN threads : ChargedFrom[Len(jobs)][t] <= threads[t].counter

\* A thread in which execution has begun is only ever given up by an operator,
\* and the worker's conversation is rotated at most once (context_policy.py),
\* whatever is killed in between and however often the policy is changed.
ExecutionKept ==
  [][\A c \in Conversations :
       session'[c].thread # session[c].thread /\ session[c].thread # None =>
         \/ ~resets[Len(resets)].automatic
         \/ /\ ~session[c].boundary
            /\ ~\E i \in DOMAIN jobs : /\ jobs[i].thread = session[c].thread
                                       /\ Phase(jobs[i].stage) = "delivery"
                                       /\ jobs[i].stage # "framework" \/ policy = "analysis-handoff"]_vars
=============================================================================
