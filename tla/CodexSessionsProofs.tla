------------------------ MODULE CodexSessionsProofs ------------------------
(***************************************************************************)
(* Proofs about CodexSessions, for any number of revisions, contents,      *)
(* turns, kills and resets, with and without the review of the analysis.   *)
(*                                                                         *)
(* What a pointer notes, and that a conversation goes on, are kept because *)
(* the metrics, the pointer and the CLI agree on the thread of the turn    *)
(* under way although each learns of it at another step (InTurn), and      *)
(* because a thread belongs to the conversation of the job that began it   *)
(* (Owned), whichever controller is killed in between.                     *)
(*                                                                         *)
(* What a thread was charged is a sum over its jobs.  Up to a job that     *)
(* reported a counter it is at most that counter, and up to the job under  *)
(* way at most its baseline (Covered).                                     *)
(***************************************************************************)
EXTENDS CodexSessions, FiniteSetTheorems, SequenceTheorems, WellFoundedInduction, TLAPS

-----------------------------------------------------------------------------
(* The inductive invariant.                                                *)

Pointer == [thread : Nat \cup {None}, known : Revisions \cup {None},
            handoff : Nat \cup {None}, boundary : BOOLEAN]

ResetEvent == [conversation : Conversations, thread : Nat, automatic : BOOLEAN]

Thread == [handoff : Nat \cup {None}, told : SUBSET Revisions, counter : Nat, first : Nat]

TurnRecord ==
  [shows : Revisions \cup {None}, gives : Revisions \cup {None}, handoff : Nat \cup {None},
   file : Contents \cup {None}, receipt : Contents \cup {None}]

Places == {"stopped", "idle", "reset", "switch", "launch", "spawn", "turn", "checkpoint",
           "persist", "working", "answered", "completed", "save", "load", "judge"}

\* The steps between the launch of a turn and its end.
Begun == {"spawn", "turn"}
Placed == {"persist", "working", "answered", "completed", "save"}
OfTurn == Begun \cup {"checkpoint"} \cup Placed

Types ==
  /\ policy \in Policies /\ passed \subseteq Stages /\ feedback \subseteq Stages
  /\ material \in Revisions
  /\ session \in [Conversations -> Pointer]
  /\ resets \in Seq(ResetEvent)
  /\ jobs \in Seq(Metrics)
  /\ turn \in TurnRecord
  /\ threads \in Seq(Thread)
  /\ at \in Places
  /\ continuing \in BOOLEAN /\ kills \in Nat /\ acts \in Nat

References ==
  /\ \A c \in Conversations : /\ session[c].thread \in DOMAIN threads \cup {None}
                              /\ session[c].handoff \in DOMAIN resets \cup {None}
  /\ \A i \in DOMAIN resets : resets[i].thread \in DOMAIN threads
  /\ \A i \in DOMAIN jobs : jobs[i].thread \in DOMAIN threads \cup {None}
  /\ \A t \in DOMAIN threads : /\ threads[t].handoff \in DOMAIN resets \cup {None}
                               /\ threads[t].first \in DOMAIN jobs
  /\ turn.handoff \in DOMAIN resets \cup {None}
  /\ writers \subseteq DOMAIN jobs

\* There is a stage to work on, an event to act on, a job to end.
Steps ==
  /\ at \in Places \ {"stopped", "idle", "switch"} => Due # {}
  /\ at = "switch" => resets # <<>> /\ (resets[Len(resets)].automatic => Due # {})
  /\ at \in OfTurn => jobs # <<>>

\* A thread belongs to the conversation of the job it began with.
Owner(t) == Conversation(jobs[threads[t].first].stage)

Owned ==
  /\ \A i \in DOMAIN jobs : jobs[i].thread # None => Owner(jobs[i].thread) = Conversation(jobs[i].stage)
  /\ \A c \in Conversations : session[c].thread # None => Owner(session[c].thread) = c

\* The pointer of the conversation at work.
Own == session[Conversation(Job.stage)]

\* The thread of the turn under way.
Current == ThreadOf(Len(jobs))

\* Metrics, pointer and CLI agree on the thread of the turn under way, and the
\* prompt leaves out only what that thread has.
InTurn ==
  /\ at \in Begun => /\ Job.thread = Own.thread
                     /\ \A t \in DOMAIN threads : threads[t].first # Len(jobs)
                     /\ Own.thread = None => turn.handoff = Own.handoff
  /\ at = "checkpoint" => /\ Current # None
                          /\ Own.thread \in {None, Current}
                          /\ Own.thread = None => threads[Current].handoff = Own.handoff
  /\ at \in Placed => Current # None /\ Own.thread = Current
  /\ at \in Placed \ {"persist"} => Job.thread = Current
  /\ at \in OfTurn => /\ turn.shows # None
                      /\ turn.gives \in {None, turn.shows}
                      /\ turn.gives = None => Own.known = turn.shows
  /\ at \in {"completed", "save"} => turn.shows \in threads[Current].told

\* A rotation about to be carried out concerns a conversation it may concern.
MayRotate(c) ==
  /\ ~session[c].boundary
  /\ c = "worker"
  /\ ~Started({"implementation"})
  /\ policy = "analysis-handoff" => ~Started({"framework"})

Rotating ==
  /\ at = "reset" => Conversation(Stage) = "worker" /\ MayRotate("worker")
  /\ at = "switch" /\ resets[Len(resets)].automatic => MayRotate(resets[Len(resets)].conversation)

Inv == /\ Types
       /\ References
       /\ Steps
       /\ Owned
       /\ InTurn
       /\ KnownWasSupplied
       /\ ContinuityKept
       /\ Rotating

-----------------------------------------------------------------------------
(* Numbers.                                                                *)

\* A bounded set of naturals that has a member has a greatest one.
LEMMA Greatest ==
  ASSUME NEW T \in SUBSET Nat, T # {}, NEW n \in Nat, \A i \in T : i <= n
  PROVE  \E m \in T : \A j \in T : j <= m
<1> DEFINE U == {n - i : i \in T}
<1>1. U \in SUBSET Nat /\ U # {}
  <2>1. \A i \in T : i \in Nat /\ n - i \in Nat
    OBVIOUS
  <2> QED BY <2>1
<1>2. PICK u \in U : \A v \in U : ~(<<v, u>> \in OpToRel(<, Nat))
  BY <1>1, NatLessThanWellFounded, WFMin
<1>3. PICK m \in T : u = n - m
  BY <1>2
<1>4. \A j \in T : ~(n - j < n - m)
  BY <1>1, <1>2, <1>3 DEF OpToRel
<1>5. \A j \in T : j <= m
  BY <1>4
<1> QED BY <1>5

\* A set of naturals with 0 and with every successor has them all.
LEMMA Induction ==
  ASSUME NEW S, 0 \in S, \A n \in Nat : n \in S => n + 1 \in S
  PROVE  \A n \in Nat : n \in S
<1> SUFFICES ASSUME NEW m \in Nat, m \notin S PROVE FALSE
  OBVIOUS
<1> DEFINE U == Nat \ S
<1>1. U \in SUBSET Nat /\ U # {}
  OBVIOUS
<1>2. PICK u \in U : \A v \in U : ~(<<v, u>> \in OpToRel(<, Nat))
  BY <1>1, NatLessThanWellFounded, WFMin
<1>3. u # 0 /\ u - 1 \in Nat /\ (u - 1) + 1 = u
  OBVIOUS
<1>4. \A v \in U : ~(v < u)
  BY <1>1, <1>2 DEF OpToRel
<1>5. u - 1 \notin U
  BY <1>3, <1>4
<1> QED BY <1>3, <1>5

-----------------------------------------------------------------------------
(* Stages, jobs and threads.                                               *)

LEMMA ConversationOfStage ==
  \A s : Conversation(s) \in Conversations
BY DEF Conversation, Conversations

LEMMA StageIsStage ==
  ASSUME Due # {}
  PROVE  Stage \in Stages
BY DEF Due, Stage

\* The three sequences as functions on their indices.
LEMMA Shapes ==
  ASSUME Types
  PROVE  /\ Len(jobs) \in Nat /\ DOMAIN jobs = 1 .. Len(jobs)
         /\ \A i \in DOMAIN jobs : jobs[i] \in Metrics
         /\ Len(threads) \in Nat /\ DOMAIN threads = 1 .. Len(threads)
         /\ \A t \in DOMAIN threads : threads[t] \in Thread
         /\ Len(resets) \in Nat /\ DOMAIN resets = 1 .. Len(resets)
         /\ \A i \in DOMAIN resets : resets[i] \in ResetEvent
BY LenProperties, ElementOfSeq DEF Types

\* A counter to subtract is a number or unknown.
LEMMA UsageIsNumber ==
  ASSUME Types, NEW thread
  PROVE  LatestUsage(thread) \in Nat \cup {None}
<1> DEFINE of == {i \in DOMAIN jobs : jobs[i].thread = thread}
<1>1. CASE thread = None \/ of = {}
  BY <1>1 DEF LatestUsage
<1>2. CASE thread # None /\ of # {}
  <2>1. \E m \in of : \A j \in of : j <= m
    <3>1. of \in SUBSET Nat /\ Len(jobs) \in Nat /\ \A i \in of : i <= Len(jobs)
      BY Shapes
    <3> HIDE DEF of
    <3> QED BY <1>2, <3>1, Greatest
  <2>2. (CHOOSE i \in of : \A j \in of : j <= i) \in of
    BY <2>1
  <2>3. \A i \in of : jobs[i].reported \in Nat \cup {None}
    BY Shapes DEF Metrics
  <2>4. LatestUsage(thread) = jobs[CHOOSE i \in of : \A j \in of : j <= i].reported
    BY <1>2 DEF LatestUsage
  <2> HIDE DEF of
  <2> QED BY <2>2, <2>3, <2>4
<1> QED BY <1>1, <1>2

\* The thread of a job is one of the CLI's, of the conversation of the job.
LEMMA ThreadOfJob ==
  ASSUME Types, References, Owned, NEW i \in DOMAIN jobs
  PROVE  /\ ThreadOf(i) \in DOMAIN threads \cup {None}
         /\ ThreadOf(i) # None => Owner(ThreadOf(i)) = Conversation(jobs[i].stage)
<1> DEFINE own == {t \in DOMAIN threads : threads[t].first = i}
<1>1. CASE own = {}
  BY <1>1 DEF ThreadOf, References, Owned
<1>2. CASE own # {}
  <2>1. PICK t \in own : ThreadOf(i) = t
    BY <1>2 DEF ThreadOf
  <2> QED BY <2>1 DEF Owner
<1> QED BY <1>1, <1>2

\* A thread that begins with a job is that job's.
LEMMA ThreadOfFirst ==
  ASSUME NEW i, NEW t \in DOMAIN threads, threads[t].first = i
  PROVE  ThreadOf(i) \in DOMAIN threads /\ threads[ThreadOf(i)].first = i
<1> DEFINE own == {u \in DOMAIN threads : threads[u].first = i}
<1>1. own # {}
  OBVIOUS
<1> QED BY <1>1 DEF ThreadOf

\* It stays the same while threads begin with the jobs they began with and the
\* job keeps what it notes, or notes this.
LEMMA ThreadOfKept ==
  ASSUME DOMAIN threads' = DOMAIN threads,
         \A t \in DOMAIN threads : threads'[t].first = threads[t].first,
         NEW i, jobs'[i].thread \in {jobs[i].thread, ThreadOf(i)}
  PROVE  ThreadOf(i)' = ThreadOf(i)
<1> DEFINE own == {t \in DOMAIN threads : threads[t].first = i}
           ownNext == {t \in DOMAIN threads' : threads'[t].first = i}
<1>1. own = ownNext
  OBVIOUS
<1>2. ThreadOf(i) = IF own = {} THEN jobs[i].thread ELSE CHOOSE t \in own : TRUE
  BY DEF ThreadOf
<1>3. ThreadOf(i)' = IF ownNext = {} THEN jobs'[i].thread ELSE CHOOSE t \in ownNext : TRUE
  BY DEF ThreadOf
<1>4. CASE own = {}
  BY <1>1, <1>2, <1>3, <1>4
<1>5. CASE own # {}
  <2> HIDE DEF own, ownNext
  <2> QED BY <1>1, <1>2, <1>3, <1>5
<1> QED BY <1>4, <1>5

-----------------------------------------------------------------------------
(* Types.                                                                  *)

LEMMA InitialState == Init => Inv
<1> SUFFICES ASSUME Init PROVE Inv
  OBVIOUS
<1> USE SessionAssumption DEF Init
<1>1. Types
  <2>1. NoTurn \in TurnRecord
    BY DEF NoTurn, TurnRecord
  <2> QED BY <2>1, EmptySeq DEF Types, Pointer, Places
<1>2. References
  BY DEF References, NoTurn
<1>3. Steps /\ Owned /\ InTurn /\ Rotating
  BY DEF Steps, Owned, InTurn, Rotating, OfTurn, Begun, Placed
<1>4. KnownWasSupplied /\ ContinuityKept
  BY DEF KnownWasSupplied, ContinuityKept
<1> QED BY <1>1, <1>2, <1>3, <1>4 DEF Inv

LEMMA TypesKept ==
  ASSUME Inv, [Next]_vars
  PROVE  Types'
<1> USE SessionAssumption
<1>0. /\ Types /\ References /\ Owned /\ Steps
      /\ \A s : Conversation(s) \in Conversations
  BY ConversationOfStage DEF Inv
<1>1. /\ Len(jobs) \in Nat /\ DOMAIN jobs = 1 .. Len(jobs)
      /\ \A i \in DOMAIN jobs : jobs[i] \in Metrics
      /\ Len(threads) \in Nat /\ DOMAIN threads = 1 .. Len(threads)
      /\ \A t \in DOMAIN threads : threads[t] \in Thread
      /\ Len(resets) \in Nat /\ DOMAIN resets = 1 .. Len(resets)
      /\ \A i \in DOMAIN resets : resets[i] \in ResetEvent
  BY <1>0, Shapes
<1>2. at \in OfTurn => Len(jobs) \in DOMAIN jobs
  BY <1>0, <1>1, EmptySeq DEF Types, Steps
<1>3. Due # {} => Stage \in Stages
  BY StageIsStage
<1>4. at \in OfTurn => ThreadOf(Len(jobs)) \in DOMAIN threads \cup {None}
  BY <1>0, <1>2, ThreadOfJob
<1>5. NoTurn \in TurnRecord
  BY DEF NoTurn, TurnRecord
<1>6. CASE UNCHANGED vars
  BY <1>6, <1>0 DEF vars, ledger, Types
<1>7. CASE Open \/ Refuse
  BY <1>7, <1>0, <1>5 DEF Open, Refuse, Types, Places, ledger
<1>8. CASE Configure \/ Revise
  BY <1>8, <1>0 DEF Configure, Revise, Types, ledger
<1>9. CASE Prepare
  BY <1>9, <1>0 DEF Prepare, Types, Places, ledger
<1>10. CASE ResetAtBoundary \/ ResetByOperator
  <2>1. PICK c \in Conversations, automatic \in BOOLEAN :
          Reset(c, automatic) /\ acts' \in Nat
    <3>1. CASE ResetAtBoundary
      BY <3>1, <1>0 DEF ResetAtBoundary, Types
    <3>2. CASE ResetByOperator
      <4>1. acts' \in Nat
        BY <3>2, <1>0 DEF ResetByOperator, Types
      <4> QED BY <3>2, <4>1 DEF ResetByOperator
    <3> QED BY <1>10, <3>1, <3>2
  <2>2. [conversation |-> c, thread |-> session[c].thread, automatic |-> automatic] \in ResetEvent
    BY <2>1, <1>0 DEF Reset, Types, Pointer, ResetEvent
  <2> QED BY <2>1, <2>2, <1>0, AppendProperties DEF Reset, Types, Places, ledger
<1>11. CASE SwitchPointer
  <2>1. resets # <<>> /\ Len(resets) \in DOMAIN resets
    BY <1>11, <1>0, <1>1, EmptySeq DEF SwitchPointer, Steps, Types
  <2>2. resets[Len(resets)] \in ResetEvent
    BY <2>1, <1>1
  <2>3. session' \in [Conversations -> Pointer]
    BY <1>11, <2>2, <1>0, <1>1 DEF SwitchPointer, Types, Pointer, ResetEvent
  <2> QED BY <1>11, <2>3, <1>0 DEF SwitchPointer, Types, Places, ledger
<1>12. CASE Launch
  <2> DEFINE own == session[Conversation(Stage)]
             job == [stage |-> Stage, thread |-> own.thread, baseline |-> LatestUsage(own.thread),
                     reported |-> None, state |-> "RUNNING"]
  <2>1. Stage \in Stages
    BY <1>12, <1>0, <1>3 DEF Launch, Steps, Places
  <2>2. own \in Pointer
    BY <1>0 DEF Types
  <2>3. job \in Metrics
    BY <2>1, <2>2, <1>0, UsageIsNumber DEF Metrics, Pointer
  <2>4. jobs' = Append(jobs, job)
    BY <1>12 DEF Launch
  <2>5. jobs' \in Seq(Metrics)
    BY <2>3, <2>4, <1>0, AppendProperties DEF Types
  <2>6. turn' \in TurnRecord
    <3>1. turn' = [shows |-> material, gives |-> IF own.known = material THEN None ELSE material,
                   handoff |-> IF own.thread = None THEN own.handoff ELSE None,
                   file |-> None, receipt |-> None]
      BY <1>12 DEF Launch, NoTurn
    <3>2. material \in Revisions /\ own.handoff \in Nat \cup {None}
      BY <2>2, <1>0 DEF Types, Pointer
    <3> HIDE DEF own
    <3> QED BY <3>1, <3>2 DEF TurnRecord
  <2> QED BY <1>12, <2>5, <2>6, <1>0 DEF Launch, Types, Places, ledger
<1>13. CASE Spawn \/ Load \/ Kill
  BY <1>13, <1>0 DEF Spawn, Load, Kill, Types, Places, ledger
<1>14. CASE ThreadStarted
  <2>1. [handoff |-> turn.handoff, told |-> {}, counter |-> 0, first |-> Len(jobs)] \in Thread
    BY <1>0, <1>1 DEF Types, TurnRecord, Thread
  <2>2. threads' \in Seq(Thread)
    BY <1>14, <2>1, <1>0, AppendProperties DEF ThreadStarted, Types
  <2> QED BY <1>14, <2>2, <1>0 DEF ThreadStarted, Types, Places, ledger
<1>15. CASE Checkpoint
  <2>1. ThreadOf(Len(jobs)) \in Nat \cup {None}
    BY <1>15, <1>1, <1>4 DEF Checkpoint, OfTurn
  <2>2. \A c \in Conversations : [session[c] EXCEPT !.thread = ThreadOf(Len(jobs))] \in Pointer
    <3> TAKE c \in Conversations
    <3>1. session[c] \in Pointer
      BY <1>0 DEF Types
    <3> QED BY <2>1, <3>1 DEF Pointer
  <2>3. session' = [session EXCEPT ![Conversation(Job.stage)].thread = ThreadOf(Len(jobs))]
    BY <1>15 DEF Checkpoint
  <2>4. session' \in [Conversations -> Pointer]
    <3>1. session \in [Conversations -> Pointer]
      BY <1>0 DEF Types
    <3> QED BY <2>2, <2>3, <3>1
  <2> QED BY <1>15, <2>4, <1>0 DEF Checkpoint, Types, Places, ledger
<1>16. CASE PersistThread \/ Finish \/ Stop
  <2>1. at \in OfTurn
    BY <1>16 DEF PersistThread, Finish, Stop, OfTurn, Begun, Placed
  <2>2. PICK state \in {"RUNNING", "COMPLETED", "FAILED", "INTERRUPTED"} :
          jobs' = [jobs EXCEPT ![Len(jobs)] =
                    [@ EXCEPT !.state = state, !.thread = ThreadOf(Len(jobs))]]
    <3>1. Job \in Metrics
      BY <2>1, <1>1, <1>2 DEF Job
    <3>2. CASE PersistThread
      <4>1. Job.state \in {"RUNNING", "COMPLETED", "FAILED", "INTERRUPTED"}
        BY <3>1 DEF Metrics
      <4>2. [Job EXCEPT !.thread = ThreadOf(Len(jobs))]
             = [Job EXCEPT !.state = Job.state, !.thread = ThreadOf(Len(jobs))]
        BY <3>1 DEF Metrics
      <4>3. jobs' = [jobs EXCEPT ![Len(jobs)] =
                      [@ EXCEPT !.state = Job.state, !.thread = ThreadOf(Len(jobs))]]
        BY <3>2, <4>2 DEF PersistThread, Job
      <4> QED BY <4>1, <4>3
    <3>3. CASE Finish \/ Stop
      BY <3>3 DEF Finish, Stop, Close
    <3> QED BY <1>16, <3>2, <3>3
  <2>3. [Job EXCEPT !.state = state, !.thread = ThreadOf(Len(jobs))] \in Metrics
    <3>1. Job \in Metrics
      BY <2>1, <1>1, <1>2 DEF Job
    <3>2. ThreadOf(Len(jobs)) \in Nat \cup {None}
      BY <2>1, <1>1, <1>4
    <3> QED BY <3>1, <3>2 DEF Metrics
  <2>4. jobs' \in Seq(Metrics)
    BY <2>1, <2>2, <2>3, <1>0, <1>1, <1>2, ExceptSeq DEF Types, Job
  <2> QED BY <1>16, <2>4, <1>0 DEF PersistThread, Finish, Stop, Types, Places, ledger
<1>17. CASE WriteFile \/ Submit
  <2>1. turn' \in TurnRecord
    BY <1>17, <1>0 DEF WriteFile, Submit, Types, TurnRecord
  <2> QED BY <1>17, <2>1, <1>0 DEF WriteFile, Submit, Types, ledger
<1>18. CASE Answer \/ OrphanEnds
  <2>1. \A t \in DOMAIN threads : Answered(t) \in Seq(Thread)
    <3> TAKE t \in DOMAIN threads
    <3>1. threads[t] \in Thread
      BY <1>1
    <3>2. [threads[t] EXCEPT !.counter = threads[t].counter + 1] \in Thread
      BY <3>1 DEF Thread
    <3>3. Answered(t) = [threads EXCEPT ![t] =
                          [threads[t] EXCEPT !.counter = threads[t].counter + 1]]
      BY DEF Answered
    <3> QED BY <3>2, <3>3, <1>0, <1>1, ExceptSeq DEF Types
  <2>2. threads' \in Seq(Thread)
    <3>1. CASE Answer
      <4>1. Job.thread \in DOMAIN threads
        BY <3>1, <1>4 DEF Answer, Inv, InTurn, OfTurn, Placed, Current
      <4> QED BY <3>1, <4>1, <2>1 DEF Answer
    <3>2. CASE OrphanEnds
      <4>1. PICK i \in writers :
              UNCHANGED threads \/ (ThreadOf(i) # None /\ threads' = Answered(ThreadOf(i)))
        BY <3>2 DEF OrphanEnds, Orphans
      <4>2. ThreadOf(i) \in DOMAIN threads \cup {None}
        BY <4>1, <1>0, ThreadOfJob DEF References
      <4> QED BY <4>1, <4>2, <2>1, <1>0 DEF Types
    <3> QED BY <1>18, <3>1, <3>2
  <2>3. /\ UNCHANGED <<ledger, session, resets, jobs, turn, continuing, kills, acts>>
        /\ at' \in Places
    <3>1. CASE Answer
      BY <3>1 DEF Answer, Places
    <3>2. CASE OrphanEnds
      <4>1. UNCHANGED <<ledger, session, resets, jobs, turn, at, continuing, kills, acts>>
        BY <3>2 DEF OrphanEnds
      <4> QED BY <4>1, <1>0 DEF Types
    <3> QED BY <1>18, <3>1, <3>2
  <2> QED BY <2>2, <2>3, <1>0 DEF Types, ledger
<1>19. CASE Complete
  <2>1. Job.thread \in DOMAIN threads /\ Len(jobs) \in DOMAIN jobs
    BY <1>19, <1>2, <1>4 DEF Complete, Inv, InTurn, OfTurn, Placed, Current
  <2>2. threads[Job.thread] \in Thread /\ Job \in Metrics
    BY <2>1, <1>1 DEF Job
  <2>3. [Job EXCEPT !.reported = threads[Job.thread].counter] \in Metrics
    BY <2>2 DEF Thread, Metrics
  <2>4. jobs' = [jobs EXCEPT ![Len(jobs)] = [Job EXCEPT !.reported = threads[Job.thread].counter]]
    BY <1>19 DEF Complete, Job
  <2>5. jobs' \in Seq(Metrics)
    BY <2>1, <2>3, <2>4, <1>0, <1>1, ExceptSeq DEF Types
  <2>6. turn.gives \in Revisions \cup {None}
    BY <1>0 DEF Types, TurnRecord
  <2>7. [threads[Job.thread] EXCEPT !.told = threads[Job.thread].told \cup ({turn.gives} \ {None})]
          \in Thread
    BY <2>2, <2>6 DEF Thread
  <2>8. threads' = [threads EXCEPT ![Job.thread] =
          [threads[Job.thread] EXCEPT !.told = threads[Job.thread].told \cup ({turn.gives} \ {None})]]
    BY <1>19 DEF Complete
  <2>9. threads' \in Seq(Thread)
    BY <2>1, <2>7, <2>8, <1>0, <1>1, ExceptSeq DEF Types
  <2> QED BY <1>19, <2>5, <2>9, <1>0 DEF Complete, Types, Places, ledger
<1>20. CASE Save
  <2>1. Job \in Metrics
    BY <1>20, <1>1, <1>2 DEF Save, OfTurn, Placed, Job
  <2>2. Job.thread \in Nat \cup {None} /\ turn.shows \in Revisions \cup {None}
    BY <2>1, <1>0 DEF Metrics, Types, TurnRecord
  <2> DEFINE c == Conversation(Job.stage)
             saved == [session[c] EXCEPT !.thread = Job.thread, !.known = turn.shows]
  <2>4. c \in Conversations /\ session[c] \in Pointer
    BY <1>0 DEF Types
  <2>5. saved \in Pointer
    BY <2>2, <2>4 DEF Pointer
  <2>6. session' = [session EXCEPT ![c] = saved]
    BY <1>20, <1>0, <2>4 DEF Save, Types
  <2> HIDE DEF c, saved
  <2>3. session' \in [Conversations -> Pointer]
    BY <2>4, <2>5, <2>6, <1>0 DEF Types
  <2> QED BY <1>20, <2>3, <1>0 DEF Save, Types, Places, ledger
<1>21. CASE Judge
  BY <1>21, <1>0, <1>3, <1>5 DEF Judge, Types, Places, ledger, Steps
<1> QED BY <1>6, <1>7, <1>8, <1>9, <1>10, <1>11, <1>12, <1>13, <1>14, <1>15, <1>16, <1>17,
           <1>18, <1>19, <1>20, <1>21 DEF Next, Turn

-----------------------------------------------------------------------------
(* What the steps do to metrics, threads, resets and pointers.             *)

LEMMA Situation ==
  ASSUME Inv
  PROVE  /\ Len(jobs) \in Nat /\ DOMAIN jobs = 1 .. Len(jobs)
         /\ \A i \in DOMAIN jobs : jobs[i] \in Metrics
         /\ Len(threads) \in Nat /\ DOMAIN threads = 1 .. Len(threads)
         /\ \A t \in DOMAIN threads : threads[t] \in Thread
         /\ Len(resets) \in Nat /\ DOMAIN resets = 1 .. Len(resets)
         /\ \A i \in DOMAIN resets : resets[i] \in ResetEvent
         /\ \A c \in Conversations : session[c] \in Pointer
         /\ at \in OfTurn => Len(jobs) \in DOMAIN jobs /\ Job \in Metrics
         /\ \A i \in DOMAIN jobs : ThreadOf(i) \in DOMAIN threads \cup {None}
         /\ \A i \in DOMAIN jobs :
              ThreadOf(i) # None => Owner(ThreadOf(i)) = Conversation(jobs[i].stage)
<1>1. Types /\ References /\ Owned /\ Steps
  BY DEF Inv
<1>2. Len(jobs) \in Nat /\ DOMAIN jobs = 1 .. Len(jobs) /\ \A i \in DOMAIN jobs : jobs[i] \in Metrics
  BY <1>1, Shapes
<1>3. at \in OfTurn => Len(jobs) \in DOMAIN jobs
  BY <1>1, <1>2, EmptySeq DEF Types, Steps
<1>4. \A c \in Conversations : session[c] \in Pointer
  BY <1>1 DEF Types
<1> QED BY <1>1, <1>2, <1>3, <1>4, Shapes, ThreadOfJob DEF Job

\* But for a launch the jobs are the same; only the one under way is written,
\* and the thread it notes is its own.
SameJobs ==
  /\ Len(jobs') = Len(jobs) /\ DOMAIN jobs' = DOMAIN jobs
  /\ \A i \in DOMAIN jobs :
       /\ jobs'[i].stage = jobs[i].stage
       /\ jobs'[i].thread \in {jobs[i].thread, ThreadOf(i)}
       /\ i # Len(jobs) \/ at \notin OfTurn => jobs'[i] = jobs[i]

\* But for the beginning of one the threads are the same, and forget nothing.
SameThreads ==
  /\ Len(threads') = Len(threads) /\ DOMAIN threads' = DOMAIN threads
  /\ \A t \in DOMAIN threads : /\ threads'[t].first = threads[t].first
                               /\ threads'[t].handoff = threads[t].handoff
                               /\ threads[t].told \subseteq threads'[t].told

LEMMA OneJobWritten ==
  ASSUME Inv, at \in OfTurn, NEW job, jobs' = [jobs EXCEPT ![Len(jobs)] = job],
         job.stage = Job.stage, job.thread \in {Job.thread, ThreadOf(Len(jobs))}
  PROVE  SameJobs
<1>1. /\ Len(jobs) \in Nat /\ DOMAIN jobs = 1 .. Len(jobs) /\ jobs \in Seq(Metrics)
      /\ Len(jobs) \in DOMAIN jobs
  BY Situation DEF Inv, Types
<1>2. Len(jobs') = Len(jobs) /\ DOMAIN jobs' = DOMAIN jobs
  <2>1. jobs \in Seq(Metrics \cup {job})
    BY <1>1, SeqMonotonic
  <2>2. jobs' \in Seq(Metrics \cup {job}) /\ Len(jobs') = Len(jobs)
    BY <2>1, <1>1, ExceptSeq
  <2> QED BY <2>2, <1>1, LenProperties
<1>3. \A i \in DOMAIN jobs : jobs'[i] = IF i = Len(jobs) THEN job ELSE jobs[i]
  BY <1>1
<1> QED BY <1>2, <1>3 DEF SameJobs, Job

LEMMA JobsAlike ==
  ASSUME Inv, [Next]_vars, ~Launch
  PROVE  SameJobs
<1>1. /\ Len(jobs) \in Nat /\ DOMAIN jobs = 1 .. Len(jobs) /\ jobs \in Seq(Metrics)
      /\ at \in OfTurn => Len(jobs) \in DOMAIN jobs /\ Job \in Metrics
  BY Situation DEF Inv, Types
<1>2. CASE UNCHANGED jobs
  BY <1>2, <1>1 DEF SameJobs
<1>3. CASE PersistThread
  <2> DEFINE job == [Job EXCEPT !.thread = ThreadOf(Len(jobs))]
  <2>1. at \in OfTurn /\ jobs' = [jobs EXCEPT ![Len(jobs)] = job]
    BY <1>3 DEF PersistThread, OfTurn, Placed, Job
  <2>2. job.stage = Job.stage /\ job.thread = ThreadOf(Len(jobs))
    BY <2>1, <1>1 DEF Metrics
  <2> HIDE DEF job
  <2> QED BY <2>1, <2>2, OneJobWritten
<1>4. CASE Finish \/ Stop
  <2>1. PICK state : at \in OfTurn /\ Close(state)
    BY <1>4 DEF Finish, Stop, OfTurn, Begun, Placed
  <2> DEFINE job == [Job EXCEPT !.state = state, !.thread = ThreadOf(Len(jobs))]
  <2>2. jobs' = [jobs EXCEPT ![Len(jobs)] = job]
    BY <2>1 DEF Close, Job
  <2>3. job.stage = Job.stage /\ job.thread = ThreadOf(Len(jobs))
    BY <2>1, <1>1 DEF Metrics
  <2> HIDE DEF job
  <2> QED BY <2>1, <2>2, <2>3, OneJobWritten
<1>5. CASE Complete
  <2> DEFINE job == [Job EXCEPT !.reported = threads[Job.thread].counter]
  <2>1. at \in OfTurn /\ jobs' = [jobs EXCEPT ![Len(jobs)] = job]
    BY <1>5 DEF Complete, OfTurn, Placed, Job
  <2>2. job.stage = Job.stage /\ job.thread = Job.thread
    BY <2>1, <1>1 DEF Metrics
  <2> HIDE DEF job
  <2> QED BY <2>1, <2>2, OneJobWritten
<1>6. UNCHANGED jobs \/ PersistThread \/ Finish \/ Stop \/ Complete
  BY DEF Next, Turn, vars, Open, Configure, Revise, Prepare, ResetAtBoundary, ResetByOperator, Reset,
    SwitchPointer, Spawn, ThreadStarted, Checkpoint, WriteFile, Submit, Answer, Save, Refuse, Load,
    Judge, Kill, OrphanEnds
<1> QED BY <1>2, <1>3, <1>4, <1>5, <1>6

LEMMA ThreadsAlike ==
  ASSUME Inv, [Next]_vars, ~ThreadStarted
  PROVE  SameThreads
<1>1. /\ Len(threads) \in Nat /\ DOMAIN threads = 1 .. Len(threads) /\ threads \in Seq(Thread)
      /\ \A t \in DOMAIN threads : threads[t] \in Thread
  BY Situation DEF Inv, Types
<1>2. CASE UNCHANGED threads
  BY <1>2, <1>1 DEF SameThreads
<1>3. CASE Answer \/ OrphanEnds
  <2>1. PICK x : threads' = threads \/ threads' = Answered(x)
    BY <1>3 DEF Answer, OrphanEnds
  <2>2. CASE threads' = [threads EXCEPT ![x] = [threads[x] EXCEPT !.counter = threads[x].counter + 1]]
    <3>1. DOMAIN threads' = DOMAIN threads /\ Len(threads') = Len(threads)
      BY <2>2, <1>1, LenProperties
    <3>2. \A t \in DOMAIN threads :
            \/ threads'[t] = threads[t]
            \/ threads'[t] = [threads[t] EXCEPT !.counter = threads[t].counter + 1]
      BY <2>2
    <3> QED BY <3>1, <3>2, <1>1 DEF SameThreads, Thread
  <2> QED BY <2>1, <2>2, <1>2 DEF Answered
<1>4. CASE Complete
  <2>1. threads' = [threads EXCEPT ![Job.thread] =
          [threads[Job.thread] EXCEPT !.told = threads[Job.thread].told \cup ({turn.gives} \ {None})]]
    BY <1>4 DEF Complete
  <2> QED BY <2>1, <1>1, LenProperties DEF SameThreads, Thread
<1>5. UNCHANGED threads \/ Answer \/ OrphanEnds \/ Complete
  BY DEF Next, Turn, vars, Open, Configure, Revise, Prepare, ResetAtBoundary, ResetByOperator, Reset,
    SwitchPointer, Spawn, Launch, PersistThread, Finish, Stop, Checkpoint, WriteFile, Submit, Save,
    Refuse, Load, Judge, Kill
<1> QED BY <1>2, <1>3, <1>4, <1>5

\* So the threads of jobs and the owners of threads are the same.
LEMMA ThreadsOfJobsAlike ==
  ASSUME Inv, SameJobs, SameThreads
  PROVE  /\ \A i \in DOMAIN jobs : ThreadOf(i)' = ThreadOf(i)
         /\ \A t \in DOMAIN threads : Owner(t)' = Owner(t)
         /\ at \in OfTurn => Current' = Current
<1>1. ASSUME NEW i \in DOMAIN jobs
      PROVE  ThreadOf(i)' = ThreadOf(i)
  BY ThreadOfKept DEF SameJobs, SameThreads
<1>2. \A t \in DOMAIN threads : Owner(t)' = Owner(t)
  BY DEF SameJobs, SameThreads, Owner, Inv, References
<1>3. at \in OfTurn => Current' = Current
  BY <1>1, Situation DEF Current, SameJobs
<1> QED BY <1>1, <1>2, <1>3

LEMMA ResetsGrow ==
  ASSUME Inv, [Next]_vars
  PROVE  /\ DOMAIN resets \subseteq DOMAIN resets'
         /\ \A i \in DOMAIN resets : resets'[i] = resets[i]
         /\ UNCHANGED resets \/ ResetAtBoundary \/ ResetByOperator
<1>1. UNCHANGED resets \/ ResetAtBoundary \/ ResetByOperator
  BY DEF Next, Turn, vars, Open, Configure, Revise, Prepare,
    SwitchPointer, Spawn, Launch, ThreadStarted, PersistThread, Finish, Stop, Checkpoint, WriteFile,
    Submit, Answer, Complete, Save, Refuse, Load, Judge, Kill, OrphanEnds
<1>2. CASE ResetAtBoundary \/ ResetByOperator
  <2>1. PICK event : resets' = Append(resets, event)
    BY <1>2 DEF ResetAtBoundary, ResetByOperator, Reset
  <2>2. resets \in Seq(ResetEvent \cup {event})
    BY SeqMonotonic DEF Inv, Types
  <2> QED BY <2>1, <2>2, <1>1, AppendProperties, LenProperties
<1> QED BY <1>1, <1>2

LEMMA PointersMove ==
  ASSUME [Next]_vars
  PROVE  UNCHANGED session \/ SwitchPointer \/ Checkpoint \/ Save
BY DEF Next, Turn, vars, Open, Configure, Revise, Prepare, ResetAtBoundary, ResetByOperator, Reset,
    Spawn, Launch, ThreadStarted, PersistThread, Finish, Stop, WriteFile, Submit, Answer, Complete,
    Refuse, Load, Judge, Kill, OrphanEnds

LEMMA Launched ==
  ASSUME Inv, Launch
  PROVE  /\ Stage \in Stages /\ Conversation(Stage) \in Conversations
         /\ Len(jobs') = Len(jobs) + 1 /\ DOMAIN jobs' = DOMAIN jobs \cup {Len(jobs) + 1}
         /\ \A i \in DOMAIN jobs : jobs'[i] = jobs[i]
         /\ Job'.stage = Stage /\ Job'.thread = session[Conversation(Stage)].thread
         /\ Job'.state = "RUNNING" /\ jobs'[Len(jobs) + 1] = Job'
<1> DEFINE own == session[Conversation(Stage)]
           job == [stage |-> Stage, thread |-> own.thread, baseline |-> LatestUsage(own.thread),
                   reported |-> None, state |-> "RUNNING"]
<1>1. Stage \in Stages
  BY StageIsStage DEF Launch, Inv, Steps, Places
<1>2. jobs' = Append(jobs, job)
  BY DEF Launch
<1>3. jobs \in Seq(Metrics \cup {job})
  BY SeqMonotonic DEF Inv, Types
<1>4. job.stage = Stage /\ job.thread = own.thread /\ job.state = "RUNNING"
  OBVIOUS
<1> HIDE DEF job
<1>5. /\ Len(jobs') = Len(jobs) + 1 /\ DOMAIN jobs' = DOMAIN jobs \cup {Len(jobs) + 1}
      /\ \A i \in DOMAIN jobs : jobs'[i] = jobs[i]
      /\ jobs'[Len(jobs) + 1] = job
  BY <1>2, <1>3, AppendProperties, LenProperties
<1>6. Job' = job
  BY <1>5 DEF Job
<1> QED BY <1>1, <1>4, <1>5, <1>6, ConversationOfStage

\* A thread the CLI begins is that of the job under way, from its handoff.
LEMMA ThreadBegun ==
  ASSUME Inv, ThreadStarted
  PROVE  /\ SameJobs
         /\ DOMAIN threads \subseteq DOMAIN threads'
         /\ \A t \in DOMAIN threads : threads'[t] = threads[t]
         /\ \A t \in DOMAIN threads' \ DOMAIN threads :
              threads'[t].first = Len(jobs) /\ threads'[t].handoff = turn.handoff
         /\ Job.thread # None => Current' = Job.thread
         /\ Job.thread = None => Current' \in DOMAIN threads' /\ threads'[Current'].handoff = turn.handoff
<1>1. /\ at = "turn" /\ UNCHANGED jobs
      /\ Len(jobs) \in DOMAIN jobs /\ threads \in Seq(Thread)
      /\ Len(threads) \in Nat /\ DOMAIN threads = 1 .. Len(threads)
  BY Situation DEF ThreadStarted, Inv, Types, OfTurn, Begun
<1>2. \A t \in DOMAIN threads : threads[t].first # Len(jobs)
  BY <1>1 DEF Inv, InTurn, Begun
<1>3. SameJobs
  BY <1>1 DEF SameJobs
<1>4. CASE Job.thread # None
  <2>1. UNCHANGED threads
    BY <1>4 DEF ThreadStarted
  <2>2. Current' = Job.thread
    BY <2>1, <1>1, <1>2 DEF Current, ThreadOf, Job
  <2> QED BY <1>3, <1>4, <2>1, <2>2
<1>5. CASE Job.thread = None
  <2> DEFINE new == [handoff |-> turn.handoff, told |-> {}, counter |-> 0, first |-> Len(jobs)]
  <2>1. threads' = Append(threads, new)
    BY <1>5 DEF ThreadStarted
  <2>2. threads \in Seq(Thread \cup {new})
    BY <1>1, SeqMonotonic
  <2>3. new.first = Len(jobs) /\ new.handoff = turn.handoff
    OBVIOUS
  <2> HIDE DEF new
  <2>4. /\ DOMAIN threads' = DOMAIN threads \cup {Len(threads) + 1}
        /\ \A t \in DOMAIN threads : threads'[t] = threads[t]
        /\ threads'[Len(threads) + 1] = new
    BY <2>1, <2>2, AppendProperties, LenProperties
  <2>5. {t \in DOMAIN threads' : threads'[t].first = Len(jobs')} = {Len(threads) + 1}
    BY <1>1, <1>2, <2>3, <2>4
  <2>6. Current' = Len(threads) + 1
    <3>1. Current' = CHOOSE t \in {Len(threads) + 1} : TRUE
      BY <2>5 DEF Current, ThreadOf
    <3> QED BY <3>1
  <2> QED BY <1>3, <1>5, <2>3, <2>4, <2>6
<1> QED BY <1>4, <1>5

\* Whatever happens, what there is stays and is not contradicted.
LEMMA Growth ==
  ASSUME Inv, [Next]_vars
  PROVE  /\ DOMAIN jobs \subseteq DOMAIN jobs'
         /\ \A i \in DOMAIN jobs : jobs'[i].stage = jobs[i].stage
         /\ DOMAIN threads \subseteq DOMAIN threads'
         /\ \A t \in DOMAIN threads : /\ threads'[t].first = threads[t].first
                                      /\ threads'[t].handoff = threads[t].handoff
                                      /\ threads[t].told \subseteq threads'[t].told
                                      /\ Owner(t)' = Owner(t)
<1>1. CASE Launch
  <2>1. SameThreads
    BY <1>1, Situation DEF Launch, SameThreads
  <2> QED BY <1>1, <2>1, Launched DEF SameThreads, Owner, Inv, References
<1>2. CASE ThreadStarted
  BY <1>2, ThreadBegun DEF SameJobs, Owner, Inv, References
<1>3. CASE ~Launch /\ ~ThreadStarted
  BY <1>3, JobsAlike, ThreadsAlike, ThreadsOfJobsAlike DEF SameJobs, SameThreads
<1> QED BY <1>1, <1>2, <1>3

-----------------------------------------------------------------------------
(* References, steps and owners.                                           *)

LEMMA ReferencesKept ==
  ASSUME Inv, [Next]_vars, Types'
  PROVE  References'
<1> USE SessionAssumption
<1>0. /\ References /\ Types
      /\ \A s : Conversation(s) \in Conversations
  BY ConversationOfStage DEF Inv
<1>1. \A c \in Conversations : /\ session'[c].thread \in DOMAIN threads' \cup {None}
                               /\ session'[c].handoff \in DOMAIN resets' \cup {None}
  <2>1. CASE UNCHANGED session
    BY <2>1, <1>0, Growth, ResetsGrow DEF References
  <2>2. CASE SwitchPointer
    <3>1. Len(resets) \in DOMAIN resets
      BY <2>2, <1>0, Situation, EmptySeq DEF SwitchPointer, Inv, Steps, Types
    <3>2. resets[Len(resets)].conversation \in Conversations
      BY <3>1, Situation DEF ResetEvent
    <3> QED BY <2>2, <3>1, <3>2, <1>0, Growth, ResetsGrow DEF SwitchPointer, References, Types
  <2>3. CASE Checkpoint \/ Save
    <3>1. at \in OfTurn /\ Len(jobs) \in DOMAIN jobs
      BY <2>3, Situation DEF Checkpoint, Save, OfTurn, Placed
    <3>2. \A c \in Conversations : /\ session'[c].thread \in {session[c].thread, Current, Job.thread}
                                   /\ session'[c].handoff = session[c].handoff
      <4>1. CASE Checkpoint
        BY <4>1, <1>0, Situation DEF Checkpoint, Current, Types, Pointer
      <4>2. CASE Save
        BY <4>2, <1>0, Situation DEF Save, Types, Pointer
      <4> QED BY <2>3, <4>1, <4>2
    <3>3. {Current, Job.thread} \subseteq DOMAIN threads \cup {None}
      BY <3>1, <1>0, Situation DEF Current, Job, References
    <3> QED BY <3>2, <3>3, <1>0, Growth, ResetsGrow DEF References
  <2> QED BY <2>1, <2>2, <2>3, PointersMove
<1>2. \A i \in DOMAIN resets' : resets'[i].thread \in DOMAIN threads'
  <2>1. CASE UNCHANGED resets
    BY <2>1, <1>0, Growth DEF References
  <2>2. CASE ResetAtBoundary \/ ResetByOperator
    <3>1. PICK c \in Conversations, automatic \in BOOLEAN : Reset(c, automatic)
      BY <2>2, <1>0 DEF ResetAtBoundary, ResetByOperator
    <3> DEFINE event == [conversation |-> c, thread |-> session[c].thread, automatic |-> automatic]
    <3>2. resets' = Append(resets, event) /\ resets \in Seq(ResetEvent \cup {event})
      BY <3>1, <1>0, SeqMonotonic DEF Reset, Types
    <3>3. event.thread \in DOMAIN threads
      BY <3>1, <1>0 DEF Reset, References
    <3> HIDE DEF event
    <3>4. /\ DOMAIN resets' = DOMAIN resets \cup {Len(resets) + 1}
          /\ resets'[Len(resets) + 1] = event
          /\ \A i \in DOMAIN resets : resets'[i] = resets[i]
      BY <3>2, AppendProperties, LenProperties
    <3> QED BY <3>3, <3>4, <1>0, Growth DEF References
  <2> QED BY <2>1, <2>2, ResetsGrow
<1>3. \A i \in DOMAIN jobs' : jobs'[i].thread \in DOMAIN threads' \cup {None}
  <2>1. CASE Launch
    <3>1. DOMAIN jobs' = DOMAIN jobs \cup {Len(jobs) + 1}
      BY <2>1, Launched
    <3>2. \A i \in DOMAIN jobs : jobs'[i].thread = jobs[i].thread
      BY <2>1, Launched
    <3>3. jobs'[Len(jobs) + 1].thread \in DOMAIN threads \cup {None}
      BY <2>1, <1>0, Launched DEF References
    <3> QED BY <3>1, <3>2, <3>3, <1>0, Growth DEF References
  <2>2. CASE ~Launch
    BY <2>2, <1>0, JobsAlike, Situation, Growth DEF SameJobs, References
  <2> QED BY <2>1, <2>2
<1>4. \A t \in DOMAIN threads' : /\ threads'[t].handoff \in DOMAIN resets' \cup {None}
                                 /\ threads'[t].first \in DOMAIN jobs'
  <2>1. CASE ThreadStarted
    <3>1. Len(jobs) \in DOMAIN jobs
      BY <2>1, Situation DEF ThreadStarted, OfTurn, Begun
    <3> QED BY <2>1, <3>1, <1>0, ThreadBegun, Growth, ResetsGrow DEF References
  <2>2. CASE ~ThreadStarted
    BY <2>2, <1>0, ThreadsAlike, Growth, ResetsGrow DEF SameThreads, References
  <2> QED BY <2>1, <2>2
<1>5. turn'.handoff \in DOMAIN resets' \cup {None}
  <2>1. CASE UNCHANGED turn \/ turn' = NoTurn
    BY <2>1, <1>0, ResetsGrow DEF References, NoTurn
  <2>2. CASE WriteFile \/ Submit
    BY <2>2, <1>0, ResetsGrow DEF WriteFile, Submit, References, Types, TurnRecord
  <2>3. CASE Launch
    BY <2>3, <1>0, ResetsGrow DEF Launch, References, NoTurn
  <2>4. UNCHANGED turn \/ turn' = NoTurn \/ WriteFile \/ Submit \/ Launch
    BY DEF Next, Turn, vars, Open, Configure, Revise, Prepare, ResetAtBoundary, ResetByOperator, Reset,
      SwitchPointer, Spawn, ThreadStarted, PersistThread, Finish, Stop, Checkpoint, Answer, Complete,
      Save, Refuse, Load, Judge, Kill, OrphanEnds
  <2> QED BY <2>1, <2>2, <2>3, <2>4
<1>6. writers' \subseteq DOMAIN jobs'
  <2>1. CASE Spawn
    BY <2>1, <1>0, Growth, Situation DEF Spawn, References, OfTurn, Begun
  <2>2. writers' \subseteq writers \/ Spawn
    BY DEF Next, Turn, vars, Open, Configure, Revise, Prepare, ResetAtBoundary, ResetByOperator, Reset,
      SwitchPointer, Launch, ThreadStarted, PersistThread, Finish, Stop, Checkpoint, WriteFile, Submit,
      Answer, Complete, Save, Refuse, Load, Judge, Kill, OrphanEnds
  <2> QED BY <2>1, <2>2, <1>0, Growth DEF References
<1> QED BY <1>1, <1>2, <1>3, <1>4, <1>5, <1>6 DEF References

LEMMA OwnedKept ==
  ASSUME Inv, [Next]_vars
  PROVE  Owned'
<1> USE SessionAssumption
<1>0. /\ References /\ Owned /\ Types
      /\ \A s : Conversation(s) \in Conversations
  BY ConversationOfStage DEF Inv
<1>a. \A t \in DOMAIN threads : Conversation(jobs'[threads'[t].first].stage) = Owner(t)
  BY Growth DEF Owner
<1>1. \A i \in DOMAIN jobs' :
        jobs'[i].thread # None => Conversation(jobs'[threads'[jobs'[i].thread].first].stage) = Conversation(jobs'[i].stage)
  <2>1. CASE Launch
    <3>1. DOMAIN jobs' = DOMAIN jobs \cup {Len(jobs) + 1}
      BY <2>1, Launched
    <3>2. \A i \in DOMAIN jobs : jobs'[i] = jobs[i]
      BY <2>1, Launched
    <3>3. LET job == jobs'[Len(jobs) + 1]
          IN  job.thread # None => job.thread \in DOMAIN threads /\ Owner(job.thread) = Conversation(job.stage)
      BY <2>1, <1>0, Launched DEF References, Owned
    <3> QED BY <3>1, <3>2, <3>3, <1>0, <1>a DEF References, Owned
  <2>2. CASE ~Launch
    BY <2>2, <1>0, <1>a, JobsAlike, Situation DEF SameJobs, References, Owned
  <2> QED BY <2>1, <2>2
<1>2. \A c \in Conversations : session'[c].thread # None => Conversation(jobs'[threads'[session'[c].thread].first].stage) = c
  <2>1. CASE UNCHANGED session
    BY <2>1, <1>0, <1>a DEF References, Owned
  <2>2. CASE SwitchPointer
    <3>1. \A c \in Conversations : session'[c].thread \in {session[c].thread, None}
      BY <2>2, <1>0 DEF SwitchPointer, Types
    <3> QED BY <3>1, <1>0, <1>a DEF References, Owned
  <2>3. CASE Checkpoint \/ Save
    <3>1. Len(jobs) \in DOMAIN jobs
      BY <2>3, Situation DEF Checkpoint, Save, OfTurn, Placed
    <3>2. \A c \in Conversations :
            \/ session'[c].thread = session[c].thread
            \/ c = Conversation(Job.stage) /\ session'[c].thread \in {Current, Job.thread}
      <4>1. CASE Checkpoint
        BY <4>1, <1>0, Situation DEF Checkpoint, Current, Types, Pointer
      <4>2. CASE Save
        BY <4>2, <1>0, Situation DEF Save, Types, Pointer
      <4> QED BY <2>3, <4>1, <4>2
    <3>3. \A t \in {Current, Job.thread} :
            t # None => t \in DOMAIN threads /\ Owner(t) = Conversation(Job.stage)
      BY <3>1, <1>0, Situation DEF Current, Job, References, Owned
    <3> QED BY <3>2, <3>3, <1>0, <1>a DEF References, Owned
  <2> QED BY <2>1, <2>2, <2>3, PointersMove
<1> QED BY <1>1, <1>2 DEF Owned, Owner

LEMMA StepsKept ==
  ASSUME Inv, [Next]_vars, Types'
  PROVE  Steps'
<1>0. Steps /\ Types
  BY DEF Inv
<1>1. at' \in Places \ {"stopped", "idle", "switch"} => Due' # {}
  <2>1. CASE Judge
    BY <2>1 DEF Judge
  <2>2. CASE ~Judge
    <3>1. Due' = Due
      <4>1. UNCHANGED passed
        BY <2>2 DEF Next, Turn, vars, ledger, Open, Configure, Revise, Prepare, ResetAtBoundary,
          ResetByOperator, Reset, SwitchPointer, Launch, Spawn, ThreadStarted, PersistThread, Finish,
          Stop, Checkpoint, WriteFile, Submit, Answer, Complete, Save, Refuse, Load, Kill, OrphanEnds
      <4> QED BY <4>1 DEF Due
    <3>2. at' \notin Places \ {"stopped", "idle", "switch"} \/ Due # {}
      <4>1. CASE SwitchPointer
        BY <4>1, <1>0 DEF SwitchPointer, Steps
      <4>2. CASE Open \/ Prepare \/ ResetAtBoundary \/ ResetByOperator
        BY <4>2 DEF Open, Prepare, ResetAtBoundary, ResetByOperator, Reset
      <4>3. CASE Launch \/ Spawn \/ ThreadStarted \/ PersistThread \/ Finish
        BY <4>3, <1>0 DEF Launch, Spawn, ThreadStarted, PersistThread, Finish, Steps, Places
      <4>4. CASE Stop \/ Checkpoint \/ Answer \/ Complete \/ Save \/ Refuse \/ Load \/ Kill
        BY <4>4, <1>0 DEF Stop, Checkpoint, Answer, Complete, Save, Refuse, Load, Kill, Steps, Places
      <4>5. CASE UNCHANGED at
        BY <4>5, <1>0 DEF Steps
      <4>6. CASE Configure \/ Revise \/ WriteFile \/ Submit \/ OrphanEnds \/ UNCHANGED vars
        <5>1. UNCHANGED at
          BY <4>6 DEF Configure, Revise, WriteFile, Submit, OrphanEnds, vars
        <5> QED BY <5>1, <4>5
      <4> QED BY <2>2, <4>1, <4>2, <4>3, <4>4, <4>6 DEF Next, Turn
    <3> QED BY <3>1, <3>2
  <2> QED BY <2>1, <2>2
<1>2. at' = "switch" => resets' # <<>> /\ (resets'[Len(resets')].automatic => Due' # {})
  <2>1. CASE ResetAtBoundary \/ ResetByOperator
    <3>1. PICK c, automatic : Reset(c, automatic) /\ (automatic => at = "reset")
      BY <2>1 DEF ResetAtBoundary, ResetByOperator
    <3> DEFINE event == [conversation |-> c, thread |-> session[c].thread, automatic |-> automatic]
    <3>2. resets' = Append(resets, event) /\ resets \in Seq(ResetEvent \cup {event})
      BY <3>1, <1>0, SeqMonotonic DEF Reset, Types
    <3>3. event.automatic = automatic
      OBVIOUS
    <3> HIDE DEF event
    <3>4. resets' # <<>> /\ resets'[Len(resets')] = event
      BY <3>2, AppendProperties, LenProperties
    <3>5. Due' = Due
      BY <3>1 DEF Reset, ledger, Due
    <3> QED BY <3>1, <3>3, <3>4, <3>5, <1>0 DEF Steps, Places
  <2>2. CASE at' = "switch" /\ ~ResetAtBoundary /\ ~ResetByOperator
    <3>1. UNCHANGED <<at, resets, passed>>
      <4>1. OrphanEnds \/ UNCHANGED vars
        BY <2>2 DEF Next, Turn, Open, Configure, Revise, Prepare, SwitchPointer, Launch, Spawn,
          ThreadStarted, PersistThread, Finish, Stop, Checkpoint, WriteFile, Submit, Answer, Complete,
          Save, Refuse, Load, Judge, Kill
      <4> QED BY <4>1 DEF OrphanEnds, vars, ledger
    <3>2. Due' = Due
      BY <3>1 DEF Due
    <3> QED BY <2>2, <3>1, <3>2, <1>0 DEF Steps
  <2> QED BY <2>1, <2>2
<1>3. at' \in OfTurn => jobs' # <<>>
  <2>1. CASE Launch
    BY <2>1, Launched, Situation, EmptySeq
  <2>2. CASE at' \in OfTurn /\ ~Launch
    <3>1. at \in OfTurn
      <4>1. CASE UNCHANGED at
        BY <4>1, <2>2
      <4>2. CASE Configure \/ Revise \/ WriteFile \/ Submit \/ OrphanEnds \/ UNCHANGED vars
        <5>1. UNCHANGED at
          BY <4>2 DEF Configure, Revise, WriteFile, Submit, OrphanEnds, vars
        <5> QED BY <5>1, <4>1
      <4>3. CASE Spawn \/ ThreadStarted \/ Checkpoint \/ PersistThread \/ Answer \/ Complete \/ Finish
        BY <4>3 DEF Spawn, ThreadStarted, Checkpoint, PersistThread, Answer, Complete, Finish, OfTurn,
          Begun, Placed
      <4>4. CASE Open \/ Prepare \/ ResetAtBoundary \/ ResetByOperator \/ SwitchPointer \/ Stop
        BY <4>4, <2>2 DEF Open, Prepare, ResetAtBoundary, ResetByOperator, Reset, SwitchPointer, Stop,
          OfTurn, Begun, Placed
      <4>5. CASE Save \/ Refuse \/ Load \/ Judge \/ Kill
        BY <4>5, <2>2 DEF Save, Refuse, Load, Judge, Kill, OfTurn, Begun, Placed
      <4> QED BY <2>2, <4>2, <4>3, <4>4, <4>5 DEF Next, Turn
    <3>2. Len(jobs) \in DOMAIN jobs /\ Len(jobs') = Len(jobs) /\ Len(jobs) \in 1 .. Len(jobs)
      BY <3>1, <2>2, Situation, JobsAlike DEF SameJobs
    <3> QED BY <3>2, EmptySeq
  <2> QED BY <2>1, <2>2
<1> QED BY <1>1, <1>2, <1>3 DEF Steps

-----------------------------------------------------------------------------
(* The turn under way.                                                     *)

LEMMA InTurnKept ==
  ASSUME Inv, [Next]_vars, Types'
  PROVE  InTurn'
<1> USE SessionAssumption DEF OfTurn, Begun, Placed
<1>0. /\ References /\ Types /\ InTurn /\ KnownWasSupplied
      /\ \A s : Conversation(s) \in Conversations
      /\ None \notin Nat /\ Revisions \subseteq Nat
  BY ConversationOfStage DEF Inv
<1>a. /\ \A c \in Conversations : session[c] \in Pointer
      /\ at \in OfTurn => /\ Len(jobs) \in DOMAIN jobs /\ Job \in Metrics
                          /\ Current \in DOMAIN threads \cup {None}
  BY Situation DEF Current
<1>1. CASE Launch
  <2> DEFINE own == session[Conversation(Stage)]
  <2>1. at' = "spawn" /\ UNCHANGED <<session, threads>>
    BY <1>1 DEF Launch
  <2>2. Job'.thread = own.thread /\ Own' = own
    BY <1>1, <2>1, Launched DEF Own
  <2>3. \A t \in DOMAIN threads' : threads'[t].first # Len(jobs')
    <3>1. \A t \in DOMAIN threads : threads[t].first \in 1 .. Len(jobs)
      BY <1>0, Situation DEF References
    <3>2. Len(jobs') = Len(jobs) + 1 /\ Len(jobs) \in Nat
      BY <1>1, Launched, Situation
    <3> QED BY <2>1, <3>1, <3>2
  <2>4. /\ turn'.shows = material
        /\ turn'.gives = IF own.known = material THEN None ELSE material
        /\ turn'.handoff = IF own.thread = None THEN own.handoff ELSE None
    BY <1>1 DEF Launch, NoTurn
  <2>5. material # None
    BY <1>0 DEF Types
  <2> QED BY <2>1, <2>2, <2>3, <2>4, <2>5 DEF InTurn
<1>2. CASE Spawn
  <2>1. at = "spawn" /\ at' = "turn" /\ UNCHANGED <<session, jobs, threads, turn>>
    BY <1>2 DEF Spawn
  <2>2. Job' = Job /\ Own' = Own
    BY <2>1 DEF Own, Job
  <2> QED BY <2>1, <2>2, <1>0 DEF InTurn
<1>3. CASE ThreadStarted
  <2>1. at = "turn" /\ at' = "checkpoint" /\ UNCHANGED <<session, jobs, turn>>
    BY <1>3 DEF ThreadStarted
  <2>2. Job' = Job /\ Own' = Own /\ Job.thread = Own.thread
    BY <2>1, <1>0 DEF Own, Job, InTurn
  <2>3. CASE Job.thread # None
    BY <2>1, <2>2, <2>3, <1>0, <1>3, ThreadBegun DEF InTurn
  <2>4. CASE Job.thread = None
    <3>1. Current' # None /\ threads'[Current'].handoff = turn.handoff
      <4>1. Current' \in DOMAIN threads' /\ threads' \in Seq(Thread)
        BY <2>4, <1>3, ThreadBegun DEF Types
      <4>2. Current' \in Nat
        BY <4>1, LenProperties
      <4> QED BY <4>2, <2>4, <1>0, <1>3, ThreadBegun
    <3>2. turn.handoff = Own.handoff
      BY <2>1, <2>2, <2>4, <1>0 DEF InTurn
    <3> QED BY <2>1, <2>2, <2>4, <3>1, <3>2, <1>0 DEF InTurn
  <2> QED BY <2>3, <2>4
<1>4. CASE OrphanEnds \/ UNCHANGED vars
  <2>1. UNCHANGED <<at, session, jobs, turn>>
    BY <1>4 DEF OrphanEnds, vars
  <2>2. Job' = Job /\ Own' = Own /\ SameThreads /\ SameJobs
    <3>1. ~ThreadStarted \/ UNCHANGED vars
      BY <1>4, <2>1 DEF ThreadStarted
    <3>2. SameThreads
      BY <3>1, ThreadsAlike, Situation DEF SameThreads, vars
    <3>3. SameJobs
      BY <2>1, Situation DEF SameJobs
    <3> QED BY <2>1, <3>2, <3>3 DEF Own, Job
  <2>3. at \in OfTurn => Current' = Current
    BY <2>2, ThreadsOfJobsAlike
  <2> QED BY <2>1, <2>2, <2>3, <1>0, <1>a DEF InTurn, SameThreads
<1>5. CASE Checkpoint
  <2>1. at = "checkpoint" /\ at' = "persist" /\ UNCHANGED <<jobs, threads, turn>>
    BY <1>5 DEF Checkpoint
  <2>2. Job' = Job /\ Current' = Current
    BY <2>1 DEF Job, Current, ThreadOf
  <2>3. session' = [session EXCEPT ![Conversation(Job.stage)].thread = Current]
    BY <1>5 DEF Checkpoint, Current
  <2>4. Own'.thread = Current /\ Own'.known = Own.known
    BY <2>2, <2>3, <1>0, <1>a DEF Own, Types, Pointer
  <2> QED BY <2>1, <2>2, <2>4, <1>0 DEF InTurn
<1>6. CASE PersistThread \/ WriteFile \/ Submit \/ Answer \/ Complete \/ Finish
  <2>1. /\ at \in Placed /\ UNCHANGED session
        /\ at' \in Placed \ {"persist"}
        /\ at' = "completed" => Complete
        /\ at' = "save" => at = "completed"
    BY <1>6 DEF PersistThread, WriteFile, Submit, Answer, Complete, Finish
  <2>2. SameJobs /\ SameThreads
    BY <2>1, JobsAlike, ThreadsAlike DEF Launch, ThreadStarted
  <2>3. Current' = Current /\ Own' = Own /\ Current \in DOMAIN threads
    <3>1. Own' = Own
      BY <2>1, <2>2, <1>a DEF Own, Job, SameJobs
    <3> QED BY <3>1, <2>1, <2>2, <1>0, <1>a, ThreadsOfJobsAlike DEF InTurn
  <2>4. Job'.thread = Current
    <3>1. Job'.thread = jobs'[Len(jobs)].thread
      BY <2>2 DEF Job, SameJobs
    <3>2. CASE PersistThread
      <4>1. at \in OfTurn /\ jobs' = [jobs EXCEPT ![Len(jobs)] = [Job EXCEPT !.thread = Current]]
        BY <3>2 DEF PersistThread, Current, Job
      <4> QED BY <3>1, <4>1, <1>a DEF Metrics
    <3>3. CASE ~PersistThread
      <4>1. at # "persist"
        BY <1>6, <3>3 DEF WriteFile, Submit, Answer, Complete, Finish
      <4> QED BY <3>1, <4>1, <2>1, <2>2, <1>0, <1>a DEF InTurn, SameJobs, Job, Current
    <3> QED BY <3>2, <3>3
  <2>5. turn'.shows = turn.shows /\ turn'.gives = turn.gives
    <3>1. CASE WriteFile \/ Submit
      BY <3>1, <1>0 DEF WriteFile, Submit, Types, TurnRecord
    <3>2. CASE UNCHANGED turn
      BY <3>2
    <3> QED BY <1>6, <3>1, <3>2 DEF PersistThread, Answer, Complete, Finish
  <2>6. at' \in {"completed", "save"} => turn'.shows \in threads'[Current].told
    <3>1. CASE Complete
      <4>1. turn.shows \in Revisions \cup {None} /\ threads \in Seq(Thread)
        BY <1>0 DEF Types, TurnRecord
      <4>2. threads[Current] \in Thread
        BY <2>3, Situation
      <4>3. Job.thread = Current /\ Own.thread = Current
        BY <3>1, <1>0 DEF Complete, InTurn
      <4>4. threads'[Current].told = threads[Current].told \cup ({turn.gives} \ {None})
        BY <3>1, <2>3, <4>2, <4>3 DEF Complete, Thread
      <4>5. turn.gives = None => turn.shows \in threads[Current].told
        BY <3>1, <4>3, <1>0, <1>a DEF Complete, InTurn, KnownWasSupplied, Own
      <4>6. turn.shows # None /\ turn.gives \in {None, turn.shows}
        BY <3>1, <1>0 DEF Complete, InTurn
      <4> QED BY <4>4, <4>5, <4>6, <2>5
    <3>2. CASE at' = "save"
      BY <3>2, <2>1, <2>2, <2>3, <2>5, <1>0 DEF InTurn, SameThreads
    <3> QED BY <2>1, <3>1, <3>2
  <2>7. turn.shows # None /\ turn.gives \in {None, turn.shows} /\ (turn.gives = None => Own.known = turn.shows)
    BY <2>1, <1>0 DEF InTurn
  <2>8. Current # None /\ Own.thread = Current
    BY <2>1, <1>0 DEF InTurn
  <2> QED BY <2>1, <2>3, <2>4, <2>5, <2>6, <2>7, <2>8 DEF InTurn
<1>7. CASE at' \notin OfTurn
  BY <1>7 DEF InTurn
<1>8. CASE Open \/ Configure \/ Revise \/ Prepare \/ ResetAtBoundary \/ ResetByOperator \/ SwitchPointer
  <2>1. at' \notin OfTurn
    BY <1>8 DEF Open, Configure, Revise, Prepare, ResetAtBoundary, ResetByOperator, Reset, SwitchPointer
  <2> QED BY <2>1, <1>7
<1>9. CASE Stop \/ Save \/ Refuse \/ Load \/ Judge \/ Kill
  <2>1. at' \notin OfTurn
    BY <1>9 DEF Stop, Save, Refuse, Load, Judge, Kill
  <2> QED BY <2>1, <1>7
<1> QED BY <1>1, <1>2, <1>3, <1>4, <1>5, <1>6, <1>8, <1>9 DEF Next, Turn

-----------------------------------------------------------------------------
(* What a pointer notes, and that a conversation goes on.                  *)

LEMMA KnownKept ==
  ASSUME Inv, [Next]_vars
  PROVE  KnownWasSupplied'
<1> USE SessionAssumption
<1>0. /\ References /\ Types /\ InTurn /\ KnownWasSupplied
      /\ \A s : Conversation(s) \in Conversations
  BY ConversationOfStage DEF Inv
<1>1. \A t \in DOMAIN threads : t \in DOMAIN threads' /\ threads[t].told \subseteq threads'[t].told
  BY Growth
<1>2. \A c \in Conversations : session[c].thread \in DOMAIN threads \cup {None} /\ session[c] \in Pointer
  BY <1>0, Situation DEF References
<1>3. CASE UNCHANGED session
  BY <1>0, <1>1, <1>2, <1>3 DEF KnownWasSupplied
<1>4. CASE SwitchPointer
  <2>1. \A c \in Conversations : session'[c] = session[c] \/ session'[c].known = None
    BY <1>4, <1>0 DEF SwitchPointer, Types
  <2> QED BY <2>1, <1>0, <1>1, <1>2 DEF KnownWasSupplied
<1>5. CASE Checkpoint
  <2>1. \A c \in Conversations :
          \/ session'[c] = session[c]
          \/ session[c] = Own /\ session'[c].thread = Current /\ session'[c].known = session[c].known
    BY <1>5, <1>0, <1>2 DEF Checkpoint, Own, Current, Types, Pointer
  <2>2. Own.thread \in {None, Current}
    BY <1>5, <1>0 DEF Checkpoint, InTurn
  <2> QED BY <2>1, <2>2, <1>0, <1>1, <1>2 DEF KnownWasSupplied
<1>6. CASE Save
  <2>1. \A c \in Conversations :
          \/ session'[c] = session[c]
          \/ session'[c].thread = Job.thread /\ session'[c].known = turn.shows
    BY <1>6, <1>0, <1>2 DEF Save, Types, Pointer
  <2>2. Job.thread = Current /\ Current # None /\ turn.shows \in threads[Current].told
    BY <1>6, <1>0 DEF Save, InTurn, Placed
  <2>3. UNCHANGED threads
    BY <1>6 DEF Save
  <2> QED BY <2>1, <2>2, <2>3, <1>0, <1>1, <1>2 DEF KnownWasSupplied
<1> QED BY <1>3, <1>4, <1>5, <1>6, PointersMove

\* Only the end of a turn completes a job.
LEMMA CompletedByFinish ==
  ASSUME Inv, [Next]_vars, ~Finish
  PROVE  \A i \in DOMAIN jobs' : jobs'[i].state = "COMPLETED" =>
           i \in DOMAIN jobs /\ jobs[i].state = "COMPLETED"
<1>1. at \in OfTurn => Len(jobs) \in DOMAIN jobs /\ Job \in Metrics
  BY Situation
<1>2. CASE Launch
  BY <1>2, Launched
<1>3. CASE UNCHANGED jobs
  BY <1>3
<1>4. CASE PersistThread
  <2>1. at \in OfTurn /\ jobs' = [jobs EXCEPT ![Len(jobs)] = [Job EXCEPT !.thread = ThreadOf(Len(jobs))]]
    BY <1>4 DEF PersistThread, OfTurn, Placed, Job
  <2>2. [Job EXCEPT !.thread = ThreadOf(Len(jobs))].state = Job.state
    BY <2>1, <1>1 DEF Metrics
  <2> QED BY <2>1, <2>2, <1>1 DEF Job
<1>5. CASE Complete
  <2>1. /\ at \in OfTurn
        /\ jobs' = [jobs EXCEPT ![Len(jobs)] = [Job EXCEPT !.reported = threads[Job.thread].counter]]
    BY <1>5 DEF Complete, OfTurn, Placed, Job
  <2>2. [Job EXCEPT !.reported = threads[Job.thread].counter].state = Job.state
    BY <2>1, <1>1 DEF Metrics
  <2> QED BY <2>1, <2>2, <1>1 DEF Job
<1>6. CASE Stop
  <2>1. PICK state \in {"FAILED", "INTERRUPTED"} : at \in OfTurn /\ Close(state)
    BY <1>6 DEF Stop, OfTurn, Begun, Placed
  <2>2. jobs' = [jobs EXCEPT ![Len(jobs)] =
                  [Job EXCEPT !.state = state, !.thread = ThreadOf(Len(jobs))]]
    BY <2>1 DEF Close, Job
  <2>3. [Job EXCEPT !.state = state, !.thread = ThreadOf(Len(jobs))].state # "COMPLETED"
    BY <2>1, <1>1 DEF Metrics
  <2> QED BY <2>1, <2>2, <2>3, <1>1
<1>7. UNCHANGED jobs \/ Launch \/ PersistThread \/ Complete \/ Stop
  BY DEF Next, Turn, vars, Open, Configure, Revise, Prepare, ResetAtBoundary, ResetByOperator, Reset,
    SwitchPointer, Spawn, ThreadStarted, Checkpoint, WriteFile, Submit, Answer, Save, Refuse, Load,
    Judge, Kill, OrphanEnds
<1> QED BY <1>2, <1>3, <1>4, <1>5, <1>6, <1>7

LEMMA ContinuityPreserved ==
  ASSUME Inv, [Next]_vars
  PROVE  ContinuityKept'
<1> USE SessionAssumption
<1>0. /\ References /\ Types /\ InTurn /\ ContinuityKept
      /\ \A s : Conversation(s) \in Conversations
      /\ None \notin Nat
  BY ConversationOfStage DEF Inv
<1>1. \A c \in Conversations : session[c].thread \in DOMAIN threads \cup {None} /\ session[c] \in Pointer
  BY <1>0, Situation DEF References
<1>2. at \in OfTurn => Current \in DOMAIN threads \cup {None}
  BY Situation DEF Current
<1>3. ASSUME NEW c \in Conversations, session'[c].thread = None, session'[c].handoff = None,
             NEW i \in DOMAIN jobs', Conversation(jobs'[i].stage) = c, jobs'[i].state = "COMPLETED"
      PROVE  FALSE
  <2>1. session[c].thread = None /\ session[c].handoff = None
    <3>1. CASE UNCHANGED session
      BY <1>3, <3>1
    <3>2. CASE SwitchPointer
      <4>1. session'[c] = session[c] \/ session'[c].handoff = Len(resets)
        BY <3>2, <1>0 DEF SwitchPointer, Types
      <4>2. Len(resets) \in Nat
        BY Situation
      <4> QED BY <1>3, <4>1, <4>2, <1>0
    <3>3. CASE Checkpoint \/ Save
      <4>1. \/ session'[c] = session[c]
            \/ session'[c].thread = Current
        <5>1. CASE Checkpoint
          BY <5>1, <1>0, <1>1 DEF Checkpoint, Current, Types, Pointer
        <5>2. CASE Save
          BY <5>2, <1>0, <1>1 DEF Save, InTurn, Placed, Types, Pointer
        <5> QED BY <3>3, <5>1, <5>2
      <4>2. Current # None
        BY <3>3, <1>0 DEF Checkpoint, Save, InTurn, Placed
      <4> QED BY <1>3, <4>1, <4>2
    <3> QED BY <3>1, <3>2, <3>3, PointersMove
  <2>2. ~Finish
    <3>1. SUFFICES ASSUME Finish PROVE FALSE
      OBVIOUS
    <3>2. SameJobs /\ at \in OfTurn
      BY <3>1, JobsAlike DEF Finish, Launch, OfTurn, Placed
    <3>3. Own.thread # None
      BY <3>1, <1>0 DEF Finish, InTurn, Placed
    <3>4. i # Len(jobs)
      BY <1>3, <2>1, <3>2, <3>3, Situation DEF SameJobs, Own, Job
    <3> QED BY <1>3, <2>1, <3>2, <3>4, <1>0 DEF SameJobs, ContinuityKept
  <2>3. i \in DOMAIN jobs /\ jobs[i].state = "COMPLETED" /\ jobs[i].stage = jobs'[i].stage
    BY <1>3, <2>2, CompletedByFinish, Growth
  <2> QED BY <1>3, <2>1, <2>3, <1>0 DEF ContinuityKept
<1>4. ASSUME NEW c \in Conversations, session'[c].thread # None, session'[c].handoff # None
      PROVE  threads'[session'[c].thread].handoff = session'[c].handoff
  <2>1. \A t \in DOMAIN threads : threads'[t].handoff = threads[t].handoff
    BY Growth
  <2>2. CASE session'[c].thread = session[c].thread /\ session'[c].handoff = session[c].handoff
    BY <1>4, <2>1, <2>2, <1>0, <1>1 DEF ContinuityKept
  <2>3. CASE SwitchPointer
    <3>1. session'[c] = session[c] \/ session'[c].thread = None
      BY <2>3, <1>0 DEF SwitchPointer, Types
    <3> QED BY <1>4, <2>2, <3>1
  <2>4. CASE Checkpoint
    <3>1. \/ session'[c] = session[c]
          \/ /\ session[c] = Own /\ session'[c].thread = Current
             /\ session'[c].handoff = session[c].handoff
      BY <2>4, <1>0, <1>1 DEF Checkpoint, Own, Current, Types, Pointer
    <3>2. /\ Own.thread \in {None, Current} /\ Current \in DOMAIN threads
          /\ Own.thread = None => threads[Current].handoff = Own.handoff
      BY <2>4, <1>0, <1>2 DEF Checkpoint, InTurn, OfTurn
    <3> QED BY <2>1, <2>2, <3>1, <3>2
  <2>5. CASE Save
    <3>1. Job.thread = Current /\ Own.thread = Current
      BY <2>5, <1>0 DEF Save, InTurn, Placed
    <3>2. session'[c].thread = session[c].thread /\ session'[c].handoff = session[c].handoff
      BY <2>5, <3>1, <1>0, <1>1 DEF Save, Own, Types, Pointer
    <3> QED BY <2>2, <3>2
  <2> QED BY <2>2, <2>3, <2>4, <2>5, PointersMove
<1> QED BY <1>3, <1>4 DEF ContinuityKept

LEMMA RotatingKept ==
  ASSUME Inv, [Next]_vars, Types'
  PROVE  Rotating'
<1> USE SessionAssumption
<1>0. Types /\ Steps /\ Rotating
  BY DEF Inv
<1>1. CASE Prepare
  <2>1. at' # "switch"
    BY <1>1 DEF Prepare
  <2>2. CASE at' = "reset"
    <3>1. PICK carrying : Rotates(Stage, carrying)
      BY <1>1, <2>2 DEF Prepare
    <3>2. Conversation(Stage) = "worker"
      BY <3>1 DEF Rotates, Boundary, Conversation
    <3>3. MayRotate("worker")
      BY <3>1, <3>2 DEF Rotates, MayRotate, Boundary, Started
    <3>4. Stage' = Stage /\ MayRotate("worker")' = MayRotate("worker")
      BY <1>1 DEF Prepare, ledger, Stage, Due, MayRotate, Started
    <3> QED BY <2>1, <3>2, <3>3, <3>4 DEF Rotating
  <2> QED BY <2>1, <2>2 DEF Rotating
<1>2. CASE ResetAtBoundary \/ ResetByOperator
  <2>1. PICK c, automatic : /\ Reset(c, automatic)
                            /\ automatic => at = "reset" /\ c = Conversation(Stage)
    BY <1>2 DEF ResetAtBoundary, ResetByOperator
  <2> DEFINE event == [conversation |-> c, thread |-> session[c].thread, automatic |-> automatic]
  <2>2. resets' = Append(resets, event) /\ resets \in Seq(ResetEvent \cup {event})
    BY <2>1, <1>0, SeqMonotonic DEF Reset, Types
  <2>3. event.automatic = automatic /\ event.conversation = c
    OBVIOUS
  <2> HIDE DEF event
  <2>4. resets'[Len(resets')] = event
    BY <2>2, AppendProperties
  <2>5. MayRotate("worker")' = MayRotate("worker") /\ at' = "switch"
    BY <2>1 DEF Reset, ledger, MayRotate, Started
  <2>6. automatic => c = "worker" /\ MayRotate("worker")
    BY <2>1, <1>0 DEF Rotating
  <2> QED BY <2>3, <2>4, <2>5, <2>6 DEF Rotating
<1>3. CASE OrphanEnds \/ UNCHANGED vars
  <2>1. UNCHANGED <<at, policy, passed, session, resets, jobs>>
    BY <1>3 DEF OrphanEnds, vars, ledger
  <2>2. Stage' = Stage /\ \A c : MayRotate(c)' = MayRotate(c)
    BY <2>1 DEF Stage, Due, MayRotate, Started
  <2> QED BY <2>1, <2>2, <1>0 DEF Rotating
<1>4. CASE at' \notin {"reset", "switch"}
  BY <1>4 DEF Rotating
<1>5. CASE SwitchPointer \/ Open \/ Configure \/ Revise \/ Launch \/ Spawn \/ ThreadStarted \/ Checkpoint
  <2>1. at' \notin {"reset", "switch"}
    BY <1>5 DEF SwitchPointer, Open, Configure, Revise, Launch, Spawn, ThreadStarted, Checkpoint
  <2> QED BY <2>1, <1>4
<1>6. CASE PersistThread \/ WriteFile \/ Submit \/ Answer \/ Complete \/ Finish
  <2>1. at' \notin {"reset", "switch"}
    BY <1>6 DEF PersistThread, WriteFile, Submit, Answer, Complete, Finish
  <2> QED BY <2>1, <1>4
<1>7. CASE Stop \/ Save \/ Refuse \/ Load \/ Judge \/ Kill
  <2>1. at' \notin {"reset", "switch"}
    BY <1>7 DEF Stop, Save, Refuse, Load, Judge, Kill
  <2> QED BY <2>1, <1>4
<1> QED BY <1>1, <1>2, <1>3, <1>5, <1>6, <1>7 DEF Next, Turn

-----------------------------------------------------------------------------
(* Sums over the jobs.                                                     *)

\* What a job adds to the charges of a thread.
Share(job, t) == IF job.thread = t THEN Charged(job) ELSE 0

\* The charges of the first n of some jobs, as a recursive function and by the
\* equations it is to satisfy.
Adds(f, js) ==
  [n \in Nat |-> [t \in 1 .. MaxJobs |->
     IF n = 0 THEN 0
     ELSE f[n - 1][t] + IF js[n].thread = t THEN Charged(js[n]) ELSE 0]]

ChargesOf(js) == CHOOSE f : f = Adds(f, js)

LEMMA ChargedFromJobs ==
  ChargedFrom = ChargesOf(jobs)
BY DEF ChargedFrom, ChargesOf, Adds

\* The equations have a solution: such sums exist up to any n, those of
\* different lengths agree, and together they are one function.
LEMMA SumsExist ==
  ASSUME NEW js
  PROVE  ChargesOf(js) = Adds(ChargesOf(js), js)
<1> DEFINE Zero == [t \in 1 .. MaxJobs |-> 0]
           Plus(sum, n) == [t \in 1 .. MaxJobs |-> sum[t] + Share(js[n], t)]
           UpTo(g, n) == /\ g[0] = Zero
                         /\ \A m \in Nat : m < n => g[m + 1] = Plus(g[m], m + 1)
<1> HIDE DEF Zero, Plus
<1>1. \A n \in Nat : \E g : UpTo(g, n)
  <2> DEFINE S == {n \in Nat : \E g : UpTo(g, n)}
  <2>1. 0 \in S
    <3>1. UpTo([m \in {0} |-> Zero], 0)
      OBVIOUS
    <3> QED BY <3>1
  <2>2. ASSUME NEW n \in Nat, n \in S
        PROVE  n + 1 \in S
    <3>1. PICK g : UpTo(g, n)
      BY <2>2
    <3> DEFINE h == [m \in 0 .. n + 1 |-> IF m = n + 1 THEN Plus(g[n], n + 1) ELSE g[m]]
    <3>2. h[0] = Zero
      BY <3>1
    <3>3. ASSUME NEW m \in Nat, m < n + 1
          PROVE  h[m + 1] = Plus(h[m], m + 1)
      <4>1. CASE m = n
        BY <4>1
      <4>2. CASE m < n
        BY <4>2, <3>1
      <4> QED BY <3>3, <4>1, <4>2
    <3>4. UpTo(h, n + 1)
      BY <3>2, <3>3
    <3> HIDE DEF h, UpTo
    <3> QED BY <3>4
  <2> HIDE DEF S
  <2>3. \A n \in Nat : n \in S
    BY <2>1, <2>2, Induction
  <2> QED BY <2>3 DEF S
<1>2. ASSUME NEW g, NEW h, NEW n \in Nat, UpTo(g, n), UpTo(h, n + 1)
      PROVE  g[n] = h[n]
  <2> DEFINE S == {m \in Nat : m <= n => g[m] = h[m]}
  <2>1. 0 \in S
    BY <1>2
  <2>2. ASSUME NEW m \in Nat, m \in S
        PROVE  m + 1 \in S
    <3> SUFFICES ASSUME m + 1 <= n PROVE g[m + 1] = h[m + 1]
      OBVIOUS
    <3>1. g[m] = h[m] /\ m < n /\ m < n + 1
      BY <2>2
    <3> QED BY <3>1, <1>2
  <2> HIDE DEF S
  <2>3. \A m \in Nat : m \in S
    BY <2>1, <2>2, Induction
  <2> QED BY <2>3 DEF S
<1> DEFINE Sum(n) == CHOOSE g : UpTo(g, n)
           f == [n \in Nat |-> Sum(n)[n]]
<1>3. \A n \in Nat : UpTo(Sum(n), n)
  <2> HIDE DEF UpTo
  <2> QED BY <1>1
<1> HIDE DEF Sum
<1>4. f[0] = Zero
  BY <1>3
<1>5. ASSUME NEW n \in Nat
      PROVE  f[n + 1] = Plus(f[n], n + 1)
  <2>1. UpTo(Sum(n), n) /\ UpTo(Sum(n + 1), n + 1)
    BY <1>3
  <2>2. Sum(n)[n] = Sum(n + 1)[n]
    BY <2>1, <1>2
  <2>3. Sum(n + 1)[n + 1] = Plus(Sum(n + 1)[n], n + 1)
    BY <2>1
  <2>4. f[n] = Sum(n)[n] /\ f[n + 1] = Sum(n + 1)[n + 1]
    OBVIOUS
  <2> QED BY <2>2, <2>3, <2>4
<1>6. f = Adds(f, js)
  <2>1. \A n \in Nat : f[n] = Adds(f, js)[n]
    <3> TAKE n \in Nat
    <3>1. CASE n = 0
      BY <3>1, <1>4 DEF Adds, Zero
    <3>2. CASE n # 0
      <4>1. n - 1 \in Nat /\ (n - 1) + 1 = n
        BY <3>2
      <4>2. f[n] = Plus(f[n - 1], n)
        BY <4>1, <1>5
      <4> HIDE DEF f
      <4> QED BY <3>2, <4>2 DEF Adds, Plus, Share
    <3> QED BY <3>1, <3>2
  <2>2. f = [n \in Nat |-> f[n]] /\ Adds(f, js) = [n \in Nat |-> Adds(f, js)[n]]
    BY DEF Adds
  <2> HIDE DEF f
  <2> QED BY <2>1, <2>2
<1> HIDE DEF f
<1> QED BY <1>6 DEF ChargesOf

\* The sum of none, and of one more.
LEMMA SumsStep ==
  ASSUME NEW js, NEW t \in 1 .. MaxJobs
  PROVE  /\ ChargesOf(js)[0][t] = 0
         /\ \A n \in Nat : ChargesOf(js)[n + 1][t] = ChargesOf(js)[n][t] + Share(js[n + 1], t)
<1> DEFINE f == ChargesOf(js)
<1>1. f = Adds(f, js)
  BY SumsExist
<1> HIDE DEF f
<1>2. f[0][t] = 0
  <2>1. Adds(f, js)[0][t] = 0
    BY DEF Adds
  <2> QED BY <1>1, <2>1
<1>3. ASSUME NEW n \in Nat
      PROVE  f[n + 1][t] = f[n][t] + Share(js[n + 1], t)
  <2>1. Adds(f, js)[n + 1][t] = f[(n + 1) - 1][t] + Share(js[n + 1], t)
    BY DEF Adds, Share
  <2>2. (n + 1) - 1 = n
    OBVIOUS
  <2> QED BY <1>1, <2>1, <2>2
<1> QED BY <1>2, <1>3 DEF f

LEMMA ChargesAreNumbers ==
  ASSUME NEW job \in Metrics
  PROVE  /\ Charged(job) \in Nat
         /\ \A t : Share(job, t) \in Nat
<1>1. Charged(job) \in Nat
  BY SessionAssumption DEF Charged, Metrics
<1> QED BY <1>1 DEF Share

LEMMA SumsAreNumbers ==
  ASSUME NEW js, NEW m \in Nat, \A i \in 1 .. m : js[i] \in Metrics, NEW t \in 1 .. MaxJobs
  PROVE  \A n \in 0 .. m : ChargesOf(js)[n][t] \in Nat
<1> DEFINE S == {n \in Nat : n <= m => ChargesOf(js)[n][t] \in Nat}
<1>1. 0 \in S
  BY SumsStep
<1>2. ASSUME NEW n \in Nat, n \in S
      PROVE  n + 1 \in S
  <2> SUFFICES ASSUME n + 1 <= m PROVE ChargesOf(js)[n + 1][t] \in Nat
    OBVIOUS
  <2>1. ChargesOf(js)[n][t] \in Nat /\ n + 1 \in 1 .. m
    BY <1>2
  <2>2. Share(js[n + 1], t) \in Nat
    BY <2>1, ChargesAreNumbers
  <2> QED BY <2>1, <2>2, SumsStep
<1> HIDE DEF S
<1>3. \A n \in Nat : n \in S
  BY <1>1, <1>2, Induction
<1> QED BY <1>3 DEF S

\* Equal shares have equal sums.
LEMMA SumsAlike ==
  ASSUME NEW js, NEW ks, NEW t \in 1 .. MaxJobs, NEW m \in Nat,
         \A i \in 1 .. m : Share(ks[i], t) = Share(js[i], t)
  PROVE  \A n \in 0 .. m : ChargesOf(ks)[n][t] = ChargesOf(js)[n][t]
<1> DEFINE S == {n \in Nat : n <= m => ChargesOf(ks)[n][t] = ChargesOf(js)[n][t]}
<1>1. 0 \in S
  BY SumsStep
<1>2. ASSUME NEW n \in Nat, n \in S
      PROVE  n + 1 \in S
  <2> SUFFICES ASSUME n + 1 <= m PROVE ChargesOf(ks)[n + 1][t] = ChargesOf(js)[n + 1][t]
    OBVIOUS
  <2>1. ChargesOf(ks)[n][t] = ChargesOf(js)[n][t] /\ n + 1 \in 1 .. m
    BY <1>2
  <2> QED BY <2>1, SumsStep
<1> HIDE DEF S
<1>3. \A n \in Nat : n \in S
  BY <1>1, <1>2, Induction
<1> QED BY <1>3 DEF S

\* Jobs of other threads add nothing.
LEMMA SumsRest ==
  ASSUME NEW js, NEW t \in 1 .. MaxJobs, NEW k \in Nat, NEW m \in Nat,
         \A i \in 1 .. m : js[i] \in Metrics,
         \A i \in k + 1 .. m : js[i].thread # t
  PROVE  k <= m => ChargesOf(js)[m][t] = ChargesOf(js)[k][t]
<1> DEFINE S == {n \in Nat : k + n <= m => ChargesOf(js)[k + n][t] = ChargesOf(js)[k][t]}
<1>1. 0 \in S
  OBVIOUS
<1>2. ASSUME NEW n \in Nat, n \in S
      PROVE  n + 1 \in S
  <2> SUFFICES ASSUME k + (n + 1) <= m PROVE ChargesOf(js)[k + (n + 1)][t] = ChargesOf(js)[k][t]
    OBVIOUS
  <2>1. /\ ChargesOf(js)[k + n][t] = ChargesOf(js)[k][t] /\ (k + n) + 1 \in k + 1 .. m
        /\ k + n \in 0 .. m /\ k + n \in Nat /\ (k + n) + 1 = k + (n + 1)
    BY <1>2
  <2>2. Share(js[(k + n) + 1], t) = 0
    BY <2>1 DEF Share
  <2>3. ChargesOf(js)[k + n][t] \in Nat
    BY <2>1, SumsAreNumbers
  <2>4. ChargesOf(js)[(k + n) + 1][t] = ChargesOf(js)[k + n][t] + Share(js[(k + n) + 1], t)
    BY <2>1, SumsStep
  <2> QED BY <2>1, <2>2, <2>3, <2>4
<1> HIDE DEF S
<1>3. \A n \in Nat : n \in S
  BY <1>1, <1>2, Induction
<1>4. k <= m => m - k \in Nat /\ k + (m - k) = m
  OBVIOUS
<1>5. k <= m => m - k \in S
  BY <1>3, <1>4
<1> QED BY <1>4, <1>5 DEF S

-----------------------------------------------------------------------------
(* What is charged.                                                        *)

\* No job has consumed anything it knows of before its turn is completed.
Unreported == {"spawn", "turn", "checkpoint", "persist", "working", "answered"}

\* A job begins at most one thread, and there is room for the jobs to come.
Counted ==
  /\ Len(threads) <= Len(jobs) /\ Len(jobs) <= MaxJobs
  /\ at \in Begun => Len(threads) < Len(jobs)
  /\ at \in {"reset", "launch"} => Len(jobs) < MaxJobs
  /\ at = "switch" /\ resets[Len(resets)].automatic => Len(jobs) < MaxJobs

\* Up to a job that reported a counter no more was charged than that, and up to
\* the job under way no more than it will subtract.
Covered ==
  /\ \A i \in DOMAIN jobs :
       jobs[i].thread # None /\ jobs[i].reported # None =>
         ChargesOf(jobs)[i][jobs[i].thread] <= jobs[i].reported
  /\ at \in Unreported =>
       /\ Job.reported = None
       /\ Current # None /\ Job.baseline # None =>
            ChargesOf(jobs)[Len(jobs) - 1][Current] <= Job.baseline

WithinCounters ==
  \A t \in DOMAIN threads : ChargesOf(jobs)[Len(jobs)][t] <= threads[t].counter

Charging == Counted /\ Covered /\ WithinCounters

LEMMA ChargingAtFirst == Init => Charging
<1> SUFFICES ASSUME Init PROVE Charging
  OBVIOUS
<1>1. DOMAIN jobs = {} /\ DOMAIN threads = {} /\ Len(jobs) = 0 /\ Len(threads) = 0
  BY DEF Init
<1>2. at = "stopped" /\ MaxJobs \in Nat
  BY SessionAssumption DEF Init
<1>3. Counted
  BY <1>1, <1>2 DEF Counted, Begun
<1>4. Covered /\ WithinCounters
  BY <1>1, <1>2 DEF Covered, WithinCounters, Unreported
<1> QED BY <1>3, <1>4 DEF Charging

\* Sums of what there is are numbers.
LEMMA Sums ==
  ASSUME Inv, Counted
  PROVE  /\ DOMAIN threads \subseteq 1 .. MaxJobs
         /\ \A n \in 0 .. Len(jobs), t \in 1 .. MaxJobs : ChargesOf(jobs)[n][t] \in Nat
<1>1. MaxJobs \in Nat
  BY SessionAssumption
<1>2. DOMAIN threads \subseteq 1 .. MaxJobs
  BY <1>1, Situation DEF Counted
<1>3. ASSUME NEW n \in 0 .. Len(jobs), NEW t \in 1 .. MaxJobs
      PROVE  ChargesOf(jobs)[n][t] \in Nat
  BY Situation, SumsAreNumbers
<1> QED BY <1>2, <1>3

\* A thread no job has is charged nothing.
LEMMA NewThreadsAreFree ==
  ASSUME Inv, NEW t \in 1 .. MaxJobs, t \notin DOMAIN threads
  PROVE  \A n \in 0 .. Len(jobs) : ChargesOf(jobs)[n][t] = 0
<1>1. \A i \in DOMAIN jobs : jobs[i].thread # t
  BY SessionAssumption DEF Inv, References
<1> SUFFICES ASSUME NEW n \in 0 .. Len(jobs) PROVE ChargesOf(jobs)[n][t] = 0
  OBVIOUS
<1>2. \A i \in 1 .. n : jobs[i] \in Metrics /\ jobs[i].thread # t
  BY <1>1, Situation
<1>3. ChargesOf(jobs)[n][t] = ChargesOf(jobs)[0][t]
  <2>1. n \in Nat /\ 0 \in Nat /\ 0 <= n /\ 0 + 1 .. n = 1 .. n
    OBVIOUS
  <2> QED BY <2>1, <1>2, SumsRest
<1> QED BY <1>3, SumsStep

\* The counter a new job subtracts covers what was charged before.
LEMMA UsageCovers ==
  ASSUME Inv, Charging, NEW t \in DOMAIN threads, LatestUsage(t) # None
  PROVE  ChargesOf(jobs)[Len(jobs)][t] <= LatestUsage(t)
<1> DEFINE of == {i \in DOMAIN jobs : jobs[i].thread = t}
<1>0. t # None /\ Len(jobs) \in Nat /\ DOMAIN jobs = 1 .. Len(jobs) /\ t \in 1 .. MaxJobs
  BY Situation, Sums, SessionAssumption DEF Charging
<1>1. of # {}
  BY <1>0 DEF LatestUsage
<1> DEFINE last == CHOOSE i \in of : \A j \in of : j <= i
<1>2. LatestUsage(t) = jobs[last].reported
  BY <1>0, <1>1 DEF LatestUsage
<1>3. last \in of /\ \A j \in of : j <= last
  <2>1. \E m \in of : \A j \in of : j <= m
    <3>1. of \in SUBSET Nat /\ \A i \in of : i <= Len(jobs)
      BY <1>0
    <3> HIDE DEF of
    <3> QED BY <1>0, <1>1, <3>1, Greatest
  <2> HIDE DEF of
  <2> QED BY <2>1
<1> HIDE DEF last
<1>4. last \in DOMAIN jobs /\ jobs[last].thread = t /\ last \in Nat /\ last <= Len(jobs)
  BY <1>0, <1>3
<1>5. \A i \in last + 1 .. Len(jobs) : jobs[i].thread # t
  BY <1>0, <1>3
<1>6. ChargesOf(jobs)[Len(jobs)][t] = ChargesOf(jobs)[last][t]
  <2>1. \A i \in 1 .. Len(jobs) : jobs[i] \in Metrics
    BY Situation
  <2> HIDE DEF of
  <2> DEFINE m == Len(jobs)
  <2>2. /\ m \in Nat /\ last \in Nat /\ last <= m /\ t \in 1 .. MaxJobs
        /\ \A i \in 1 .. m : jobs[i] \in Metrics
        /\ \A i \in last + 1 .. m : jobs[i].thread # t
    BY <1>0, <1>4, <1>5, <2>1
  <2> HIDE DEF m
  <2>3. ChargesOf(jobs)[m][t] = ChargesOf(jobs)[last][t]
    BY ONLY <2>2, SumsRest
  <2> QED BY <2>3 DEF m
<1> QED BY <1>0, <1>2, <1>4, <1>6 DEF Charging, Covered

LEMMA CountedKept ==
  ASSUME Inv, Counted, [Next]_vars
  PROVE  Counted'
<1> USE SessionAssumption
<1>0. /\ Len(jobs) \in Nat /\ Len(threads) \in Nat
      /\ threads \in Seq(Thread) /\ resets \in Seq(ResetEvent)
  BY Situation DEF Inv, Types
<1>1. CASE Launch
  <2>1. at = "launch" /\ at' = "spawn" /\ UNCHANGED threads /\ Len(jobs') = Len(jobs) + 1
    BY <1>1, Launched DEF Launch
  <2> QED BY <2>1, <1>0 DEF Counted, Begun
<1>2. CASE ThreadStarted
  <2>1. at = "turn" /\ at' = "checkpoint" /\ UNCHANGED jobs
    BY <1>2 DEF ThreadStarted
  <2>2. Len(threads') <= Len(threads) + 1 /\ Len(threads') \in Nat
    <3>1. CASE UNCHANGED threads
      BY <3>1, <1>0
    <3>2. CASE ~UNCHANGED threads
      <4> DEFINE new == [handoff |-> turn.handoff, told |-> {}, counter |-> 0, first |-> Len(jobs)]
      <4>1. threads' = Append(threads, new)
        BY <1>2, <3>2 DEF ThreadStarted
      <4>2. threads \in Seq(Thread \cup {new})
        BY <1>0, SeqMonotonic
      <4> HIDE DEF new
      <4> QED BY <4>1, <4>2, <1>0, AppendProperties
    <3> QED BY <3>1, <3>2
  <2> QED BY <2>1, <2>2, <1>0 DEF Counted, Begun
<1>3. CASE ~Launch /\ ~ThreadStarted
  <2>1. Len(jobs') = Len(jobs) /\ Len(threads') = Len(threads)
    BY <1>3, JobsAlike, ThreadsAlike DEF SameJobs, SameThreads
  <2>2. at' \in Begun => at \in Begun
    <3>1. CASE Spawn \/ UNCHANGED at
      BY <3>1 DEF Spawn, Begun
    <3>2. CASE at' \notin Begun
      BY <3>2
    <3>3. CASE Open \/ Prepare \/ ResetAtBoundary \/ ResetByOperator \/ SwitchPointer
      BY <3>3 DEF Open, Prepare, ResetAtBoundary, ResetByOperator, Reset, SwitchPointer, Begun
    <3>4. CASE Checkpoint \/ PersistThread \/ Answer \/ Complete \/ Finish \/ Stop \/ Save
      BY <3>4 DEF Checkpoint, PersistThread, Answer, Complete, Finish, Stop, Save, Begun
    <3>5. CASE Refuse \/ Load \/ Judge \/ Kill
      BY <3>5 DEF Refuse, Load, Judge, Kill, Begun
    <3>6. CASE Configure \/ Revise \/ WriteFile \/ Submit \/ OrphanEnds \/ UNCHANGED vars
      <4>1. UNCHANGED at
        BY <3>6 DEF Configure, Revise, WriteFile, Submit, OrphanEnds, vars
      <4> QED BY <4>1
    <3> QED BY <1>3, <3>1, <3>3, <3>4, <3>5, <3>6 DEF Next, Turn
  <2>3. at' \in {"reset", "launch"} => Len(jobs) < MaxJobs
    <3>1. CASE Prepare
      BY <3>1 DEF Prepare
    <3>2. CASE SwitchPointer
      BY <3>2 DEF SwitchPointer, Counted
    <3>3. CASE Open \/ ResetAtBoundary \/ ResetByOperator \/ Spawn
      BY <3>3 DEF Open, ResetAtBoundary, ResetByOperator, Reset, Spawn
    <3>4. CASE Checkpoint \/ PersistThread \/ Answer \/ Complete \/ Finish \/ Stop \/ Save
      BY <3>4 DEF Checkpoint, PersistThread, Answer, Complete, Finish, Stop, Save
    <3>5. CASE Refuse \/ Load \/ Judge \/ Kill
      BY <3>5 DEF Refuse, Load, Judge, Kill
    <3>6. CASE Configure \/ Revise \/ WriteFile \/ Submit \/ OrphanEnds \/ UNCHANGED vars
      <4>1. UNCHANGED at
        BY <3>6 DEF Configure, Revise, WriteFile, Submit, OrphanEnds, vars
      <4> QED BY <4>1 DEF Counted
    <3> QED BY <1>3, <3>1, <3>2, <3>3, <3>4, <3>5, <3>6 DEF Next, Turn
  <2>4. at' = "switch" /\ resets'[Len(resets')].automatic => Len(jobs) < MaxJobs
    <3>1. CASE ResetAtBoundary \/ ResetByOperator
      <4>1. PICK c, automatic : Reset(c, automatic) /\ (automatic => at = "reset")
        BY <3>1 DEF ResetAtBoundary, ResetByOperator
      <4> DEFINE event == [conversation |-> c, thread |-> session[c].thread, automatic |-> automatic]
      <4>2. resets' = Append(resets, event) /\ resets \in Seq(ResetEvent \cup {event})
        BY <4>1, <1>0, SeqMonotonic DEF Reset
      <4>3. event.automatic = automatic
        OBVIOUS
      <4> HIDE DEF event
      <4>4. resets'[Len(resets')] = event
        BY <4>2, AppendProperties
      <4> QED BY <4>1, <4>3, <4>4 DEF Counted
    <3>2. CASE at' = "switch" /\ ~ResetAtBoundary /\ ~ResetByOperator
      <4>1. OrphanEnds \/ UNCHANGED vars
        BY <3>2 DEF Next, Turn, Open, Configure, Revise, Prepare, SwitchPointer, Launch, Spawn,
          ThreadStarted, PersistThread, Finish, Stop, Checkpoint, WriteFile, Submit, Answer, Complete,
          Save, Refuse, Load, Judge, Kill
      <4>2. UNCHANGED <<at, resets>>
        BY <4>1 DEF OrphanEnds, vars
      <4> QED BY <3>2, <4>2 DEF Counted
    <3> QED BY <3>1, <3>2
  <2> QED BY <2>1, <2>2, <2>3, <2>4 DEF Counted
<1> QED BY <1>1, <1>2, <1>3

\* But for a launch or a completion, jobs share the charges as before.
SameShares ==
  /\ Len(jobs') = Len(jobs) /\ DOMAIN jobs' = DOMAIN jobs
  /\ \A i \in DOMAIN jobs :
       /\ jobs'[i].reported = jobs[i].reported /\ jobs'[i].baseline = jobs[i].baseline
       /\ jobs'[i].thread = jobs[i].thread \/ jobs[i].reported = None

LEMMA SharesAlike ==
  ASSUME Inv, Charging, [Next]_vars, ~Launch, ~Complete
  PROVE  SameShares
<1>1. /\ Len(jobs) \in Nat /\ DOMAIN jobs = 1 .. Len(jobs) /\ jobs \in Seq(Metrics)
      /\ at \in OfTurn => Len(jobs) \in DOMAIN jobs /\ Job \in Metrics
      /\ SameJobs
  BY Situation, JobsAlike DEF Inv, Types
<1>2. CASE UNCHANGED jobs
  BY <1>1, <1>2 DEF SameShares
<1>3. ASSUME NEW job, at \in OfTurn, jobs' = [jobs EXCEPT ![Len(jobs)] = job],
             job.reported = Job.reported, job.baseline = Job.baseline,
             job.thread = Job.thread \/ Job.reported = None
      PROVE  SameShares
  <2>1. \A i \in DOMAIN jobs : jobs'[i] = IF i = Len(jobs) THEN job ELSE jobs[i]
    BY <1>1, <1>3
  <2> QED BY <2>1, <1>1, <1>3 DEF SameShares, SameJobs, Job
<1>4. CASE PersistThread
  <2> DEFINE job == [Job EXCEPT !.thread = ThreadOf(Len(jobs))]
  <2>1. at \in OfTurn /\ jobs' = [jobs EXCEPT ![Len(jobs)] = job] /\ Job.reported = None
    BY <1>4 DEF PersistThread, OfTurn, Placed, Job, Charging, Covered, Unreported
  <2>2. job.reported = Job.reported /\ job.baseline = Job.baseline
    BY <2>1, <1>1 DEF Metrics
  <2> HIDE DEF job
  <2> QED BY <2>1, <2>2, <1>3
<1>5. CASE Finish \/ Stop
  <2>1. PICK state : at \in OfTurn \ {"spawn", "save"} /\ Close(state)
    BY <1>5 DEF Finish, Stop, OfTurn, Begun, Placed
  <2> DEFINE job == [Job EXCEPT !.state = state, !.thread = ThreadOf(Len(jobs))]
  <2>2. jobs' = [jobs EXCEPT ![Len(jobs)] = job]
    BY <2>1 DEF Close, Job
  <2>3. job.reported = Job.reported /\ job.baseline = Job.baseline /\ job.thread = Current
    BY <2>1, <1>1 DEF Metrics, Current
  <2>4. Job.thread = Current \/ Job.reported = None
    BY <2>1 DEF Inv, InTurn, Charging, Covered, Unreported, OfTurn, Begun, Placed
  <2> HIDE DEF job
  <2> QED BY <2>1, <2>2, <2>3, <2>4, <1>3
<1>6. UNCHANGED jobs \/ PersistThread \/ Finish \/ Stop
  BY DEF Next, Turn, vars, Open, Configure, Revise, Prepare, ResetAtBoundary, ResetByOperator, Reset,
    SwitchPointer, Spawn, ThreadStarted, Checkpoint, WriteFile, Submit, Answer, Save, Refuse, Load,
    Judge, Kill, OrphanEnds
<1> QED BY <1>2, <1>4, <1>5, <1>6

LEMMA SameSums ==
  ASSUME Inv, Counted, SameShares
  PROVE  \A t \in 1 .. MaxJobs, n \in 0 .. Len(jobs) :
           ChargesOf(jobs')[n][t] = ChargesOf(jobs)[n][t]
<1>1. Len(jobs) \in Nat /\ DOMAIN jobs = 1 .. Len(jobs) /\ \A i \in DOMAIN jobs : jobs[i] \in Metrics
  BY Situation
<1>2. \A i \in DOMAIN jobs : \A t : Share(jobs'[i], t) = Share(jobs[i], t)
  <2> TAKE i \in DOMAIN jobs
  <2> TAKE t
  <2>1. Charged(jobs'[i]) = Charged(jobs[i])
    BY DEF SameShares, Charged
  <2>2. CASE jobs'[i].thread = jobs[i].thread
    BY <2>1, <2>2 DEF Share
  <2>3. CASE jobs[i].reported = None
    <3>1. Charged(jobs[i]) = 0
      BY <2>3 DEF Charged
    <3> QED BY <2>1, <3>1 DEF Share
  <2> QED BY <2>2, <2>3 DEF SameShares
<1>3. ASSUME NEW t \in 1 .. MaxJobs
      PROVE  \A n \in 0 .. Len(jobs) : ChargesOf(jobs')[n][t] = ChargesOf(jobs)[n][t]
  <2>1. \A i \in 1 .. Len(jobs) : Share(jobs'[i], t) = Share(jobs[i], t)
    BY <1>1, <1>2
  <2> QED BY <2>1, <1>1, SumsAlike
<1> QED BY <1>3

\* What threads have consumed only grows.
LEMMA CountersGrow ==
  ASSUME Inv, [Next]_vars
  PROVE  \A t \in DOMAIN threads : threads[t].counter <= threads'[t].counter
<1>1. \A t \in DOMAIN threads : threads[t] \in Thread /\ threads[t].counter \in Nat
  BY Situation DEF Thread
<1>2. CASE UNCHANGED threads
  BY <1>1, <1>2
<1>3. CASE ThreadStarted
  BY <1>1, <1>3, ThreadBegun
<1>4. CASE Answer \/ OrphanEnds
  <2>1. PICK x : threads' = threads \/ threads' = Answered(x)
    BY <1>4 DEF Answer, OrphanEnds
  <2>2. CASE threads' = [threads EXCEPT ![x] = [threads[x] EXCEPT !.counter = threads[x].counter + 1]]
    <3>1. \A t \in DOMAIN threads :
            \/ threads'[t] = threads[t]
            \/ threads'[t] = [threads[t] EXCEPT !.counter = threads[t].counter + 1]
      BY <2>2
    <3>2. \A t \in DOMAIN threads :
            [threads[t] EXCEPT !.counter = threads[t].counter + 1].counter = threads[t].counter + 1
      BY <1>1 DEF Thread
    <3>3. \A t \in DOMAIN threads : threads'[t].counter \in {threads[t].counter, threads[t].counter + 1}
      BY <3>1, <3>2
    <3> QED BY <3>3, <1>1
  <2> QED BY <2>1, <2>2, <1>2 DEF Answered
<1>5. CASE Complete
  <2>1. threads' = [threads EXCEPT ![Job.thread] =
          [threads[Job.thread] EXCEPT !.told = threads[Job.thread].told \cup ({turn.gives} \ {None})]]
    BY <1>5 DEF Complete
  <2>2. \A t \in DOMAIN threads : threads'[t].counter = threads[t].counter
    BY <2>1, <1>1 DEF Thread
  <2> QED BY <2>2, <1>1
<1>6. UNCHANGED threads \/ ThreadStarted \/ Answer \/ OrphanEnds \/ Complete
  BY DEF Next, Turn, vars, Open, Configure, Revise, Prepare, ResetAtBoundary, ResetByOperator, Reset,
    SwitchPointer, Spawn, Launch, PersistThread, Finish, Stop, Checkpoint, WriteFile, Submit, Save,
    Refuse, Load, Judge, Kill
<1> QED BY <1>2, <1>3, <1>4, <1>5, <1>6

LEMMA UnreportedBefore ==
  ASSUME [Next]_vars, ~Launch, at' \in Unreported
  PROVE  at \in Unreported
<1>1. CASE UNCHANGED at \/ Spawn \/ ThreadStarted \/ Checkpoint \/ PersistThread \/ Answer
  BY <1>1 DEF Spawn, ThreadStarted, Checkpoint, PersistThread, Answer, Unreported
<1>2. CASE Open \/ Prepare \/ ResetAtBoundary \/ ResetByOperator \/ SwitchPointer
  BY <1>2 DEF Open, Prepare, ResetAtBoundary, ResetByOperator, Reset, SwitchPointer, Unreported
<1>3. CASE Complete \/ Finish \/ Stop \/ Save \/ Refuse \/ Load \/ Judge \/ Kill
  BY <1>3 DEF Complete, Finish, Stop, Save, Refuse, Load, Judge, Kill, Unreported
<1>4. CASE Configure \/ Revise \/ WriteFile \/ Submit \/ OrphanEnds \/ UNCHANGED vars
  <2>1. UNCHANGED at
    BY <1>4 DEF Configure, Revise, WriteFile, Submit, OrphanEnds, vars
  <2> QED BY <2>1, <1>1
<1> QED BY <1>1, <1>2, <1>3, <1>4 DEF Next, Turn

\* Most steps charge nothing.
LEMMA ChargedAsBefore ==
  ASSUME Inv, Charging, [Next]_vars, ~Launch, ~Complete, Types', Counted'
  PROVE  Covered' /\ WithinCounters'
<1>0. /\ Len(jobs) \in Nat /\ DOMAIN jobs = 1 .. Len(jobs) /\ SameShares /\ SameJobs
      /\ \A t \in DOMAIN threads : t \in 1 .. MaxJobs
      /\ None \notin Nat
      /\ Covered /\ WithinCounters /\ Counted /\ References /\ InTurn
  BY Situation, Sums, SharesAlike, JobsAlike, SessionAssumption DEF Charging, Inv
<1>1. \A t \in 1 .. MaxJobs, n \in 0 .. Len(jobs) : ChargesOf(jobs')[n][t] = ChargesOf(jobs)[n][t]
  BY <1>0, SameSums
<1>2. \A t \in DOMAIN threads' : t \in 1 .. MaxJobs /\ t # None /\ threads'[t].counter \in Nat
  <2>1. /\ DOMAIN threads' = 1 .. Len(threads') /\ Len(threads') \in Nat
        /\ \A t \in DOMAIN threads' : threads'[t] \in Thread
    BY LenProperties, ElementOfSeq DEF Types
  <2>2. Len(threads') <= MaxJobs /\ MaxJobs \in Nat
    BY <2>1, <1>0, SessionAssumption DEF Counted, SameShares
  <2> QED BY <2>1, <2>2, <1>0 DEF Thread
<1>3. \A t \in DOMAIN threads' \ DOMAIN threads, n \in 0 .. Len(jobs) : ChargesOf(jobs')[n][t] = 0
  BY <1>1, <1>2, NewThreadsAreFree
<1>4. ASSUME NEW i \in DOMAIN jobs', jobs'[i].thread # None, jobs'[i].reported # None
      PROVE  ChargesOf(jobs')[i][jobs'[i].thread] <= jobs'[i].reported
  <2>1. /\ i \in DOMAIN jobs /\ jobs'[i].reported = jobs[i].reported /\ jobs'[i].thread = jobs[i].thread
        /\ i \in 0 .. Len(jobs)
    BY <1>0, <1>4 DEF SameShares
  <2>2. jobs[i].thread \in DOMAIN threads
    BY <2>1, <1>0, <1>4 DEF References
  <2> QED BY <2>1, <2>2, <1>0, <1>1, <1>4 DEF Covered
<1>5. ASSUME at' \in Unreported
      PROVE  /\ Job'.reported = None
             /\ Current' # None /\ Job'.baseline # None =>
                  ChargesOf(jobs')[Len(jobs') - 1][Current'] <= Job'.baseline
  <2>1. at \in Unreported /\ at \in OfTurn
    BY <1>5, UnreportedBefore DEF Unreported, OfTurn, Begun, Placed
  <2>2. /\ Len(jobs) \in DOMAIN jobs /\ Job \in Metrics /\ Current \in DOMAIN threads \cup {None}
        /\ Len(jobs) - 1 \in 0 .. Len(jobs)
    BY <2>1, <1>0, Situation DEF Current
  <2>3. Job'.reported = Job.reported /\ Job'.baseline = Job.baseline /\ Len(jobs') = Len(jobs)
    BY <2>2, <1>0 DEF SameShares, Job
  <2>4. Job.reported = None
    BY <2>1, <1>0 DEF Covered
  <2> SUFFICES ASSUME Current' # None, Job'.baseline # None
               PROVE  ChargesOf(jobs')[Len(jobs) - 1][Current'] <= Job.baseline
    BY <2>3, <2>4
  <2>5. CASE Current' = Current
    BY <2>1, <2>2, <2>3, <2>5, <1>0, <1>1 DEF Covered
  <2>6. CASE Current' \in DOMAIN threads' \ DOMAIN threads
    <3>1. Job.baseline \in Nat
      BY <2>2, <2>3 DEF Metrics
    <3> QED BY <3>1, <2>2, <2>6, <1>3
  <2>7. Current' = Current \/ Current' \in DOMAIN threads' \ DOMAIN threads
    <3>1. CASE ThreadStarted
      <4>1. at = "turn"
        BY <3>1 DEF ThreadStarted
      <4>2. Current = Job.thread
        BY <4>1, <1>0 DEF InTurn, Begun, Current, ThreadOf, Job
      <4>3. Job.thread = None => Current' \notin DOMAIN threads
        <5>1. SUFFICES ASSUME Job.thread = None, Current' \in DOMAIN threads PROVE FALSE
          OBVIOUS
        <5>2. Current = None /\ Len(jobs') = Len(jobs)
          BY <4>2, <5>1, <1>0 DEF SameJobs
        <5>3. UNCHANGED jobs
          BY <3>1 DEF ThreadStarted
        <5> DEFINE own == {t \in DOMAIN threads' : threads'[t].first = Len(jobs')}
        <5>4. own = {} \/ Current' \in own
          BY DEF Current, ThreadOf
        <5>5. Current' # None
          BY <5>1, <1>0, Situation
        <5>6. own # {}
          BY <5>1, <5>3, <5>5 DEF Current, ThreadOf, Job
        <5>7. threads'[Current'].first = Len(jobs)
          BY <5>2, <5>4, <5>6
        <5>8. threads'[Current'] = threads[Current']
          BY <3>1, <5>1, ThreadBegun
        <5>9. threads[Current'].first # Len(jobs)
          BY <4>1, <5>1, <1>0 DEF InTurn, Begun
        <5> QED BY <5>7, <5>8, <5>9
      <4> QED BY <3>1, <4>2, <4>3, ThreadBegun
    <3>2. CASE ~ThreadStarted
      BY <3>2, <2>1, <1>0, ThreadsAlike, ThreadsOfJobsAlike
    <3> QED BY <3>1, <3>2
  <2> QED BY <2>5, <2>6, <2>7
<1>6. Covered'
  BY <1>4, <1>5 DEF Covered
<1>7. WithinCounters'
  <2> SUFFICES ASSUME NEW t \in DOMAIN threads'
               PROVE  ChargesOf(jobs')[Len(jobs')][t] <= threads'[t].counter
    BY DEF WithinCounters
  <2>1. Len(jobs') = Len(jobs) /\ Len(jobs) \in 0 .. Len(jobs)
    BY <1>0 DEF SameShares
  <2>2. CASE t \in DOMAIN threads
    <3>1. threads[t].counter <= threads'[t].counter /\ threads[t].counter \in Nat
      BY <2>2, CountersGrow, Situation DEF Thread
    <3>2. ChargesOf(jobs)[Len(jobs)][t] \in Nat /\ ChargesOf(jobs)[Len(jobs)][t] <= threads[t].counter
      BY <2>1, <2>2, <1>0, Sums DEF WithinCounters
    <3> QED BY <2>1, <2>2, <3>1, <3>2, <1>0, <1>1, <1>2
  <2>3. CASE t \notin DOMAIN threads
    BY <2>1, <2>3, <1>2, <1>3
  <2> QED BY <2>2, <2>3
<1> QED BY <1>6, <1>7

\* A job begins with the counter that covers what was charged before.
LEMMA ChargedAtLaunch ==
  ASSUME Inv, Charging, Launch
  PROVE  Covered' /\ WithinCounters'
<1> DEFINE own == session[Conversation(Stage)]
           job == [stage |-> Stage, thread |-> own.thread, baseline |-> LatestUsage(own.thread),
                   reported |-> None, state |-> "RUNNING"]
<1>0. /\ Len(jobs) \in Nat /\ DOMAIN jobs = 1 .. Len(jobs)
      /\ \A t \in DOMAIN threads : t \in 1 .. MaxJobs
      /\ None \notin Nat
      /\ Covered /\ WithinCounters /\ Counted /\ References
  BY Situation, Sums, SessionAssumption DEF Charging, Inv
<1>1. /\ Len(jobs') = Len(jobs) + 1 /\ DOMAIN jobs' = DOMAIN jobs \cup {Len(jobs) + 1}
      /\ \A i \in DOMAIN jobs : jobs'[i] = jobs[i]
      /\ Conversation(Stage) \in Conversations
      /\ UNCHANGED threads /\ at' = "spawn"
  BY Launched DEF Launch
<1>2. Job' = job /\ jobs'[Len(jobs) + 1] = job
  <2>1. jobs' = Append(jobs, job)
    BY DEF Launch
  <2>2. jobs \in Seq(Metrics \cup {job})
    BY SeqMonotonic DEF Inv, Types
  <2> HIDE DEF job
  <2>3. jobs'[Len(jobs) + 1] = job
    BY <2>1, <2>2, AppendProperties
  <2> QED BY <2>3, <1>1 DEF Job
<1>3. Charged(job) = 0
  BY DEF Charged
<1>4. job.reported = None /\ job.baseline = LatestUsage(own.thread) /\ job.thread = own.thread
  OBVIOUS
<1> HIDE DEF job
<1>5. ASSUME NEW t \in 1 .. MaxJobs
      PROVE  /\ \A n \in 0 .. Len(jobs) : ChargesOf(jobs')[n][t] = ChargesOf(jobs)[n][t]
             /\ ChargesOf(jobs')[Len(jobs) + 1][t] = ChargesOf(jobs)[Len(jobs)][t]
  <2>1. \A i \in 1 .. Len(jobs) : Share(jobs'[i], t) = Share(jobs[i], t)
    BY <1>0, <1>1
  <2>2. \A n \in 0 .. Len(jobs) : ChargesOf(jobs')[n][t] = ChargesOf(jobs)[n][t]
    BY <2>1, <1>0, SumsAlike
  <2>3. Share(jobs'[Len(jobs) + 1], t) = 0
    BY <1>2, <1>3 DEF Share
  <2>4. ChargesOf(jobs')[Len(jobs)][t] = ChargesOf(jobs)[Len(jobs)][t] /\ ChargesOf(jobs)[Len(jobs)][t] \in Nat
    BY <2>2, <1>0, Sums
  <2>5. ChargesOf(jobs')[Len(jobs) + 1][t] = ChargesOf(jobs')[Len(jobs)][t] + Share(jobs'[Len(jobs) + 1], t)
    BY <1>0, SumsStep
  <2> QED BY <2>2, <2>3, <2>4, <2>5
<1>6. ASSUME NEW i \in DOMAIN jobs', jobs'[i].thread # None, jobs'[i].reported # None
      PROVE  ChargesOf(jobs')[i][jobs'[i].thread] <= jobs'[i].reported
  <2>1. i \in DOMAIN jobs /\ jobs'[i] = jobs[i] /\ i \in 0 .. Len(jobs)
    BY <1>0, <1>1, <1>2, <1>4, <1>6
  <2>2. jobs[i].thread \in 1 .. MaxJobs
    BY <2>1, <1>0, <1>6 DEF References
  <2> QED BY <2>1, <2>2, <1>0, <1>5, <1>6 DEF Covered
<1>7. ASSUME Current' # None, Job'.baseline # None
      PROVE  ChargesOf(jobs')[Len(jobs') - 1][Current'] <= Job'.baseline
  <2>1. \A t \in DOMAIN threads' : threads'[t].first # Len(jobs')
    BY <1>0, <1>1 DEF References
  <2>2. Current' = own.thread
    BY <2>1, <1>2, <1>4 DEF Current, ThreadOf, Job
  <2>3. own.thread \in DOMAIN threads
    BY <2>2, <1>0, <1>1, <1>7 DEF References
  <2>4. Len(jobs') - 1 = Len(jobs) /\ Len(jobs) \in 0 .. Len(jobs)
    BY <1>0, <1>1
  <2>5. LatestUsage(own.thread) # None /\ Job'.baseline = LatestUsage(own.thread)
    BY <1>2, <1>4, <1>7
  <2>6. ChargesOf(jobs)[Len(jobs)][own.thread] <= LatestUsage(own.thread)
    BY <2>3, <2>5, UsageCovers
  <2> QED BY <2>2, <2>3, <2>4, <2>5, <2>6, <1>0, <1>5
<1>8. Covered'
  BY <1>2, <1>4, <1>6, <1>7 DEF Covered
<1>9. WithinCounters'
  BY <1>0, <1>1, <1>5 DEF WithinCounters
<1> QED BY <1>8, <1>9

\* A completed turn is charged what its thread has consumed since.
LEMMA ChargedAtCompletion ==
  ASSUME Inv, Charging, [Next]_vars, Complete
  PROVE  Covered' /\ WithinCounters'
<1> DEFINE t0 == Job.thread
           r == threads[t0].counter
           job == [Job EXCEPT !.reported = r]
<1>0. /\ Len(jobs) \in Nat /\ DOMAIN jobs = 1 .. Len(jobs)
      /\ \A t \in DOMAIN threads : t \in 1 .. MaxJobs
      /\ None \notin Nat
      /\ Covered /\ WithinCounters /\ Counted /\ References /\ InTurn
      /\ at = "answered" /\ at' = "completed"
      /\ SameJobs /\ SameThreads
  BY Situation, Sums, SessionAssumption, JobsAlike, ThreadsAlike
    DEF Charging, Inv, Complete, Launch, ThreadStarted
<1>1. /\ Len(jobs) \in DOMAIN jobs /\ Job \in Metrics /\ Current \in DOMAIN threads \cup {None}
      /\ Len(jobs) - 1 \in 0 .. Len(jobs) /\ Len(jobs) - 1 \in Nat /\ (Len(jobs) - 1) + 1 = Len(jobs)
  BY <1>0, Situation DEF Current, OfTurn, Placed
<1>2. t0 = Current /\ t0 \in DOMAIN threads /\ r \in Nat
  BY <1>0, <1>1, Situation DEF InTurn, Placed, Thread
<1>3. /\ Job.reported = None
      /\ Job.baseline # None => ChargesOf(jobs)[Len(jobs) - 1][t0] <= Job.baseline
  BY <1>0, <1>2 DEF Covered, Unreported
<1>4. /\ jobs' = [jobs EXCEPT ![Len(jobs)] = job]
      /\ \A i \in DOMAIN jobs : jobs'[i] = IF i = Len(jobs) THEN job ELSE jobs[i]
  BY <1>1 DEF Complete, Job
<1>5. /\ job.thread = t0 /\ job.reported = r /\ job.baseline = Job.baseline
      /\ job.baseline \in Nat \cup {None}
  BY <1>1, <1>2 DEF Metrics
<1> HIDE DEF job
<1>6. \A t \in DOMAIN threads : threads'[t].counter = threads[t].counter
  <2>1. threads' = [threads EXCEPT ![Job.thread] =
          [threads[Job.thread] EXCEPT !.told = threads[Job.thread].told \cup ({turn.gives} \ {None})]]
    BY DEF Complete
  <2> QED BY <2>1, Situation DEF Thread
<1>7. ASSUME NEW t \in 1 .. MaxJobs
      PROVE  /\ \A n \in 0 .. Len(jobs) - 1 : ChargesOf(jobs')[n][t] = ChargesOf(jobs)[n][t]
             /\ ChargesOf(jobs)[Len(jobs) - 1][t] \in Nat
             /\ ChargesOf(jobs)[Len(jobs)][t] = ChargesOf(jobs)[Len(jobs) - 1][t]
             /\ ChargesOf(jobs')[Len(jobs)][t] = ChargesOf(jobs)[Len(jobs) - 1][t] + Share(job, t)
  <2>1. \A i \in 1 .. Len(jobs) - 1 : Share(jobs'[i], t) = Share(jobs[i], t)
    <3>1. \A i \in 1 .. Len(jobs) - 1 : i \in DOMAIN jobs /\ i # Len(jobs)
      <4>1. Len(jobs) \in Nat /\ DOMAIN jobs = 1 .. Len(jobs)
        BY <1>0
      <4>2. \A n \in Nat : \A i \in 1 .. n - 1 : i \in 1 .. n /\ i # n
        OBVIOUS
      <4> QED BY <4>1, <4>2
    <3>2. \A i \in 1 .. Len(jobs) - 1 : jobs'[i] = jobs[i]
      BY <3>1, <1>4
    <3> QED BY <3>2
  <2>2. \A n \in 0 .. Len(jobs) - 1 : ChargesOf(jobs')[n][t] = ChargesOf(jobs)[n][t]
    BY ONLY <2>1, <1>1, t \in 1 .. MaxJobs, SumsAlike
  <2>3. ChargesOf(jobs)[Len(jobs) - 1][t] \in Nat
    BY <1>0, <1>1, Sums
  <2>4. Share(jobs[Len(jobs)], t) = 0
    BY <1>3 DEF Share, Charged, Job
  <2>5. /\ ChargesOf(jobs)[Len(jobs)][t] = ChargesOf(jobs)[Len(jobs) - 1][t] + Share(jobs[Len(jobs)], t)
        /\ ChargesOf(jobs')[Len(jobs)][t] = ChargesOf(jobs')[Len(jobs) - 1][t] + Share(jobs'[Len(jobs)], t)
    BY <1>1, SumsStep
  <2>6. jobs'[Len(jobs)] = job /\ Len(jobs) - 1 \in 0 .. Len(jobs) - 1
    BY <1>1, <1>4
  <2> QED BY <2>2, <2>3, <2>4, <2>5, <2>6
<1>8. ChargesOf(jobs')[Len(jobs)][t0] <= r
  <2> DEFINE before == ChargesOf(jobs)[Len(jobs) - 1][t0]
  <2>1. before \in Nat /\ ChargesOf(jobs')[Len(jobs)][t0] = before + Charged(job)
    BY <1>0, <1>2, <1>5, <1>7 DEF Share
  <2>2. before <= r
    BY <1>0, <1>2, <1>7 DEF WithinCounters
  <2>3. Job.baseline # None => before <= Job.baseline
    BY <1>3
  <2>4. Charged(job) = IF Job.baseline = None \/ r < Job.baseline THEN 0 ELSE r - Job.baseline
    BY <1>0, <1>2, <1>5 DEF Charged
  <2> HIDE DEF before, r
  <2> QED BY <2>1, <2>2, <2>3, <2>4, <1>2, <1>5
<1>9. ASSUME NEW i \in DOMAIN jobs', jobs'[i].thread # None, jobs'[i].reported # None
      PROVE  ChargesOf(jobs')[i][jobs'[i].thread] <= jobs'[i].reported
  <2>1. i \in DOMAIN jobs
    BY <1>0 DEF SameJobs
  <2>2. CASE i = Len(jobs)
    BY <2>1, <2>2, <1>4, <1>5, <1>8
  <2>3. CASE i # Len(jobs)
    <3>1. jobs'[i] = jobs[i] /\ i \in 0 .. Len(jobs) - 1
      BY <2>1, <2>3, <1>0, <1>4
    <3>2. jobs[i].thread \in 1 .. MaxJobs
      BY <2>1, <3>1, <1>0, <1>9 DEF References
    <3> QED BY <2>1, <3>1, <3>2, <1>0, <1>7, <1>9 DEF Covered
  <2> QED BY <2>2, <2>3
<1>10. Covered'
  BY <1>0, <1>9 DEF Covered, Unreported
<1>11. WithinCounters'
  <2> SUFFICES ASSUME NEW t \in DOMAIN threads
               PROVE  ChargesOf(jobs')[Len(jobs)][t] <= threads'[t].counter
    BY <1>0 DEF WithinCounters, SameJobs, SameThreads
  <2>1. CASE t = t0
    BY <2>1, <1>2, <1>6, <1>8
  <2>2. CASE t # t0
    <3>1. Share(job, t) = 0
      BY <2>2, <1>5 DEF Share
    <3>2. ChargesOf(jobs')[Len(jobs)][t] = ChargesOf(jobs)[Len(jobs)][t]
      BY <3>1, <1>0, <1>7
    <3> QED BY <3>2, <1>0, <1>6 DEF WithinCounters
  <2> QED BY <2>1, <2>2
<1> QED BY <1>10, <1>11

LEMMA ChargingKept ==
  ASSUME Inv, Charging, [Next]_vars
  PROVE  Charging'
<1>1. Types' /\ Counted'
  BY TypesKept, CountedKept DEF Charging
<1>2. Covered' /\ WithinCounters'
  BY <1>1, ChargedAsBefore, ChargedAtLaunch, ChargedAtCompletion
<1> QED BY <1>1, <1>2 DEF Charging

-----------------------------------------------------------------------------
(* The theorems.                                                           *)

LEMMA InvIsKept == Inv /\ [Next]_vars => Inv'
<1> SUFFICES ASSUME Inv, [Next]_vars PROVE Inv'
  OBVIOUS
<1>1. Types'
  BY TypesKept
<1>2. References' /\ Steps' /\ Owned' /\ InTurn' /\ Rotating'
  BY <1>1, ReferencesKept, StepsKept, OwnedKept, InTurnKept, RotatingKept
<1>3. KnownWasSupplied' /\ ContinuityKept'
  BY KnownKept, ContinuityPreserved
<1> QED BY <1>1, <1>2, <1>3 DEF Inv

LEMMA InvAlways == Spec => []Inv
<1>1. Init => Inv
  BY InitialState
<1>2. Inv /\ [Next]_vars => Inv'
  BY InvIsKept
<1> QED BY <1>1, <1>2, PTL DEF Spec

LEMMA InvHasTypes == Inv => TypeOK
<1> SUFFICES ASSUME Inv PROVE TypeOK
  OBVIOUS
<1>1. Types /\ References
  BY DEF Inv
<1>2. session \in [Conversations -> [thread : DOMAIN threads \cup {None}, known : Revisions \cup {None},
                                    handoff : DOMAIN resets \cup {None}, boundary : BOOLEAN]]
  BY <1>1 DEF Types, References, Pointer
<1>3. \A i \in DOMAIN resets : resets[i] \in
        [conversation : Conversations, thread : DOMAIN threads, automatic : BOOLEAN]
  BY <1>1, Shapes DEF References, ResetEvent
<1>4. \A t \in DOMAIN threads : threads[t] \in
        [handoff : DOMAIN resets \cup {None}, told : SUBSET Revisions, counter : Nat,
         first : DOMAIN jobs]
  BY <1>1, Shapes DEF References, Thread
<1>5. turn \in Turns
  BY <1>1 DEF Types, References, TurnRecord, Turns
<1>6. \A i \in DOMAIN jobs : jobs[i] \in Metrics
  BY <1>1, Shapes
<1> QED BY <1>1, <1>2, <1>3, <1>4, <1>5, <1>6 DEF TypeOK, Types, References, Places

\* Pointers name threads that exist, threads jobs that were run, resets and turns
\* what there is to name.
THEOREM TypeCorrect == Spec => []TypeOK
BY InvAlways, InvHasTypes, PTL

\* What a pointer notes as known, so that prompts leave it out, was given to its
\* thread in a turn that completed.
THEOREM KnownAlwaysSupplied == Spec => []KnownWasSupplied
<1>1. Inv => KnownWasSupplied
  BY DEF Inv
<1> QED BY <1>1, InvAlways, PTL

\* No conversation that completed a turn is left without thread and handoff, and
\* a thread that began after a reset began with its handoff.
THEOREM ContinuityAlwaysKept == Spec => []ContinuityKept
<1>1. Inv => ContinuityKept
  BY DEF Inv
<1> QED BY <1>1, InvAlways, PTL

\* Only an operator takes a thread away in which execution has begun.
THEOREM ExecutionAlwaysKept == Spec => ExecutionKept
<1> DEFINE Kept(c) ==
      session'[c].thread # session[c].thread /\ session[c].thread # None =>
         \/ ~resets[Len(resets)].automatic
         \/ /\ ~session[c].boundary
            /\ ~\E i \in DOMAIN jobs : /\ jobs[i].thread = session[c].thread
                                       /\ Phase(jobs[i].stage) = "delivery"
                                       /\ jobs[i].stage # "framework" \/ policy = "analysis-handoff"
<1>1. ASSUME Inv, [Next]_vars PROVE \A c \in Conversations : Kept(c)
  <2>0. Types /\ InTurn /\ Owned /\ Rotating
    BY <1>1 DEF Inv
  <2>1. \A c \in Conversations : session[c] \in Pointer
    BY <2>0 DEF Types
  <2> SUFFICES ASSUME NEW c \in Conversations,
                      session'[c].thread # session[c].thread, session[c].thread # None,
                      resets[Len(resets)].automatic
               PROVE  /\ ~session[c].boundary
                      /\ \A i \in DOMAIN jobs :
                           jobs[i].thread = session[c].thread =>
                             ~(/\ Phase(jobs[i].stage) = "delivery"
                               /\ jobs[i].stage # "framework" \/ policy = "analysis-handoff")
    OBVIOUS
  <2>2. SwitchPointer /\ resets[Len(resets)].conversation = c
    <3>1. ~Checkpoint
      <4>1. SUFFICES ASSUME Checkpoint PROVE FALSE
        OBVIOUS
      <4>2. Own.thread \in {None, Current}
        BY <4>1, <2>0 DEF Checkpoint, InTurn
      <4>3. session'[c] = session[c] \/ (session[c] = Own /\ session'[c].thread = Current)
        BY <4>1, <2>0, <2>1 DEF Checkpoint, Own, Current, Types, Pointer
      <4> QED BY <4>2, <4>3
    <3>2. ~Save
      <4>1. SUFFICES ASSUME Save PROVE FALSE
        OBVIOUS
      <4>2. Own.thread = Job.thread
        BY <4>1, <2>0 DEF Save, InTurn, Placed
      <4>3. session'[c] = session[c] \/ (session[c] = Own /\ session'[c].thread = Job.thread)
        BY <4>1, <2>0, <2>1 DEF Save, Own, Types, Pointer
      <4> QED BY <4>2, <4>3
    <3>3. SwitchPointer
      BY <1>1, <3>1, <3>2, PointersMove
    <3> QED BY <3>3, <2>0 DEF SwitchPointer, Types
  <2>3. MayRotate(c)
    BY <2>0, <2>2 DEF SwitchPointer, Rotating
  <2>4. ASSUME NEW i \in DOMAIN jobs, jobs[i].thread = session[c].thread
        PROVE  ~(/\ Phase(jobs[i].stage) = "delivery"
                 /\ jobs[i].stage # "framework" \/ policy = "analysis-handoff")
    <3>1. jobs[i].stage \in Stages
      BY <2>0, Shapes DEF Metrics
    <3>2. Conversation(jobs[i].stage) = "worker"
      BY <2>0, <2>3, <2>4 DEF Owned, MayRotate
    <3>3. jobs[i].stage # "review"
      BY <3>2 DEF Conversation
    <3>4. jobs[i].stage # "implementation" /\ (policy = "analysis-handoff" => jobs[i].stage # "framework")
      BY <2>3 DEF MayRotate, Started
    <3> QED BY <3>1, <3>3, <3>4 DEF Stages, Phase
  <2> QED BY <2>3, <2>4 DEF MayRotate
<1>2. Inv /\ [Next]_vars => [\A c \in Conversations : Kept(c)]_vars
  BY <1>1
<1> QED BY <1>2, InvAlways, PTL DEF Spec, ExecutionKept

\* The jobs of a thread are charged no more than the thread has consumed, however
\* many there are and whatever reports are lost.
THEOREM UsageNeverChargedTwice == Spec => []NeverChargedTwice
<1>1. Init => Inv /\ Charging
  BY InitialState, ChargingAtFirst
<1>2. (Inv /\ Charging) /\ [Next]_vars => (Inv /\ Charging)'
  BY InvIsKept, ChargingKept
<1>3. Inv /\ Charging => NeverChargedTwice
  BY ChargedFromJobs DEF Charging, WithinCounters, NeverChargedTwice
<1> QED BY <1>1, <1>2, <1>3, PTL DEF Spec
=============================================================================
