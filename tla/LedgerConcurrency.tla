------------------------- MODULE LedgerConcurrency -------------------------
(***************************************************************************)
(* Several processes on one run.sqlite3 (core/store.py, core/ledger.py,    *)
(* control/runtime.py).  The store opens a connection per operation and    *)
(* lets sqlite3 begin the transaction at the first INSERT or UPDATE: what  *)
(* an operation SELECTs before that is read in autocommit mode, what it    *)
(* reads after it is read under the write lock.  An operation is therefore *)
(* two steps here: Check (the guard, the next ordinal and, for a bare      *)
(* record_event, the last hash) and Write (one transaction).               *)
(*                                                                         *)
(* `port run', `stage reopen' and `recovery-resume' hold                   *)
(* .dpf/controller.lock; `stage start', `stage complete', `artifact add'   *)
(* and the worker's `codex submit' do not.                                 *)
(*                                                                         *)
(* Abstractions: the role, phase and repair-budget guards are those of     *)
(* StageLedger and left out; the workflow is a chain 1..N; BLOCKED is any  *)
(* outcome that does not satisfy a dependent; the hash of an event is its  *)
(* position, so an event names its predecessor by position; a bundle is    *)
(* one artifact; at most one worker lives at a time.                       *)
(***************************************************************************)
EXTENDS Integers, Sequences, FiniteSets

CONSTANTS N,             \* stages of the chain
          Controllers,   \* processes that take controller.lock
          Operators,     \* command-line writers that do not
          Workers,       \* at most one process, the worker of the live turn
          Orphans,       \* may a killed controller leave its worker running?
          Nobody,        \* not a process
          MaxEvents      \* bound on the length of the ledger

ASSUME ConcurrencyAssumption ==
  /\ N \in Nat \ {0} /\ MaxEvents \in Nat
  /\ Orphans \in BOOLEAN
  /\ \A v, w \in Workers : v = w
  /\ Controllers \cap Operators = {} /\ Controllers \cap Workers = {}
  /\ Operators \cap Workers = {}
  /\ Nobody \notin Controllers

VARIABLES status,    \* the table stages
          outputs,   \* the table stage_artifacts: ordinals per stage
          events,    \* the table events: what happened, and after which event
          lock,      \* the owner of controller.lock
          working,   \* does the worker's process group live?
          pc,        \* where each process is
          read       \* what it read before its transaction

vars == <<status, outputs, events, lock, working, pc, read>>

Stages == 1 .. N
Processes == Controllers \cup Operators \cup Workers
Kinds == {"CREATED", "READY", "STARTED", "COMPLETED", "RETRIED", "OUTPUT", "NOTE"}

\* The operations a process issues, and the stage each is about.
Commands(p) ==
  IF p \in Workers THEN {[op |-> "record", stage |-> 0]}
  ELSE [op : {"start", "complete", "register"}, stage : Stages] \cup
       IF p \in Operators THEN {}
       ELSE [op : {"commit", "reopen", "retry"}, stage : Stages]
              \cup {[op |-> "record", stage |-> 0]}

NoRead == [command |-> [op |-> "none", stage |-> 0], head |-> 0, ordinal |-> 0]

ChainVerifies == \A i \in DOMAIN events : events[i].prev = i - 1

-----------------------------------------------------------------------------
(* What one operation does.                                                *)

\* transition_row and the other conditions read before the first write.
Guard(c) ==
  \/ c.op = "record"
  \/ c.op = "start" /\ status[c.stage] = "READY"
  \/ c.op \in {"complete", "register", "commit"} /\ status[c.stage] = "RUNNING"
  \/ c.op = "reopen" /\ status[c.stage] = "BLOCKED"
  \/ /\ c.op = "retry" /\ status[c.stage] = "PASS"
     /\ \E t \in c.stage + 1 .. N : status[t] = "RUNNING"

NewStatus == [start |-> "RUNNING", commit |-> "PASS", complete |-> "BLOCKED",
              reopen |-> "READY", retry |-> "READY"]

\* The UPDATE has no condition on the status it replaces.
Updated(c) ==
  [s \in Stages |->
     IF c.op \notin DOMAIN NewStatus THEN status[s]
     ELSE IF s = c.stage THEN NewStatus[c.op]
     ELSE IF c.op = "retry" /\ s > c.stage THEN "PENDING" ELSE status[s]]

\* The stages refresh_ready releases once the outcome is in the table.
Released(c) ==
  IF c.op \notin {"commit", "complete"} THEN {}
  ELSE {s \in Stages : /\ Updated(c)[s] = "PENDING"
                       /\ s > 1 /\ Updated(c)[s - 1] = "PASS"}

Refreshed(c) == [s \in Stages |-> IF s \in Released(c) THEN "READY" ELSE Updated(c)[s]]

Entry(k, s, new) == [kind |-> k, stage |-> s, status |-> new]

\* The stages of S in the order of the table.
InOrder(S) ==
  [i \in 1 .. Cardinality(S) |-> CHOOSE s \in S : Cardinality({r \in S : r < s}) = i - 1]

Releases(c) ==
  LET order == InOrder(Released(c))
  IN  [i \in DOMAIN order |-> Entry("READY", order[i], "READY")]

Resets(c) ==
  LET order == InOrder(c.stage .. N)
  IN  [i \in DOMAIN order |-> Entry("RETRIED", order[i], Updated(c)[order[i]])]

Outcome(c) ==
  LET done == Entry("COMPLETED", c.stage, Updated(c)[c.stage])
      output == Entry("OUTPUT", c.stage, status[c.stage])
  IN  CASE c.op = "record"   -> <<Entry("NOTE", 0, "NOTE")>>
        [] c.op = "start"    -> <<Entry("STARTED", c.stage, "RUNNING")>>
        [] c.op = "register" -> <<output>>
        [] c.op = "complete" -> <<done>> \o Releases(c)
        [] c.op = "commit"   -> <<output, done>> \o Releases(c)
        [] c.op = "reopen"   -> <<Entry("RETRIED", c.stage, "READY")>>
        [] c.op = "retry"    -> Resets(c)

\* append_event: the first entry follows the hash it read, which a bare
\* record_event read before its transaction; the others follow each other.
Chained(c, head) ==
  LET first == IF c.op = "record" THEN head ELSE Len(events)
      entry(i) == Outcome(c)[i]
  IN  [i \in DOMAIN Outcome(c) |->
         [kind |-> entry(i).kind, stage |-> entry(i).stage, status |-> entry(i).status,
          prev |-> IF i = 1 THEN first ELSE Len(events) + i - 1]]

AddsOutput(c) == c.op \in {"register", "commit"}

\* UNIQUE (stage_name, direction, ordinal) rolls the transaction back.
Conflict(c, ordinal) ==
  AddsOutput(c) /\ \E i \in DOMAIN outputs[c.stage] : outputs[c.stage][i] = ordinal

-----------------------------------------------------------------------------
Init ==
  /\ status = [s \in Stages |-> IF s = 1 THEN "READY" ELSE "PENDING"]
  /\ outputs = [s \in Stages |-> <<>>]
  /\ events = <<[kind |-> "CREATED", stage |-> 0, status |-> "NOTE", prev |-> 0]>>
  /\ lock = Nobody
  /\ working = FALSE
  /\ pc = [p \in Processes |-> "out"]
  /\ read = [p \in Processes |-> NoRead]

tables == <<status, outputs, events>>

\* open_project verifies the whole chain and refuses a broken one.
Open(p) ==
  /\ pc[p] = "out"
  /\ p \in Workers => working
  /\ ChainVerifies
  /\ pc' = [pc EXCEPT ![p] = "open"]
  /\ UNCHANGED <<tables, lock, working, read>>

\* A shared lock would exclude nobody.
AcquireShared(p) ==
  /\ p \in Controllers /\ pc[p] = "open"
  /\ lock' = p
  /\ pc' = [pc EXCEPT ![p] = "held"]
  /\ UNCHANGED <<tables, working, read>>

\* controller_run: flock without waiting.
Acquire(p) ==
  /\ p \in Controllers /\ pc[p] = "open" /\ lock = Nobody
  /\ lock' = p
  /\ pc' = [pc EXCEPT ![p] = "held"]
  /\ UNCHANGED <<tables, working, read>>

\* A status written before the transaction of its event.
CheckAndUpdate(p) ==
  /\ pc[p] = IF p \in Controllers THEN "held" ELSE "open"
  /\ \E c \in Commands(p) :
       /\ Guard(c)
       /\ status' = Updated(c)
       /\ read' = [read EXCEPT ![p] =
            [command |-> c, head |-> Len(events),
             ordinal |-> IF AddsOutput(c) THEN Len(outputs[c.stage]) ELSE 0]]
  /\ pc' = [pc EXCEPT ![p] = "checked"]
  /\ UNCHANGED <<outputs, events, lock, working>>

\* The reads of an operation, outside its transaction.
Check(p) ==
  /\ pc[p] = IF p \in Controllers THEN "held" ELSE "open"
  /\ \E c \in Commands(p) :
       /\ Guard(c)
       /\ read' = [read EXCEPT ![p] =
            [command |-> c, head |-> Len(events),
             ordinal |-> IF AddsOutput(c) THEN Len(outputs[c.stage]) ELSE 0]]
  /\ pc' = [pc EXCEPT ![p] = "checked"]
  /\ UNCHANGED <<tables, lock, working>>

\* After its transaction a controller goes on; any other command is over.
Return(p) ==
  /\ pc' = [pc EXCEPT ![p] = IF p \in Controllers THEN "held" ELSE "out"]
  /\ read' = [read EXCEPT ![p] = NoRead]

\* The transaction commits.
Write(p) ==
  LET c == read[p].command
      n == read[p].ordinal
      new == Chained(c, read[p].head)
  IN  /\ pc[p] = "checked" /\ ~Conflict(c, n)
      /\ Len(events) + Len(new) <= MaxEvents
      /\ status' = Refreshed(c)
      /\ events' = events \o new
      /\ outputs' = IF AddsOutput(c)
                      THEN [outputs EXCEPT ![c.stage] = Append(@, n)] ELSE outputs
      /\ Return(p)
      /\ UNCHANGED <<lock, working>>

\* The transaction is rolled back: another output took the ordinal.
Rollback(p) ==
  /\ pc[p] = "checked" /\ Conflict(read[p].command, read[p].ordinal)
  /\ Return(p)
  /\ UNCHANGED <<tables, lock, working>>

\* The controller starts the worker and only waits for it.
StartTurn(p) ==
  /\ p \in Controllers /\ pc[p] = "held" /\ Workers # {} /\ ~working
  /\ working' = TRUE
  /\ pc' = [pc EXCEPT ![p] = "turn"]
  /\ UNCHANGED <<tables, lock, read>>

StopWorker(place) == [p \in Processes |-> IF p \in Workers THEN "out" ELSE place[p]]

\* A turn that ends without its process group.
EndTurnLeavingWorker(p) ==
  /\ pc[p] = "turn"
  /\ working' = FALSE
  /\ pc' = [pc EXCEPT ![p] = "held"]
  /\ UNCHANGED <<tables, lock, read>>

\* The turn is over: execute has waited for the process or killed its group.
EndTurn(p) ==
  /\ pc[p] = "turn"
  /\ working' = FALSE
  /\ pc' = StopWorker([pc EXCEPT ![p] = "held"])
  /\ read' = [q \in Processes |-> IF q \in Workers THEN NoRead ELSE read[q]]
  /\ UNCHANGED <<tables, lock>>

\* A process ends or is killed; the kernel drops its lock.  A controller that
\* is interrupted kills its worker's group; one that is killed cannot.
Exit(p) ==
  /\ pc[p] # "out"
  /\ lock' = IF lock = p THEN Nobody ELSE lock
  /\ LET gone == [pc EXCEPT ![p] = "out"]
     IN  \/ /\ pc[p] # "turn" \/ Orphans
            /\ pc' = gone /\ read' = [read EXCEPT ![p] = NoRead]
            /\ UNCHANGED working
         \/ /\ pc[p] = "turn"
            /\ working' = FALSE
            /\ pc' = StopWorker(gone)
            /\ read' = [q \in Processes |->
                          IF q = p \/ q \in Workers THEN NoRead ELSE read[q]]
  /\ UNCHANGED tables

\* A worker whose controller is gone ends on its own.
OrphanEnds ==
  /\ working /\ \A p \in Controllers : pc[p] # "turn"
  /\ working' = FALSE
  /\ pc' = StopWorker(pc)
  /\ read' = [q \in Processes |-> IF q \in Workers THEN NoRead ELSE read[q]]
  /\ UNCHANGED <<tables, lock>>

Next ==
  \/ \E p \in Processes :
       \/ Open(p) \/ Acquire(p) \/ Check(p) \/ Write(p) \/ Rollback(p)
       \/ StartTurn(p) \/ EndTurn(p) \/ Exit(p)
  \/ OrphanEnds

Spec == Init /\ [][Next]_vars

-----------------------------------------------------------------------------
(* The status of stage s after the first n events.                         *)
Replayed(s, n) ==
  LET about == {i \in 1 .. n : /\ events[i].stage = s
                               /\ events[i].kind \notin {"OUTPUT", "NOTE"}}
  IN  IF about = {} THEN IF s = 1 THEN "READY" ELSE "PENDING"
      ELSE events[CHOOSE i \in about : \A j \in about : j <= i].status

\* Types, and what the turn relies on: the controller that waits for a worker
\* owns controller.lock, and only a living worker is inside a command.
TypeOK ==
  /\ status \in [Stages -> {"PENDING", "READY", "RUNNING", "PASS", "BLOCKED"}]
  /\ outputs \in [Stages -> Seq(Nat)]
  /\ \A i \in DOMAIN events : events[i].kind \in Kinds /\ events[i].prev \in 0 .. MaxEvents
  /\ lock \in Controllers \cup {Nobody} /\ working \in BOOLEAN
  /\ \A p \in Processes : pc[p] \in {"out", "open", "held", "checked", "turn"}
  /\ \A p \in Controllers : pc[p] \in {"held", "checked", "turn"} => lock = p
  /\ \A p \in Workers : pc[p] # "out" => working

\* Whoever writes and in whatever order the transactions commit, the tables
\* are what the ledger replays to (validate_state_projection accepts them):
\* the statuses, and one recorded output per output event, under the ordinals
\* 0, 1, 2, ... although two writers may have read the same next one.
TablesReplay ==
  \A s \in Stages :
    LET told == {i \in DOMAIN events : events[i].kind = "OUTPUT" /\ events[i].stage = s} IN
    /\ status[s] = Replayed(s, Len(events))
    /\ outputs[s] = [n \in 1..Cardinality(told) |-> n - 1]

\* No stage is ready, running or finished over a prerequisite that has not
\* passed: what refresh_ready and retry_from maintain between them.
DependenciesHold ==
  \A s \in Stages \ {1} : status[s] # "PENDING" => status[s - 1] = "PASS"

\* What a caller of the store sees: how often each stage has put something out, and
\* what the ledger tells of which stage.
OutputCounts == [s \in Stages |-> Len(outputs[s])]

History == [i \in DOMAIN events |-> <<events[i].kind, events[i].stage>>]

Atomic == INSTANCE AtomicLedger WITH count <- OutputCounts, told <- History

\* Although an operation reads the tables in one step and writes them in another, and
\* any process may be killed between the two, each operation of the store happens as a
\* whole, on the tables it has read, or not at all: core/store.py is an AtomicLedger.
ImplementsAtomicLedger == Atomic!Spec
=============================================================================
