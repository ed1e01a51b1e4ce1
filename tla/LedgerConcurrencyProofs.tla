---------------------- MODULE LedgerConcurrencyProofs ----------------------
(***************************************************************************)
(* What controller.lock is worth: with no writer beside the controllers    *)
(* and the worker of the turn they wait for, every operation finds the     *)
(* tables as it read them.  And what needs no lock: each transaction adds  *)
(* to the ledger what it does to the tables, so they agree whoever writes. *)
(***************************************************************************)
EXTENDS LedgerConcurrency, FiniteSetTheorems, SequenceTheorems, WellFoundedInduction, TLAPS

\* Nobody runs `stage start', `stage complete' or `artifact add' beside the
\* controller, and no controller is killed over its worker.
UnderLock == Operators = {} /\ Orphans = FALSE

Command == [op : {"start", "complete", "register", "commit", "reopen", "retry"}, stage : Stages]
             \cup {[op |-> "record", stage |-> 0]}

\* The types the exclusion rests on.
Typed ==
  /\ status \in [Stages -> {"PENDING", "READY", "RUNNING", "PASS", "BLOCKED"}]
  /\ outputs \in [Stages -> Seq(Nat)]
  /\ \E X : events \in Seq(X)
  /\ working \in BOOLEAN
  /\ pc \in [Processes -> {"out", "open", "held", "checked", "turn"}]
  /\ read \in [Processes -> [command : Command \cup {NoRead.command}, head : Nat, ordinal : Nat]]

\* A controller that acts owns the lock.
Locked == \A p \in Controllers : pc[p] \in {"held", "checked", "turn"} => lock = p

\* A worker lives only while a controller waits for it.
Attended ==
  /\ \A p \in Workers : pc[p] \in {"out", "open", "checked"} /\ (pc[p] # "out" => working)
  /\ working => \E p \in Controllers : pc[p] = "turn"

\* What whoever is inside an operation has read still stands.
Standing ==
  \A p \in Processes : pc[p] = "checked" =>
    /\ read[p].command \in Command
    /\ read[p].head = Len(events)
    /\ Guard(read[p].command)

-----------------------------------------------------------------------------
(* The entries of one transaction.                                         *)

\* A sequence, of whatever length n and whatever entries.
IsSequence(s, n) == n \in Nat /\ s = [i \in 1 .. n |-> s[i]]

\* Such a function is a sequence of the set of its values.
LEMMA SequenceOfValues ==
  ASSUME NEW s, NEW n \in Nat, IsSequence(s, n)
  PROVE  s \in Seq({s[i] : i \in 1 .. n}) /\ Len(s) = n
BY DEF IsSequence

\* An operation appends a finite number of entries.
LEMMA OutcomeIsSequence ==
  ASSUME NEW c \in Command
  PROVE  \E X : Outcome(c) \in Seq(X)
<1>1. N \in Nat /\ Stages \subseteq Int
  BY ConcurrencyAssumption DEF Stages
<1>2. ASSUME NEW S \in SUBSET Stages
      PROVE  Cardinality(S) \in Nat
  <2>1. IsFiniteSet(1 .. N)
    BY <1>1, FS_Interval
  <2>2. IsFiniteSet(S)
    BY <2>1, FS_Subset DEF Stages
  <2> QED BY <2>2, FS_CardinalityType
<1>3. \E X : Releases(c) \in Seq(X)
  <2> DEFINE n == Cardinality(Released(c))
  <2>1. n \in Nat
    BY <1>2 DEF Released
  <2>2. IsSequence(Releases(c), n)
    BY <2>1 DEF Releases, InOrder, IsSequence
  <2> QED BY <2>1, <2>2, SequenceOfValues
<1>4. CASE c.op = "retry"
  <2> DEFINE n == Cardinality(c.stage .. N)
  <2>1. n \in Nat
    BY <1>1, <1>2, <1>4 DEF Command, Stages
  <2>2. IsSequence(Resets(c), n)
    BY <2>1 DEF Resets, InOrder, IsSequence
  <2>3. \E X : Resets(c) \in Seq(X)
    BY <2>1, <2>2, SequenceOfValues
  <2> QED BY <1>4, <2>3 DEF Outcome
<1>5. CASE c.op \in {"complete", "commit"}
  <2> DEFINE done == Entry("COMPLETED", c.stage, Updated(c)[c.stage])
             output == Entry("OUTPUT", c.stage, status[c.stage])
  <2>1. PICK X : Releases(c) \in Seq(X)
    BY <1>3
  <2> HIDE DEF done, output
  <2>2. /\ <<done>> \o Releases(c) \in Seq(X \cup {done, output})
        /\ <<output, done>> \o Releases(c) \in Seq(X \cup {done, output})
    BY <2>1
  <2> QED BY <1>5, <2>2 DEF Outcome, done, output
<1>6. CASE c.op \in {"record", "start", "register", "reopen"}
  <2>1. \E e : Outcome(c) = <<e>>
    BY <1>6, Zenon DEF Outcome
  <2>2. PICK e : Outcome(c) = <<e>>
    BY <2>1
  <2>3. Outcome(c) \in Seq({e})
    BY <2>2
  <2> QED BY <2>3
<1> QED BY <1>4, <1>5, <1>6 DEF Command

\* If its first entry follows the last event, the transaction extends the chain.
LEMMA WriteExtendsChain ==
  ASSUME NEW E, events \in Seq(E), ChainVerifies, NEW c \in Command
  PROVE  LET new == Chained(c, Len(events))
         IN  /\ \E X : events \o new \in Seq(X)
             /\ \A i \in DOMAIN (events \o new) : (events \o new)[i].prev = i - 1
<1> DEFINE out == Outcome(c)
           n == Len(events)
           entry(i) == [kind |-> out[i].kind, stage |-> out[i].stage,
                        status |-> out[i].status, prev |-> n + i - 1]
           new == Chained(c, n)
<1>1. PICK X : out \in Seq(X)
  BY OutcomeIsSequence
<1>2. n \in Nat /\ Len(out) \in Nat /\ DOMAIN out = 1 .. Len(out)
  BY <1>1
<1> HIDE DEF out
<1>3. new = [i \in 1 .. Len(out) |-> entry(i)]
  <2>1. new = [i \in DOMAIN out |->
                 [kind |-> out[i].kind, stage |-> out[i].stage, status |-> out[i].status,
                  prev |-> IF i = 1 THEN n ELSE n + i - 1]]
    BY DEF Chained, out
  <2>2. \A i \in 1 .. Len(out) : (IF i = 1 THEN n ELSE n + i - 1) = n + i - 1
    BY <1>2
  <2> QED BY <1>2, <2>1, <2>2
<1> HIDE DEF new, entry
<1>4. IsSequence(new, Len(out))
  BY <1>2, <1>3 DEF IsSequence
<1>5. PICK Y : new \in Seq(Y) /\ Len(new) = Len(out)
  BY <1>2, <1>4, SequenceOfValues
<1>6. events \o new \in Seq(E \cup Y)
  BY <1>5
<1>7. ASSUME NEW i \in DOMAIN (events \o new)
      PROVE  (events \o new)[i].prev = i - 1
  <2>1. i \in 1 .. n + Len(new) /\ i \in Int /\ Len(new) \in Nat
    BY <1>2, <1>5
  <2>2. CASE i <= n
    <3>1. (events \o new)[i] = events[i] /\ i \in DOMAIN events
      BY <1>5, <2>1, <2>2
    <3> QED BY <3>1 DEF ChainVerifies
  <2>3. CASE ~(i <= n)
    <3>1. (events \o new)[i] = new[i - n] /\ i - n \in 1 .. Len(out)
      BY <1>2, <1>5, <2>1, <2>3
    <3>2. new[i - n] = entry(i - n)
      BY <1>3, <3>1
    <3>3. new[i - n].prev = n + (i - n) - 1
      BY <3>2 DEF entry
    <3> QED BY <1>2, <2>1, <3>1, <3>3
  <2> QED BY <2>2, <2>3
<1> QED BY <1>6, <1>7 DEF new

-----------------------------------------------------------------------------
(* Exclusion.                                                              *)

IInv == Typed /\ Locked /\ Attended /\ Standing /\ ChainVerifies /\ DependenciesHold

\* Of all processes at most one is inside an operation.
LEMMA Alone ==
  ASSUME UnderLock, Locked, Attended, NEW p \in Processes, NEW q \in Processes,
         pc[p] = "checked", pc[q] = "checked"
  PROVE  p = q
<1>1. Processes = Controllers \cup Workers
  BY DEF UnderLock, Processes
<1>2. CASE p \in Controllers /\ q \in Controllers
  BY <1>2 DEF Locked
<1>3. CASE p \in Workers /\ q \in Workers
  BY <1>3, ConcurrencyAssumption
<1>4. \A c \in Controllers, w \in Workers : ~(pc[c] = "checked" /\ pc[w] = "checked")
  BY DEF Locked, Attended
<1> QED BY <1>1, <1>2, <1>3, <1>4

\* An action that leaves the tables and every read alone, and sends nobody into an
\* operation, leaves what was read standing.
LEMMA TablesKept ==
  ASSUME IInv, UNCHANGED tables,
         \A q \in Processes : pc'[q] = "checked" => pc[q] = "checked" /\ read'[q] = read[q]
  PROVE  ChainVerifies' /\ DependenciesHold' /\ Standing'
<1>1. status' = status /\ events' = events
  BY DEF tables
<1>2. ChainVerifies' /\ DependenciesHold'
  BY <1>1 DEF IInv, ChainVerifies, DependenciesHold
<1>3. ASSUME NEW q \in Processes, pc'[q] = "checked"
      PROVE  /\ read'[q].command \in Command
             /\ read'[q].head = Len(events')
             /\ Guard(read[q].command)'
  <2>1. pc[q] = "checked" /\ read'[q] = read[q]
    BY <1>3
  <2>2. Guard(read[q].command) /\ read[q].command \in Command /\ read[q].head = Len(events)
    BY <2>1 DEF IInv, Standing
  <2> QED BY <1>1, <2>1, <2>2 DEF Guard
<1> QED BY <1>2, <1>3 DEF Standing

\* At first nobody is inside and the ledger holds one event.
LEMMA IInvInit == Init => IInv
<1> SUFFICES ASSUME Init PROVE IInv
  OBVIOUS
<1>1. Typed
  <2>1. \E X : events \in Seq(X)
    <3> DEFINE e == [kind |-> "CREATED", stage |-> 0, status |-> "NOTE", prev |-> 0]
    <3>1. <<e>> \in Seq({e})
      OBVIOUS
    <3> QED BY <3>1 DEF Init
  <2>2. outputs \in [Stages -> Seq(Nat)]
    BY DEF Init
  <2>3. status \in [Stages -> {"PENDING", "READY", "RUNNING", "PASS", "BLOCKED"}]
    BY DEF Init
  <2> QED BY <2>1, <2>2, <2>3 DEF Init, Typed, NoRead
<1>2. Locked /\ Attended /\ Standing
  BY DEF Init, Locked, Attended, Standing, Processes
<1>3. ChainVerifies
  BY DEF Init, ChainVerifies
<1>4. DependenciesHold
  BY DEF Init, DependenciesHold, Stages
<1> QED BY <1>1, <1>2, <1>3, <1>4 DEF IInv

\* Opening the run and taking the lock.
LEMMA EnterSteps ==
  ASSUME IInv, NEW p \in Processes, Open(p) \/ Acquire(p)
  PROVE  IInv'
<1> USE DEF IInv
<1>1. /\ UNCHANGED tables /\ UNCHANGED <<working, read>>
      /\ \E place \in {"open", "held"} : pc' = [pc EXCEPT ![p] = place]
  BY DEF Open, Acquire
<1>2. Typed'
  BY <1>1 DEF Typed, tables
<1>3. Locked'
  <2>1. CASE Open(p)
    BY <2>1 DEF Open, Locked, Typed
  <2>2. CASE Acquire(p)
    <3>1. \A q \in Controllers : pc[q] \notin {"held", "checked", "turn"}
      BY <2>2, ConcurrencyAssumption DEF Acquire, Locked
    <3> QED BY <2>2, <3>1 DEF Acquire, Locked, Typed, Processes
  <2> QED BY <2>1, <2>2
<1>4. Attended'
  BY ConcurrencyAssumption DEF Open, Acquire, Attended, Typed, Processes
<1>5. ChainVerifies' /\ DependenciesHold' /\ Standing'
  <2>1. \A q \in Processes : pc'[q] = "checked" => pc[q] = "checked" /\ read'[q] = read[q]
    BY <1>1 DEF Typed
  <2> QED BY <1>1, <2>1, TablesKept
<1> QED BY <1>2, <1>3, <1>4, <1>5

\* The guard and the last hash as they are read.
LEMMA CheckStep ==
  ASSUME IInv, UnderLock, NEW p \in Processes, Check(p)
  PROVE  IInv'
<1> USE DEF IInv
<1>1. PICK c \in Commands(p) :
        /\ Guard(c)
        /\ read' = [read EXCEPT ![p] =
             [command |-> c, head |-> Len(events),
              ordinal |-> IF AddsOutput(c) THEN Len(outputs[c.stage]) ELSE 0]]
  BY DEF Check
<1>2. c \in Command
  BY DEF Commands, Command, UnderLock
<1>3. pc' = [pc EXCEPT ![p] = "checked"] /\ UNCHANGED <<status, outputs, events, lock, working>>
  BY DEF Check, tables
<1>4. Typed'
  <2>1. Len(events) \in Nat
    BY DEF Typed
  <2>2. (IF AddsOutput(c) THEN Len(outputs[c.stage]) ELSE 0) \in Nat
    BY <1>2 DEF Typed, AddsOutput, Command
  <2> QED BY <1>1, <1>2, <1>3, <2>1, <2>2 DEF Typed
<1>5. Locked' /\ Attended'
  BY <1>3, ConcurrencyAssumption DEF Check, Locked, Attended, Typed, Processes
<1>6. ChainVerifies' /\ DependenciesHold'
  BY <1>3 DEF ChainVerifies, DependenciesHold
<1>7. Standing'
  <2> SUFFICES ASSUME NEW q \in Processes, pc'[q] = "checked"
               PROVE  /\ read'[q].command \in Command
                      /\ read'[q].head = Len(events')
                      /\ Guard(read[q].command)'
    BY DEF Standing
  <2>1. CASE q = p
    BY <1>1, <1>2, <1>3, <2>1 DEF Typed, Guard
  <2>2. CASE q # p
    BY <1>1, <1>3, <2>2 DEF Typed, Standing, Guard
  <2> QED BY <2>1, <2>2
<1> QED BY <1>4, <1>5, <1>6, <1>7

\* Every transaction moves from a table whose dependencies hold, over a guard that
\* still holds, to another such table.
LEMMA WriteKeepsDependencies ==
  ASSUME Typed, DependenciesHold, NEW c \in Command, Guard(c)
  PROVE  /\ Refreshed(c) \in [Stages -> {"PENDING", "READY", "RUNNING", "PASS", "BLOCKED"}]
         /\ \A s \in Stages \ {1} : Refreshed(c)[s] # "PENDING" => Refreshed(c)[s - 1] = "PASS"
<1> DEFINE new == Updated(c)
<1>1. Stages \subseteq Int /\ \A s \in Stages \ {1} : s - 1 \in Stages
  BY ConcurrencyAssumption DEF Stages
<1>2. /\ c.op \in {"record", "start", "complete", "register", "commit", "reopen", "retry"}
      /\ c.op # "record" => c.stage \in Stages
  BY DEF Command
<1>3. new = [s \in Stages |->
               IF c.op \in {"record", "register"} THEN status[s]
               ELSE IF s = c.stage
                      THEN CASE c.op = "start" -> "RUNNING"
                             [] c.op = "commit" -> "PASS"
                             [] c.op = "complete" -> "BLOCKED"
                             [] OTHER -> "READY"
               ELSE IF c.op = "retry" /\ s > c.stage THEN "PENDING" ELSE status[s]]
  BY <1>2 DEF Updated, NewStatus
<1>4. new \in [Stages -> {"PENDING", "READY", "RUNNING", "PASS", "BLOCKED"}]
  BY <1>2, <1>3 DEF Typed
<1>5. \A s \in Stages \ {1} : new[s] # "PENDING" => new[s - 1] = "PASS"
  <2> TAKE s \in Stages \ {1}
  <2>1. status[s] # "PENDING" => status[s - 1] = "PASS"
    BY DEF DependenciesHold
  <2>2. s \in Int /\ s - 1 \in Stages /\ s # s - 1
    BY <1>1
  <2>3. CASE c.op \in {"record", "register"}
    BY <1>3, <2>1, <2>2, <2>3
  <2>4. CASE c.op = "start"
    BY <1>2, <1>3, <2>1, <2>2, <2>4 DEF Guard
  <2>5. CASE c.op \in {"complete", "commit"}
    BY <1>2, <1>3, <2>1, <2>2, <2>5 DEF Guard
  <2>6. CASE c.op = "reopen"
    BY <1>2, <1>3, <2>1, <2>2, <2>6 DEF Guard
  <2>7. CASE c.op = "retry"
    BY <1>1, <1>2, <1>3, <2>1, <2>2, <2>7 DEF Guard
  <2> QED BY <1>2, <2>3, <2>4, <2>5, <2>6, <2>7
<1> HIDE DEF new
<1>6. Released(c) \subseteq {s \in Stages \ {1} : new[s] = "PENDING" /\ new[s - 1] = "PASS"}
  BY DEF Released, new, Stages
<1>7. Refreshed(c) = [s \in Stages |-> IF s \in Released(c) THEN "READY" ELSE new[s]]
  BY DEF Refreshed, new
<1> QED BY <1>1, <1>4, <1>5, <1>6, <1>7

\* A transaction commits.
LEMMA WriteStep ==
  ASSUME IInv, UnderLock, NEW p \in Processes, Write(p)
  PROVE  IInv'
<1> USE DEF IInv
<1> DEFINE c == read[p].command
           n == read[p].ordinal
<1>1. c \in Command /\ Guard(c) /\ read[p].head = Len(events) /\ pc[p] = "checked"
  BY DEF Write, Standing
<1>2. PICK E : events \in Seq(E)
  BY DEF Typed
<1>3. events' = events \o Chained(c, Len(events))
  BY <1>1 DEF Write
<1>4. status' = Refreshed(c) /\ UNCHANGED <<lock, working>>
  BY DEF Write
<1>5. /\ pc' = [pc EXCEPT ![p] = IF p \in Controllers THEN "held" ELSE "out"]
      /\ read' = [read EXCEPT ![p] = NoRead]
  BY DEF Write, Return
<1>6. Typed'
  <2>1. outputs' \in [Stages -> Seq(Nat)]
    <3>1. n \in Nat
      BY DEF Typed
    <3>2. AddsOutput(c) => c.stage \in Stages
      BY <1>1 DEF AddsOutput, Command
    <3> QED BY <3>1, <3>2 DEF Write, Typed
  <2>2. \E X : events' \in Seq(X)
    BY <1>1, <1>2, <1>3, WriteExtendsChain
  <2>3. status' \in [Stages -> {"PENDING", "READY", "RUNNING", "PASS", "BLOCKED"}]
    BY <1>1, <1>4, WriteKeepsDependencies
  <2>4. NoRead \in [command : Command \cup {NoRead.command}, head : Nat, ordinal : Nat]
    BY DEF NoRead
  <2> QED BY <1>4, <1>5, <2>1, <2>2, <2>3, <2>4 DEF Typed
<1>7. Locked' /\ Attended'
  BY <1>1, <1>4, <1>5, ConcurrencyAssumption DEF Locked, Attended, Typed, Processes
<1>8. Standing'
  <2>1. \A q \in Processes : pc'[q] # "checked"
    BY <1>1, <1>5, Alone DEF Typed
  <2> QED BY <2>1 DEF Standing
<1>9. ChainVerifies'
  BY <1>1, <1>2, <1>3, WriteExtendsChain DEF ChainVerifies
<1>10. DependenciesHold'
  BY <1>1, <1>4, WriteKeepsDependencies DEF DependenciesHold
<1> QED BY <1>6, <1>7, <1>8, <1>9, <1>10

\* A transaction is rolled back, a turn starts.
LEMMA StaySteps ==
  ASSUME IInv, NEW p \in Processes, Rollback(p) \/ StartTurn(p)
  PROVE  IInv'
<1> USE DEF IInv
<1>1. /\ UNCHANGED tables /\ lock' = lock
      /\ \E place \in {"held", "out", "turn"} : pc' = [pc EXCEPT ![p] = place]
      /\ \E r \in {read[p], NoRead} : read' = [read EXCEPT ![p] = r]
      /\ working' \in BOOLEAN
  BY DEF Rollback, Return, StartTurn, Typed
<1>2. Typed'
  <2>1. NoRead \in [command : Command \cup {NoRead.command}, head : Nat, ordinal : Nat]
    BY DEF NoRead
  <2> QED BY <1>1, <2>1 DEF Typed, tables
<1>3. Locked'
  <2>1. CASE Rollback(p)
    BY <1>1, <2>1 DEF Rollback, Return, Locked, Typed, Processes
  <2>2. CASE StartTurn(p)
    BY <1>1, <2>2 DEF StartTurn, Locked, Typed, Processes
  <2> QED BY <2>1, <2>2
<1>4. Attended'
  BY ConcurrencyAssumption DEF Rollback, Return, StartTurn, Attended, Typed, Processes
<1>5. ChainVerifies' /\ DependenciesHold' /\ Standing'
  <2>1. \A q \in Processes : pc'[q] = "checked" => pc[q] = "checked" /\ read'[q] = read[q]
    BY <1>1 DEF Typed
  <2> QED BY <1>1, <2>1, TablesKept
<1> QED BY <1>2, <1>3, <1>4, <1>5

\* A process ends, and whatever it leaves goes with it.
LEMMA LeaveSteps ==
  ASSUME IInv, UnderLock, NEW p \in Processes, EndTurn(p) \/ Exit(p)
  PROVE  IInv'
<1> USE DEF IInv
<1>1. CASE EndTurn(p)
  <2>1. /\ UNCHANGED tables /\ lock' = lock /\ working' = FALSE
        /\ pc' = [q \in Processes |->
                    IF q \in Workers THEN "out" ELSE IF q = p THEN "held" ELSE pc[q]]
        /\ read' = [q \in Processes |-> IF q \in Workers THEN NoRead ELSE read[q]]
    BY <1>1 DEF EndTurn, StopWorker, Typed
  <2>2. Typed'
    <3>1. NoRead \in [command : Command \cup {NoRead.command}, head : Nat, ordinal : Nat]
      BY DEF NoRead
    <3> QED BY <2>1, <3>1 DEF Typed, tables
  <2>3. Locked'
    BY <1>1, <2>1 DEF EndTurn, Locked, Processes
  <2>4. Attended'
    BY <2>1 DEF Attended, Processes
  <2>5. ChainVerifies' /\ DependenciesHold' /\ Standing'
    <3>1. \A q \in Processes : pc'[q] = "checked" => pc[q] = "checked" /\ read'[q] = read[q]
      BY <2>1
    <3> QED BY <2>1, <3>1, TablesKept
  <2> QED BY <2>2, <2>3, <2>4, <2>5
<1>2. CASE Exit(p)
  <2>1. /\ UNCHANGED tables /\ lock' = (IF lock = p THEN Nobody ELSE lock)
        /\ working' \in BOOLEAN
        /\ \/ /\ pc[p] # "turn"
              /\ working' = working
              /\ pc' = [pc EXCEPT ![p] = "out"]
              /\ read' = [read EXCEPT ![p] = NoRead]
           \/ /\ working' = FALSE
              /\ pc' = [q \in Processes |-> IF q \in Workers \/ q = p THEN "out" ELSE pc[q]]
              /\ read' = [q \in Processes |-> IF q \in Workers \/ q = p THEN NoRead ELSE read[q]]
    BY <1>2 DEF Exit, StopWorker, Typed, UnderLock
  <2>2. Typed'
    <3>1. NoRead \in [command : Command \cup {NoRead.command}, head : Nat, ordinal : Nat]
      BY DEF NoRead
    <3> QED BY <2>1, <3>1 DEF Typed, tables
  <2>3. Locked'
    <3>1. \A q \in Controllers : pc'[q] # "out" => q # p /\ pc'[q] = pc[q]
      BY <2>1, ConcurrencyAssumption DEF Typed, Processes
    <3> QED BY <2>1, <3>1 DEF Locked
  <2>4. Attended'
    BY <2>1 DEF Attended, Typed, Processes
  <2>5. ChainVerifies' /\ DependenciesHold' /\ Standing'
    <3>1. \A q \in Processes : pc'[q] = "checked" => pc[q] = "checked" /\ read'[q] = read[q]
      BY <2>1 DEF Typed
    <3> QED BY <2>1, <3>1, TablesKept
  <2> QED BY <2>2, <2>3, <2>4, <2>5
<1> QED BY <1>1, <1>2

\* Every step keeps the inductive invariant; a worker is never an orphan.
LEMMA IInvNext == UnderLock /\ IInv /\ [Next]_vars => IInv'
<1> SUFFICES ASSUME UnderLock, IInv, [Next]_vars
             PROVE  IInv'
  OBVIOUS
<1>1. ~OrphanEnds
  BY DEF OrphanEnds, IInv, Attended
<1>2. CASE UNCHANGED vars
  BY <1>2 DEF vars, IInv, Typed, Locked, Attended, Standing, Guard, ChainVerifies,
              DependenciesHold
<1>3. ASSUME NEW p \in Processes,
             \/ Open(p) \/ Acquire(p) \/ Check(p) \/ Write(p) \/ Rollback(p)
             \/ StartTurn(p) \/ EndTurn(p) \/ Exit(p)
      PROVE  IInv'
  BY <1>3, EnterSteps, CheckStep, WriteStep, StaySteps, LeaveSteps
<1> QED BY <1>1, <1>2, <1>3 DEF Next

-----------------------------------------------------------------------------
\* As long as only controllers and their workers write, and a worker ends with its
\* turn, every run can be opened again: each event follows the one before it.
THEOREM ChainAlwaysVerifies ==
  ASSUME UnderLock
  PROVE  Spec => []ChainVerifies
<1>1. IInv /\ [Next]_vars => IInv'
  BY UnderLock, IInvNext
<1>2. IInv => ChainVerifies
  BY DEF IInv
<1> QED BY <1>1, <1>2, IInvInit, PTL DEF Spec

\* Under the same discipline no guard is stale when its update commits: no stage is
\* past PENDING over a predecessor that has not passed.
THEOREM DependenciesHoldUnderLock ==
  ASSUME UnderLock
  PROVE  Spec => []DependenciesHold
<1>1. IInv /\ [Next]_vars => IInv'
  BY UnderLock, IInvNext
<1>2. IInv => DependenciesHold
  BY DEF IInv
<1> QED BY <1>1, <1>2, IInvInit, PTL DEF Spec

-----------------------------------------------------------------------------
(* What the entries of a transaction tell, whoever else has written since  *)
(* its operation read the tables.                                          *)

\* The stages before s in S.
Before(S, s) == {r \in S : r < s}

\* A set of stages in the order of the table has its members and no others.
LEMMA InOrderLists ==
  ASSUME NEW S \in SUBSET Stages
  PROVE  /\ Cardinality(S) \in Nat
         /\ DOMAIN InOrder(S) = 1 .. Cardinality(S)
         /\ \A i \in 1 .. Cardinality(S) : InOrder(S)[i] \in S
         /\ \A s \in S : \E i \in 1 .. Cardinality(S) : InOrder(S)[i] = s
<1> DEFINE n == Cardinality(S)
           place == [s \in S |-> Cardinality(Before(S, s)) + 1]
<1>1. IsFiniteSet(S) /\ S \subseteq Int
  <2>1. 1 \in Int /\ N \in Int
    BY ConcurrencyAssumption
  <2>2. IsFiniteSet(Stages)
    BY <2>1, FS_Interval DEF Stages
  <2>3. IsFiniteSet(S)
    BY <2>2, FS_Subset
  <2>4. S \subseteq Int
    BY DEF Stages
  <2> QED BY <2>3, <2>4
<1>2. n \in Nat
  BY <1>1, FS_CardinalityType
<1>3. ASSUME NEW s \in S
      PROVE  /\ IsFiniteSet(Before(S, s)) /\ Cardinality(Before(S, s)) \in Nat
             /\ Cardinality(Before(S, s)) < n
  <2>1. Before(S, s) \in SUBSET S /\ s \notin Before(S, s)
    BY <1>1 DEF Before
  <2>2. IsFiniteSet(Before(S, s)) /\ Cardinality(Before(S, s)) <= n /\ Cardinality(Before(S, s)) # n
    BY <1>1, <2>1, FS_Subset
  <2>3. Cardinality(Before(S, s)) \in Nat
    BY <2>2, FS_CardinalityType
  <2> QED BY <1>2, <2>2, <2>3
<1>4. ASSUME NEW s \in S, NEW t \in S, s < t
      PROVE  Cardinality(Before(S, s)) < Cardinality(Before(S, t))
  <2>1. Before(S, s) \in SUBSET Before(S, t) /\ s \in Before(S, t) /\ s \notin Before(S, s)
    <3>1. \A r \in S : r < s => r < t
      BY <1>1, <1>4
    <3>2. ~(s < s)
      BY <1>1
    <3> QED BY <1>4, <3>1, <3>2 DEF Before
  <2>2. /\ Cardinality(Before(S, s)) <= Cardinality(Before(S, t))
        /\ Cardinality(Before(S, s)) # Cardinality(Before(S, t))
    BY <1>3, <2>1, FS_Subset
  <2> QED BY <1>3, <2>2
<1>5. ASSUME NEW s \in S, NEW t \in S, Cardinality(Before(S, s)) = Cardinality(Before(S, t))
      PROVE  s = t
  <2>1. s \in Int /\ t \in Int
    BY <1>1
  <2>2. ~(s < t) /\ ~(t < s)
    BY <1>3, <1>4, <1>5
  <2> QED BY <2>1, <2>2
<1>6. place \in Surjection(S, 1 .. n)
  <2>1. place \in [S -> 1 .. n]
    BY <1>2, <1>3
  <2>2. \A s, t \in S : place[s] = place[t] => s = t
    BY <1>3, <1>5
  <2>3. place \in Injection(S, 1 .. n)
    BY <2>1, <2>2 DEF Injection, IsInjective
  <2>4. IsFiniteSet(1 .. n) /\ Cardinality(1 .. n) = n
    BY <1>2, FS_Interval
  <2> QED BY <2>3, <2>4, FS_Injection
<1>7. ASSUME NEW i \in 1 .. n
      PROVE  InOrder(S)[i] \in S /\ \A s \in S : place[s] = i => InOrder(S)[i] = s
  <2>1. InOrder(S)[i] = CHOOSE s \in S : Cardinality(Before(S, s)) = i - 1
    BY DEF InOrder, Before
  <2>2. PICK s \in S : place[s] = i
    BY <1>6 DEF Surjection
  <2>3. Cardinality(Before(S, s)) = i - 1
    BY <1>3, <2>2
  <2>4. InOrder(S)[i] \in S /\ Cardinality(Before(S, InOrder(S)[i])) = i - 1
    BY <2>1, <2>3
  <2>5. \A t \in S : place[t] = i => Cardinality(Before(S, t)) = i - 1
    BY <1>3
  <2> QED BY <1>5, <2>4, <2>5
<1>8. \A s \in S : place[s] \in 1 .. n
  BY <1>2, <1>3
<1>9. DOMAIN InOrder(S) = 1 .. n
  BY DEF InOrder
<1> HIDE DEF place
<1> QED BY <1>2, <1>7, <1>8, <1>9

\* The kinds that tell the status of their stage.
IsStatus(e) == e.kind \notin {"OUTPUT", "NOTE"}

\* A transaction tells every status it changes, as it has changed it, and the output it adds.
Tells(c, out, n) ==
  /\ n \in Nat /\ DOMAIN out = 1 .. n
  /\ AddsOutput(c) => n >= 1 /\ out[1].kind = "OUTPUT" /\ out[1].stage = c.stage
  /\ \A i \in 1 .. n : out[i].kind = "OUTPUT" => i = 1 /\ AddsOutput(c)
  /\ \A i \in 1 .. n : IsStatus(out[i]) => /\ out[i].stage \in Stages
                                           /\ out[i].status = Refreshed(c)[out[i].stage]
  /\ \A s \in Stages : Refreshed(c)[s] # status[s] =>
       \E i \in 1 .. n : IsStatus(out[i]) /\ out[i].stage = s

\* Operations of one entry.
LEMMA OneEntryTells ==
  ASSUME status \in [Stages -> {"PENDING", "READY", "RUNNING", "PASS", "BLOCKED"}],
         NEW c \in Command, c.op \in {"record", "start", "register", "reopen"}
  PROVE  Tells(c, Outcome(c), 1)
<1>1. c.op # "record" => c.stage \in Stages
  BY DEF Command
<1>2. Released(c) = {}
  BY DEF Released
<1>3. Refreshed(c) = Updated(c)
  BY <1>2 DEF Refreshed, Updated
<1>4. CASE c.op = "record"
  <2>1. Outcome(c) = <<Entry("NOTE", 0, "NOTE")>>
    BY <1>4, Zenon DEF Outcome
  <2>2. Updated(c) = status
    BY <1>4 DEF Updated, NewStatus
  <2> QED BY <1>3, <1>4, <2>1, <2>2 DEF Tells, IsStatus, Entry, AddsOutput
<1>5. CASE c.op = "register"
  <2>1. Outcome(c) = <<Entry("OUTPUT", c.stage, status[c.stage])>>
    BY <1>5, Zenon DEF Outcome
  <2>2. Updated(c) = status
    BY <1>5 DEF Updated, NewStatus
  <2> QED BY <1>3, <1>5, <2>1, <2>2 DEF Tells, IsStatus, Entry, AddsOutput
<1>6. ASSUME NEW k \in {"STARTED", "RETRIED"}, NEW v,
             Outcome(c) = <<Entry(k, c.stage, v)>>, Updated(c)[c.stage] = v,
             c.op \in {"start", "reopen"}
      PROVE  Tells(c, Outcome(c), 1)
  <2>1. \A s \in Stages : s # c.stage => Updated(c)[s] = status[s]
    BY <1>6 DEF Updated
  <2>2. ~AddsOutput(c) /\ c.stage \in Stages
    BY <1>1, <1>6 DEF AddsOutput
  <2> QED BY <1>3, <1>6, <2>1, <2>2 DEF Tells, IsStatus, Entry
<1>7. CASE c.op = "start"
  <2>1. Outcome(c) = <<Entry("STARTED", c.stage, "RUNNING")>>
    BY <1>7, Zenon DEF Outcome
  <2>2. Updated(c)[c.stage] = "RUNNING"
    BY <1>1, <1>7 DEF Updated, NewStatus
  <2> QED BY <1>6, <1>7, <2>1, <2>2
<1>8. CASE c.op = "reopen"
  <2>1. Outcome(c) = <<Entry("RETRIED", c.stage, "READY")>>
    BY <1>8, Zenon DEF Outcome
  <2>2. Updated(c)[c.stage] = "READY"
    BY <1>1, <1>8 DEF Updated, NewStatus
  <2> QED BY <1>6, <1>8, <2>1, <2>2
<1> QED BY <1>4, <1>5, <1>7, <1>8

\* A repair resets the stage and all after it.
LEMMA RetryTells ==
  ASSUME status \in [Stages -> {"PENDING", "READY", "RUNNING", "PASS", "BLOCKED"}],
         NEW c \in Command, c.op = "retry"
  PROVE  Tells(c, Outcome(c), Cardinality(c.stage .. N))
<1> DEFINE S == c.stage .. N
           n == Cardinality(S)
           order == InOrder(S)
<1>1. c.stage \in Stages /\ S \in SUBSET Stages /\ Stages \subseteq Int /\ N \in Int
  BY ConcurrencyAssumption DEF Command, Stages
<1>2. /\ n \in Nat /\ DOMAIN order = 1 .. n
      /\ \A i \in 1 .. n : order[i] \in S
      /\ \A s \in S : \E i \in 1 .. n : order[i] = s
  BY <1>1, InOrderLists
<1>3. Outcome(c) = [i \in 1 .. n |-> Entry("RETRIED", order[i], Updated(c)[order[i]])]
  <2>1. Outcome(c) = Resets(c)
    BY Zenon DEF Outcome
  <2> QED BY <1>2, <2>1 DEF Resets
<1>4. Refreshed(c) = Updated(c)
  <2>1. Released(c) = {}
    BY DEF Released
  <2> QED BY <2>1 DEF Refreshed, Updated
<1>5. \A s \in Stages : s \notin S => Updated(c)[s] = status[s]
  <2>1. \A s \in Stages : s \notin S => s # c.stage /\ ~(s > c.stage)
    BY <1>1 DEF Stages
  <2> QED BY <2>1 DEF Updated
<1> HIDE DEF order, n, S
<1>6. \A i \in 1 .. n : /\ Outcome(c)[i].kind = "RETRIED" /\ Outcome(c)[i].stage = order[i]
                        /\ Outcome(c)[i].status = Updated(c)[order[i]]
  BY <1>3 DEF Entry
<1>7. DOMAIN Outcome(c) = 1 .. n
  BY <1>3
<1>8. ~AddsOutput(c)
  BY DEF AddsOutput
<1>9. Tells(c, Outcome(c), n)
  <2>1. \A i \in 1 .. n : /\ Outcome(c)[i].kind # "OUTPUT" /\ IsStatus(Outcome(c)[i])
                          /\ Outcome(c)[i].stage \in Stages
                          /\ Outcome(c)[i].status = Refreshed(c)[Outcome(c)[i].stage]
    <3> SUFFICES ASSUME NEW i \in 1 .. n
                 PROVE  /\ Outcome(c)[i].kind # "OUTPUT" /\ IsStatus(Outcome(c)[i])
                        /\ Outcome(c)[i].stage \in Stages
                        /\ Outcome(c)[i].status = Refreshed(c)[Outcome(c)[i].stage]
      OBVIOUS
    <3>1. order[i] \in Stages
      BY <1>1, <1>2
    <3>2. /\ Outcome(c)[i].kind = "RETRIED" /\ Outcome(c)[i].stage = order[i]
          /\ Outcome(c)[i].status = Updated(c)[order[i]]
      BY <1>6
    <3> QED BY <1>4, <3>1, <3>2 DEF IsStatus
  <2>2. ASSUME NEW s \in Stages, Refreshed(c)[s] # status[s]
        PROVE  \E i \in 1 .. n : IsStatus(Outcome(c)[i]) /\ Outcome(c)[i].stage = s
    <3>1. s \in S
      BY <1>4, <1>5, <2>2
    <3>2. PICK i \in 1 .. n : order[i] = s
      BY <1>2, <3>1
    <3> QED BY <1>6, <2>1, <3>2
  <2> QED BY <1>2, <1>7, <1>8, <2>1, <2>2 DEF Tells
<1> QED BY <1>9 DEF n, S

\* An outcome is told with the releases that follow from it.
LEMMA OutcomeAndReleasesTell ==
  ASSUME status \in [Stages -> {"PENDING", "READY", "RUNNING", "PASS", "BLOCKED"}],
         NEW c \in Command, c.op \in {"complete", "commit"}
  PROVE  \E n : Tells(c, Outcome(c), n)
<1> DEFINE R == Released(c)
           m == Cardinality(R)
           order == InOrder(R)
           done == Entry("COMPLETED", c.stage, Updated(c)[c.stage])
           output == Entry("OUTPUT", c.stage, status[c.stage])
           first == IF c.op = "commit" THEN <<output, done>> ELSE <<done>>
           k == IF c.op = "commit" THEN 2 ELSE 1
           out == Outcome(c)
<1>1. c.stage \in Stages /\ R \in SUBSET Stages
  BY DEF Command, Released
<1>2. /\ m \in Nat /\ DOMAIN order = 1 .. m
      /\ \A i \in 1 .. m : order[i] \in R
      /\ \A s \in R : \E i \in 1 .. m : order[i] = s
  BY <1>1, InOrderLists
<1>3. Releases(c) = [i \in 1 .. m |-> Entry("READY", order[i], "READY")]
  BY <1>2 DEF Releases
<1>4. \A s \in Stages : Refreshed(c)[s] = IF s \in R THEN "READY" ELSE Updated(c)[s]
  BY DEF Refreshed
<1>5. \A s \in Stages : s # c.stage => Updated(c)[s] = status[s]
  BY DEF Updated
<1>6. c.stage \notin R
  <2>1. Updated(c)[c.stage] = IF c.op = "commit" THEN "PASS" ELSE "BLOCKED"
    BY <1>1 DEF Updated, NewStatus
  <2> QED BY <2>1 DEF Released
<1>7. out = first \o Releases(c)
  <2>1. CASE c.op = "commit"
    BY <2>1, Zenon DEF Outcome
  <2>2. CASE c.op = "complete"
    <3>1. c.op # "commit"
      BY <2>2
    <3> QED BY <2>2, <3>1, Zenon DEF Outcome
  <2> QED BY <2>1, <2>2
<1>8. Releases(c) \in Seq({Releases(c)[i] : i \in 1 .. m}) /\ Len(Releases(c)) = m
  <2>1. IsSequence(Releases(c), m)
    BY <1>2, <1>3 DEF IsSequence
  <2> QED BY <1>2, <2>1, SequenceOfValues
<1> HIDE DEF R, m, order, done, output
<1>9. /\ first \in Seq({output, done}) /\ Len(first) = k
      /\ first[k] = done /\ (c.op = "commit" => first[1] = output)
  <2>1. CASE c.op = "commit"
    BY <2>1
  <2>2. CASE c.op # "commit"
    BY <2>2
  <2> QED BY <2>1, <2>2
<1>10. k \in Nat /\ k >= 1 /\ k <= 2 /\ (k = 2 <=> c.op = "commit")
  OBVIOUS
<1> HIDE DEF first, k
<1>11. /\ DOMAIN out = 1 .. k + m
       /\ \A i \in 1 .. k : out[i] = first[i]
       /\ \A i \in 1 .. m : out[k + i] = Entry("READY", order[i], "READY")
       /\ \A i \in 1 .. k + m : i \in 1 .. k \/ \E j \in 1 .. m : i = k + j
  <2> PICK rel : rel = Releases(c)
    OBVIOUS
  <2> PICK X : rel \in Seq(X) /\ first \in Seq(X) /\ Len(rel) = m
    <3>1. \A A, B : Seq(A) \subseteq Seq(A \cup B) /\ Seq(B) \subseteq Seq(A \cup B)
      OBVIOUS
    <3> QED BY <1>8, <1>9, <3>1
  <2>1. /\ Len(first \o rel) = k + m
        /\ DOMAIN (first \o rel) = 1 .. k + m
        /\ \A i \in 1 .. k + m : (first \o rel)[i] = IF i <= k THEN first[i] ELSE rel[i - k]
    <3>1. \A f, r \in Seq(X) :
            /\ f \o r \in Seq(X) /\ Len(f \o r) = Len(f) + Len(r)
            /\ \A i \in 1 .. Len(f) + Len(r) :
                 (f \o r)[i] = IF i <= Len(f) THEN f[i] ELSE r[i - Len(f)]
      BY ConcatProperties
    <3>2. /\ first \o rel \in Seq(X) /\ Len(first \o rel) = k + m
          /\ \A i \in 1 .. k + m : (first \o rel)[i] = IF i <= k THEN first[i] ELSE rel[i - k]
      BY <1>9, <3>1
    <3>3. DOMAIN (first \o rel) = 1 .. k + m
      BY <3>2
    <3> QED BY <3>2, <3>3
  <2>2. \A i \in 1 .. k : (first \o rel)[i] = first[i]
    BY <1>2, <1>10, <2>1
  <2>3. \A i \in 1 .. m : (first \o rel)[k + i] = rel[i]
    <3>1. \A i \in 1 .. m : k + i \in 1 .. k + m /\ ~(k + i <= k) /\ (k + i) - k = i
      BY <1>2, <1>10
    <3> QED BY <2>1, <3>1
  <2>4. ASSUME NEW i \in 1 .. k + m, i \notin 1 .. k
        PROVE  \E j \in 1 .. m : i = k + j
    <3>1. i - k \in 1 .. m /\ i = k + (i - k)
      BY <1>2, <1>10, <2>4
    <3> QED BY <3>1
  <2>5. \A i \in 1 .. m : rel[i] = Entry("READY", order[i], "READY")
    BY <1>3
  <2>6. out = first \o rel
    BY <1>7
  <2> HIDE DEF out
  <2>7. \A i \in 1 .. m : out[k + i] = Entry("READY", order[i], "READY")
    BY <2>3, <2>5, <2>6
  <2>8. DOMAIN out = 1 .. k + m /\ \A i \in 1 .. k : out[i] = first[i]
    BY <2>1, <2>2, <2>6
  <2>9. \A i \in 1 .. k + m : i \in 1 .. k \/ \E j \in 1 .. m : i = k + j
    BY <2>4
  <2> QED BY <2>7, <2>8, <2>9
<1>12. /\ done.kind = "COMPLETED" /\ done.stage = c.stage /\ done.status = Refreshed(c)[c.stage]
       /\ output.kind = "OUTPUT" /\ output.stage = c.stage
  BY <1>1, <1>4, <1>6 DEF done, output, Entry
<1>13. AddsOutput(c) <=> c.op = "commit"
  BY DEF AddsOutput
<1> HIDE DEF out
<1>14. \A i \in 1 .. k + m : \/ i = 1 /\ c.op = "commit" /\ out[i] = output
                             \/ out[i] = done
                             \/ \E s \in R : out[i] = Entry("READY", s, "READY")
  <2>1. \A i \in 1 .. k : i = k \/ (i = 1 /\ c.op = "commit")
    BY <1>10
  <2>2. \A i \in 1 .. k : out[i] = done \/ (i = 1 /\ c.op = "commit" /\ out[i] = output)
    BY <1>9, <1>10, <1>11, <2>1
  <2>3. \A j \in 1 .. m : \E s \in R : out[k + j] = Entry("READY", s, "READY")
    BY <1>2, <1>11
  <2> QED BY <1>11, <2>2, <2>3
<1>15. \A s \in R : /\ Entry("READY", s, "READY").kind = "READY"
                    /\ Entry("READY", s, "READY").stage = s
                    /\ Entry("READY", s, "READY").status = Refreshed(c)[s]
  BY <1>1, <1>4 DEF Entry
<1>16. k + m \in Nat /\ k + m >= 1 /\ k \in 1 .. k + m /\ 1 \in 1 .. k
  BY <1>2, <1>10
<1>17. \A s \in Stages : Refreshed(c)[s] # status[s] =>
         \E i \in 1 .. k + m : IsStatus(out[i]) /\ out[i].stage = s
  <2> SUFFICES ASSUME NEW s \in Stages, Refreshed(c)[s] # status[s]
               PROVE  \E i \in 1 .. k + m : IsStatus(out[i]) /\ out[i].stage = s
    OBVIOUS
  <2>1. CASE s = c.stage
    <3>1. out[k] = done
      BY <1>9, <1>10, <1>11
    <3> QED BY <1>12, <1>16, <2>1, <3>1 DEF IsStatus
  <2>2. CASE s # c.stage
    <3>1. s \in R
      BY <1>4, <1>5, <2>2
    <3>2. PICK i \in 1 .. m : order[i] = s
      BY <1>2, <3>1
    <3>3. k + i \in 1 .. k + m /\ out[k + i] = Entry("READY", s, "READY")
      BY <1>2, <1>10, <1>11, <3>2
    <3> QED BY <1>15, <3>1, <3>3 DEF IsStatus
  <2> QED BY <2>1, <2>2
<1>18. AddsOutput(c) => out[1] = output
  BY <1>9, <1>11, <1>13, <1>16
<1>19. Tells(c, out, k + m)
  <2>1. \A i \in 1 .. k + m : out[i].kind = "OUTPUT" => i = 1 /\ AddsOutput(c)
    BY <1>12, <1>13, <1>14, <1>15
  <2>2. \A i \in 1 .. k + m : IsStatus(out[i]) => /\ out[i].stage \in Stages
                                                  /\ out[i].status = Refreshed(c)[out[i].stage]
    BY <1>1, <1>12, <1>14, <1>15 DEF IsStatus
  <2> QED BY <1>11, <1>12, <1>16, <1>17, <1>18, <2>1, <2>2 DEF Tells
<1> QED BY <1>19 DEF out

\* So does every transaction.
LEMMA OutcomeTells ==
  ASSUME status \in [Stages -> {"PENDING", "READY", "RUNNING", "PASS", "BLOCKED"}],
         NEW c \in Command
  PROVE  \E n : Tells(c, Outcome(c), n)
<1>1. c.op \in {"record", "start", "complete", "register", "commit", "reopen", "retry"}
  BY DEF Command
<1> QED BY <1>1, OneEntryTells, RetryTells, OutcomeAndReleasesTell

-----------------------------------------------------------------------------
(* The ledger replays to the tables, whoever writes.                       *)

\* A bounded set of naturals that has a member has a greatest one.
LEMMA Greatest ==
  ASSUME NEW T \in SUBSET Nat, T # {}, NEW n \in Nat, \A i \in T : i <= n
  PROVE  \E m \in T : \A j \in T : j <= m
<1> DEFINE U == {n - i : i \in T}
<1>1. \A i \in T : i \in Nat /\ n - i \in Nat
  OBVIOUS
<1>2. U \in SUBSET Nat /\ U # {}
  BY <1>1
<1>3. PICK u \in U : \A v \in U : ~(<<v, u>> \in OpToRel(<, Nat))
  BY <1>2, NatLessThanWellFounded, WFMin
<1>4. \A v \in U : ~(v < u)
  BY <1>2, <1>3 DEF OpToRel
<1>5. PICK m \in T : u = n - m
  BY <1>3
<1>6. \A j \in T : ~(n - j < n - m)
  BY <1>4, <1>5
<1>7. \A j \in T : j <= m
  BY <1>1, <1>6
<1> QED BY <1>7

\* Of the first n of these events, those that tell the status of a stage, and what they replay to.
Told(list, s, n) == {i \in 1 .. n : list[i].stage = s /\ IsStatus(list[i])}

ReplayedFrom(list, s, n) ==
  IF Told(list, s, n) = {} THEN IF s = 1 THEN "READY" ELSE "PENDING"
  ELSE list[CHOOSE i \in Told(list, s, n) : \A j \in Told(list, s, n) : j <= i].status

\* The events that tell the outputs of a stage.
ToldOutputs(s) == {i \in DOMAIN events : events[i].kind = "OUTPUT" /\ events[i].stage = s}

\* The table of the outputs.
OutputsReplay ==
  \A s \in Stages : outputs[s] = [n \in 1 .. Cardinality(ToldOutputs(s)) |-> n - 1]

StatusesReplay == \A s \in Stages : status[s] = Replayed(s, Len(events))

\* What was read of a table that only grows.
ReadBefore ==
  \A p \in Processes : pc[p] = "checked" =>
    /\ read[p].command \in Command
    /\ AddsOutput(read[p].command) =>
         read[p].ordinal \in 0 .. Len(outputs[read[p].command.stage])

TablesInv == Typed /\ ReadBefore /\ StatusesReplay /\ OutputsReplay

\* After k events come these n.
Follow(out, k, n) ==
  /\ \E X : events' \in Seq(X)
  /\ k \in Nat /\ Len(events) = k
  /\ Len(events') = k + n
  /\ \A i \in 1 .. k : events'[i] = events[i]
  /\ \A i \in 1 .. n : /\ events'[k + i].kind = out[i].kind
                       /\ events'[k + i].stage = out[i].stage
                       /\ events'[k + i].status = out[i].status
  /\ \A i \in 1 .. k + n : i \in 1 .. k \/ \E j \in 1 .. n : i = k + j

\* The entries of a transaction as events.
LEMMA EventsAppended ==
  ASSUME NEW E, events \in Seq(E), NEW c, NEW n, Tells(c, Outcome(c), n),
         NEW head, events' = events \o Chained(c, head)
  PROVE  Follow(Outcome(c), Len(events), n)
<1> DEFINE k == Len(events)
           out == Outcome(c)
           new == Chained(c, head)
<1>1. n \in Nat /\ DOMAIN out = 1 .. n /\ k \in Nat
  BY DEF Tells
<1> HIDE DEF out, new
<1>2. new = [i \in 1 .. n |-> new[i]]
  BY <1>1 DEF new, Chained, out
<1>3. \A i \in 1 .. n : /\ new[i].kind = out[i].kind /\ new[i].stage = out[i].stage
                        /\ new[i].status = out[i].status
  BY <1>1 DEF new, Chained, out
<1>4. PICK Y : new \in Seq(Y) /\ Len(new) = n
  BY <1>1, <1>2, SequenceOfValues DEF IsSequence
<1>5. events' = events \o new
  BY DEF new
<1>6. events' \in Seq(E \cup Y) /\ Len(events') = k + n
  BY <1>1, <1>4, <1>5
<1>7. \A i \in 1 .. k : events'[i] = events[i]
  BY <1>1, <1>4, <1>5
<1>8. \A i \in 1 .. n : events'[k + i] = new[i]
  BY <1>1, <1>4, <1>5
<1>9. ASSUME NEW i \in 1 .. k + n, i \notin 1 .. k
      PROVE  \E j \in 1 .. n : i = k + j
  <2>1. i - k \in 1 .. n /\ i = k + (i - k)
    BY <1>1, <1>9
  <2> QED BY <2>1
<1>10. Follow(out, k, n)
  BY <1>1, <1>3, <1>6, <1>7, <1>8, <1>9 DEF Follow
<1> QED BY <1>10 DEF out

\* The status of a stage is what its last event tells.
LEMMA ReplayedLast ==
  ASSUME NEW list, NEW s, NEW n \in Nat, NEW m \in Told(list, s, n), \A j \in Told(list, s, n) : j <= m
  PROVE  ReplayedFrom(list, s, n) = list[m].status
<1> DEFINE last == CHOOSE i \in Told(list, s, n) : \A j \in Told(list, s, n) : j <= i
<1>1. last \in Told(list, s, n) /\ \A j \in Told(list, s, n) : j <= last
  OBVIOUS
<1>2. last = m
  BY <1>1 DEF Told
<1> QED BY <1>2 DEF ReplayedFrom

\* Of a stage nothing is told of, the first status stands.
LEMMA ReplayedFirst ==
  ASSUME NEW list, NEW s, NEW n, Told(list, s, n) = {}
  PROVE  ReplayedFrom(list, s, n) = IF s = 1 THEN "READY" ELSE "PENDING"
BY DEF ReplayedFrom

\* Those of the n events after the first k that tell the status of a stage.
Added(list, s, k, n) == {i \in 1 .. n : list[k + i].stage = s /\ IsStatus(list[k + i])}

\* They decide what a stage replays to, if there are any.
Continues(longer, list, s, k, n) ==
  \/ /\ Added(longer, s, k, n) = {}
     /\ ReplayedFrom(longer, s, k + n) = ReplayedFrom(list, s, k)
  \/ \E i \in Added(longer, s, k, n) : ReplayedFrom(longer, s, k + n) = longer[k + i].status

\* More events that tell nothing of a stage change nothing, and otherwise the last one counts.
LEMMA ReplayedLonger ==
  ASSUME NEW list, NEW longer, NEW s, NEW k \in Nat, NEW n \in Nat,
         \A i \in 1 .. k : longer[i] = list[i]
  PROVE  Continues(longer, list, s, k, n)
<1> DEFINE added == Added(longer, s, k, n)
           old == Told(list, s, k)
           new == Told(longer, s, k + n)
<1>1. k + n \in Nat /\ new \in SUBSET Nat /\ \A i \in new : i <= k + n
  BY DEF Told
<1>2. \A i \in 1 .. k + n : i \in 1 .. k \/ \E j \in 1 .. n : i = k + j
  <2>1. ASSUME NEW i \in 1 .. k + n, i \notin 1 .. k
        PROVE  \E j \in 1 .. n : i = k + j
    <3>1. i - k \in 1 .. n /\ i = k + (i - k)
      BY <2>1
    <3> QED BY <3>1
  <2> QED BY <2>1
<1>3. CASE added = {}
  <2>1. \A i \in 1 .. k : i \in 1 .. k + n
    OBVIOUS
  <2>2. new = old
    <3>1. \A j \in 1 .. n : ~(longer[k + j].stage = s /\ IsStatus(longer[k + j]))
      BY <1>3 DEF Added
    <3>2. \A i \in 1 .. k + n : i \notin 1 .. k => ~(longer[i].stage = s /\ IsStatus(longer[i]))
      BY <1>2, <3>1
    <3> QED BY <2>1, <3>2 DEF Told
  <2>3. CASE old = {}
    BY <1>3, <2>2, <2>3, ReplayedFirst DEF Continues
  <2>4. CASE old # {}
    <3>1. PICK m \in new : \A j \in new : j <= m
      BY <1>1, <2>2, <2>4, Greatest
    <3>2. ReplayedFrom(longer, s, k + n) = longer[m].status
      BY <1>1, <3>1, ReplayedLast
    <3>3. ReplayedFrom(list, s, k) = list[m].status
      BY <2>2, <3>1, ReplayedLast
    <3>4. m \in 1 .. k
      BY <2>2 DEF Told
    <3>5. longer[m] = list[m]
      BY <3>4
    <3> QED BY <1>3, <3>2, <3>3, <3>5 DEF Continues
  <2> QED BY <2>3, <2>4
<1>4. ASSUME NEW a \in added
      PROVE  \E i \in added : ReplayedFrom(longer, s, k + n) = longer[k + i].status
  <2>1. k + a \in new
    <3>1. a \in 1 .. n /\ longer[k + a].stage = s /\ IsStatus(longer[k + a])
      BY DEF Added
    <3>2. k + a \in 1 .. k + n
      BY <3>1
    <3> QED BY <3>1, <3>2 DEF Told
  <2>2. PICK m \in new : \A j \in new : j <= m
    BY <1>1, <2>1, Greatest
  <2>3. ReplayedFrom(longer, s, k + n) = longer[m].status
    BY <1>1, <2>2, ReplayedLast
  <2>4. k + a <= m /\ m \in 1 .. k + n
    BY <2>1, <2>2 DEF Told
  <2>5. m \notin 1 .. k
    <3>1. a \in 1 .. n
      BY DEF Added
    <3> QED BY <2>4, <3>1
  <2>6. PICK j \in 1 .. n : m = k + j
    BY <1>2, <2>4, <2>5
  <2>7. j \in added
    BY <2>6 DEF Told, Added
  <2> QED BY <2>3, <2>6, <2>7
<1> QED BY <1>3, <1>4 DEF Continues

\* Whatever a transaction read before it, it tells the statuses as it leaves them.
LEMMA StatusesReplayWrite ==
  ASSUME Typed, StatusesReplay, NEW c \in Command, NEW head,
         events' = events \o Chained(c, head), status' = Refreshed(c)
  PROVE  StatusesReplay'
<1> SUFFICES ASSUME NEW s \in Stages
             PROVE  status'[s] = Replayed(s, Len(events))'
  BY DEF StatusesReplay
<1>1. PICK E : events \in Seq(E)
  BY DEF Typed
<1>2. PICK n : Tells(c, Outcome(c), n)
  BY OutcomeTells DEF Typed
<1> DEFINE out == Outcome(c)
<1> PICK k : k = Len(events)
  OBVIOUS
<1>3. Follow(out, k, n)
  BY <1>1, <1>2, EventsAppended
<1>4. /\ n \in Nat
      /\ \A i \in 1 .. n : IsStatus(out[i]) => out[i].status = status'[out[i].stage]
      /\ status'[s] # status[s] => \E i \in 1 .. n : IsStatus(out[i]) /\ out[i].stage = s
  BY <1>2 DEF Tells
<1>5. Replayed(s, Len(events)) = ReplayedFrom(events, s, k)
  BY DEF Replayed, ReplayedFrom, Told, IsStatus
<1>6. Replayed(s, Len(events))' = ReplayedFrom(events', s, k + n)
  <2>1. Replayed(s, Len(events))' = ReplayedFrom(events', s, Len(events'))
    BY DEF Replayed, ReplayedFrom, Told, IsStatus
  <2> QED BY <1>3, <2>1 DEF Follow
<1> HIDE DEF out
<1> PICK list, longer : list = events /\ longer = events'
  OBVIOUS
<1>7. \/ /\ Added(longer, s, k, n) = {}
         /\ ReplayedFrom(longer, s, k + n) = ReplayedFrom(list, s, k)
      \/ \E i \in Added(longer, s, k, n) : ReplayedFrom(longer, s, k + n) = longer[k + i].status
  <2>1. k \in Nat /\ n \in Nat /\ \A i \in 1 .. k : longer[i] = list[i]
    BY <1>3, <1>4 DEF Follow
  <2>2. Continues(longer, list, s, k, n)
    BY <2>1, ReplayedLonger
  <2> QED BY <2>2 DEF Continues
<1>8. \A i \in 1 .. n : /\ longer[k + i].stage = out[i].stage
                        /\ longer[k + i].status = out[i].status
                        /\ IsStatus(longer[k + i]) <=> IsStatus(out[i])
  BY <1>3 DEF Follow, IsStatus
<1>9. CASE /\ Added(longer, s, k, n) = {}
           /\ ReplayedFrom(longer, s, k + n) = ReplayedFrom(list, s, k)
  <2>1. status'[s] = status[s]
    <3>1. \A i \in 1 .. n : ~(longer[k + i].stage = s /\ IsStatus(longer[k + i]))
      BY <1>9 DEF Added
    <3>2. ASSUME NEW i \in 1 .. n, IsStatus(out[i]), out[i].stage = s
          PROVE  FALSE
      BY <1>8, <3>1, <3>2
    <3> QED BY <1>4, <3>2
  <2>2. status[s] = Replayed(s, Len(events))
    BY DEF StatusesReplay
  <2> QED BY <1>5, <1>6, <1>9, <2>1, <2>2
<1>10. ASSUME NEW i \in Added(longer, s, k, n), ReplayedFrom(longer, s, k + n) = longer[k + i].status
       PROVE  status'[s] = Replayed(s, Len(events))'
  <2>1. i \in 1 .. n /\ out[i].stage = s /\ IsStatus(out[i])
    BY <1>8 DEF Added
  <2>2. longer[k + i].status = status'[s]
    BY <1>4, <1>8, <2>1
  <2> QED BY <1>6, <1>10, <2>2
<1> QED BY <1>7, <1>9, <1>10

\* An output is told once, under the next ordinal or not at all.
LEMMA OutputsReplayWrite ==
  ASSUME Typed, OutputsReplay, NEW c \in Command, NEW head, NEW ordinal,
         AddsOutput(c) => ordinal \in 0 .. Len(outputs[c.stage]),
         ~Conflict(c, ordinal),
         events' = events \o Chained(c, head),
         outputs' = IF AddsOutput(c)
                      THEN [outputs EXCEPT ![c.stage] = Append(@, ordinal)] ELSE outputs
  PROVE  OutputsReplay'
<1> SUFFICES ASSUME NEW s \in Stages
             PROVE  outputs'[s] = [i \in 1 .. Cardinality(ToldOutputs(s)') |-> i - 1]
  BY DEF OutputsReplay
<1>1. PICK E : events \in Seq(E)
  BY DEF Typed
<1>2. PICK n : Tells(c, Outcome(c), n)
  BY OutcomeTells DEF Typed
<1> DEFINE out == Outcome(c)
<1> PICK k : k = Len(events)
  OBVIOUS
<1>3. /\ k \in Nat /\ DOMAIN events = 1 .. k /\ DOMAIN events' = 1 .. k + n
      /\ \A i \in 1 .. k : events'[i] = events[i]
      /\ \A i \in 1 .. n : /\ events'[k + i].kind = out[i].kind
                           /\ events'[k + i].stage = out[i].stage
      /\ \A i \in 1 .. k + n : i \in 1 .. k \/ \E j \in 1 .. n : i = k + j
  <2>1. Follow(out, k, n)
    BY <1>1, <1>2, EventsAppended
  <2>2. PICK X : events' \in Seq(X)
    BY <2>1 DEF Follow
  <2>3. DOMAIN events = 1 .. Len(events) /\ DOMAIN events' = 1 .. Len(events')
    BY <1>1, <2>2
  <2> QED BY <2>1, <2>3 DEF Follow
<1>4. /\ n \in Nat
      /\ AddsOutput(c) => n >= 1 /\ out[1].kind = "OUTPUT" /\ out[1].stage = c.stage
      /\ \A i \in 1 .. n : out[i].kind = "OUTPUT" => i = 1 /\ AddsOutput(c)
  BY <1>2 DEF Tells
<1> HIDE DEF out
<1>5. IsFiniteSet(ToldOutputs(s)) /\ Cardinality(ToldOutputs(s)) \in Nat /\ k + 1 \notin ToldOutputs(s)
  <2>1. IsFiniteSet(1 .. k) /\ ToldOutputs(s) \in SUBSET (1 .. k)
    BY <1>3, FS_Interval DEF ToldOutputs
  <2>2. IsFiniteSet(ToldOutputs(s))
    BY <2>1, FS_Subset
  <2>3. k + 1 \notin 1 .. k
    BY <1>3
  <2> QED BY <2>1, <2>2, <2>3, FS_CardinalityType
<1>6. ToldOutputs(s)' = {i \in 1 .. k + n : events'[i].kind = "OUTPUT" /\ events'[i].stage = s}
  BY <1>3 DEF ToldOutputs
<1>7. ToldOutputs(s) = {i \in 1 .. k : events[i].kind = "OUTPUT" /\ events[i].stage = s}
  BY <1>3 DEF ToldOutputs
<1>8. \A i \in 1 .. k : i \in 1 .. k + n
  BY <1>3, <1>4
<1>9. outputs[s] = [i \in 1 .. Cardinality(ToldOutputs(s)) |-> i - 1]
  BY DEF OutputsReplay
<1>10. CASE AddsOutput(c) /\ s = c.stage
  <2>1. 1 \in 1 .. n /\ k + 1 \in 1 .. k + n
    BY <1>3, <1>4, <1>10
  <2>2. ToldOutputs(s)' = ToldOutputs(s) \cup {k + 1}
    <3>1. ASSUME NEW i \in ToldOutputs(s)'
          PROVE  i \in ToldOutputs(s) \cup {k + 1}
      <4>1. CASE i \in 1 .. k
        BY <1>3, <1>6, <1>7, <4>1
      <4>2. ASSUME NEW j \in 1 .. n, i = k + j
            PROVE  i = k + 1
        <5>1. out[j].kind = "OUTPUT"
          BY <1>3, <1>6, <4>2
        <5> QED BY <1>4, <4>2, <5>1
      <4> QED BY <1>3, <1>6, <4>1, <4>2
    <3>2. ToldOutputs(s) \subseteq ToldOutputs(s)'
      BY <1>3, <1>6, <1>7, <1>8
    <3>3. k + 1 \in ToldOutputs(s)'
      BY <1>3, <1>4, <1>6, <1>10, <2>1
    <3> QED BY <3>1, <3>2, <3>3
  <2> PICK m : m = Cardinality(ToldOutputs(s))
    OBVIOUS
  <2>3. Cardinality(ToldOutputs(s)') = m + 1 /\ m \in Nat
    BY <1>5, <2>2, FS_AddElement
  <2>4. Len(outputs[s]) = m /\ DOMAIN outputs[s] = 1 .. m
    BY <1>9, <2>3
  <2>5. ordinal \in 0 .. m /\ \A i \in 1 .. m : i - 1 # ordinal
    <3>1. \A i \in 1 .. m : outputs[s][i] = i - 1
      BY <1>9
    <3>2. \A i \in 1 .. m : outputs[s][i] # ordinal
      BY <1>10, <2>4 DEF Conflict
    <3>3. ordinal \in 0 .. m
      BY <1>10, <2>4
    <3> QED BY <3>1, <3>2, <3>3
  <2>6. ordinal = m
    <3>1. ordinal < m => ordinal + 1 \in 1 .. m /\ (ordinal + 1) - 1 = ordinal
      BY <2>3, <2>5
    <3>2. ~(ordinal < m)
      BY <2>5, <3>1
    <3> QED BY <2>3, <2>5, <3>2
  <2>7. outputs'[s] = Append(outputs[s], m)
    BY <1>10, <2>6 DEF Typed
  <2>8. Append([i \in 1 .. m |-> i - 1], m) = [i \in 1 .. m + 1 |-> i - 1]
    BY <2>3
  <2> QED BY <1>9, <2>3, <2>7, <2>8
<1>11. CASE ~(AddsOutput(c) /\ s = c.stage)
  <2>1. ToldOutputs(s)' = ToldOutputs(s)
    <3>1. ASSUME NEW i \in ToldOutputs(s)'
          PROVE  i \in ToldOutputs(s)
      <4>1. CASE i \in 1 .. k
        BY <1>3, <1>6, <1>7, <4>1
      <4>2. ASSUME NEW j \in 1 .. n, i = k + j
            PROVE  FALSE
        <5>1. out[j].kind = "OUTPUT" /\ out[j].stage = s
          BY <1>3, <1>6, <4>2
        <5> QED BY <1>4, <1>11, <5>1
      <4> QED BY <1>3, <1>6, <4>1, <4>2
    <3>2. ToldOutputs(s) \subseteq ToldOutputs(s)'
      BY <1>3, <1>6, <1>7, <1>8
    <3> QED BY <3>1, <3>2
  <2>2. outputs'[s] = outputs[s]
    BY <1>11 DEF Typed
  <2> QED BY <1>9, <2>1, <2>2
<1> QED BY <1>10, <1>11

\* The tables stay within their types whatever a transaction has read.
LEMMA WriteKeepsTypes ==
  ASSUME Typed, NEW c \in Command
  PROVE  Refreshed(c) \in [Stages -> {"PENDING", "READY", "RUNNING", "PASS", "BLOCKED"}]
<1>1. /\ c.op \in {"record", "start", "complete", "register", "commit", "reopen", "retry"}
      /\ c.op # "record" => c.stage \in Stages
  BY DEF Command
<1>2. Updated(c) \in [Stages -> {"PENDING", "READY", "RUNNING", "PASS", "BLOCKED"}]
  BY <1>1 DEF Updated, NewStatus, Typed
<1>3. Released(c) \in SUBSET Stages
  BY DEF Released
<1> QED BY <1>2, <1>3 DEF Refreshed

\* At first the ledger tells nothing of any stage.
LEMMA TablesInvInit == Init => TablesInv
<1> SUFFICES ASSUME Init PROVE TablesInv
  OBVIOUS
<1>1. Typed
  BY IInvInit DEF IInv
<1>2. ReadBefore
  BY DEF Init, ReadBefore
<1>3. Len(events) = 1 /\ events[1].stage = 0 /\ events[1].kind = "CREATED" /\ DOMAIN events = {1}
  BY DEF Init
<1>4. 0 \notin Stages
  BY DEF Stages
<1>5. StatusesReplay
  <2> SUFFICES ASSUME NEW s \in Stages
               PROVE  status[s] = Replayed(s, Len(events))
    BY DEF StatusesReplay
  <2>1. \A i \in 1 .. 1 : i = 1
    OBVIOUS
  <2>2. Replayed(s, 1) = IF s = 1 THEN "READY" ELSE "PENDING"
    BY <1>3, <1>4, <2>1 DEF Replayed
  <2> QED BY <1>3, <2>2 DEF Init
<1>6. OutputsReplay
  <2> SUFFICES ASSUME NEW s \in Stages
               PROVE  outputs[s] = [n \in 1 .. Cardinality(ToldOutputs(s)) |-> n - 1]
    BY DEF OutputsReplay
  <2>1. ToldOutputs(s) = {}
    BY <1>3 DEF ToldOutputs
  <2>2. Cardinality(ToldOutputs(s)) = 0
    BY <2>1, FS_EmptySet
  <2>3. <<>> = [n \in 1 .. 0 |-> n - 1]
    OBVIOUS
  <2> QED BY <2>2, <2>3 DEF Init
<1> QED BY <1>1, <1>2, <1>5, <1>6 DEF TablesInv

\* An action that leaves the tables alone.
LEMMA TablesUntouched ==
  ASSUME TablesInv, UNCHANGED tables, Typed',
         \A q \in Processes : pc'[q] = "checked" =>
           \/ pc[q] = "checked" /\ read'[q] = read[q]
           \/ \E c \in Command, head \in Nat :
                read'[q] = [command |-> c, head |-> head,
                            ordinal |-> IF AddsOutput(c) THEN Len(outputs[c.stage]) ELSE 0]
  PROVE  TablesInv'
<1>1. status' = status /\ outputs' = outputs /\ events' = events
  BY DEF tables
<1>2. StatusesReplay'
  <2>1. \A s : /\ Replayed(s, Len(events)) = ReplayedFrom(events, s, Len(events))
               /\ Replayed(s, Len(events))' = ReplayedFrom(events', s, Len(events'))
    BY DEF Replayed, ReplayedFrom, Told, IsStatus
  <2> QED BY <1>1, <2>1 DEF TablesInv, StatusesReplay
<1>3. OutputsReplay'
  BY <1>1 DEF TablesInv, OutputsReplay, ToldOutputs
<1>4. ReadBefore'
  <2> SUFFICES ASSUME NEW q \in Processes, pc'[q] = "checked"
               PROVE  /\ read'[q].command \in Command
                      /\ AddsOutput(read'[q].command) =>
                           read'[q].ordinal \in 0 .. Len(outputs'[read'[q].command.stage])
    BY DEF ReadBefore, AddsOutput
  <2>1. CASE pc[q] = "checked" /\ read'[q] = read[q]
    BY <1>1, <2>1 DEF TablesInv, ReadBefore
  <2>2. ASSUME NEW c \in Command, NEW head \in Nat,
               read'[q] = [command |-> c, head |-> head,
                           ordinal |-> IF AddsOutput(c) THEN Len(outputs[c.stage]) ELSE 0]
        PROVE  /\ read'[q].command \in Command
               /\ AddsOutput(read'[q].command) =>
                    read'[q].ordinal \in 0 .. Len(outputs'[read'[q].command.stage])
    <3>1. AddsOutput(c) => Len(outputs[c.stage]) \in Nat
      BY DEF AddsOutput, Command, TablesInv, Typed
    <3>2. read'[q].command = c /\ (AddsOutput(c) => read'[q].ordinal = Len(outputs[c.stage]))
      BY <2>2
    <3> QED BY <1>1, <3>1, <3>2
  <2> QED BY <2>1, <2>2
<1> QED BY <1>2, <1>3, <1>4 DEF TablesInv

\* Whoever is inside an operation, a transaction keeps tables and ledger together.
LEMMA TablesInvWrite ==
  ASSUME TablesInv, NEW p \in Processes, Write(p)
  PROVE  TablesInv'
<1> DEFINE c == read[p].command
           n == read[p].ordinal
<1>1. /\ c \in Command /\ ~Conflict(c, n)
      /\ AddsOutput(c) => n \in 0 .. Len(outputs[c.stage]) /\ c.stage \in Stages
      /\ events' = events \o Chained(c, read[p].head)
      /\ status' = Refreshed(c)
      /\ outputs' = IF AddsOutput(c)
                      THEN [outputs EXCEPT ![c.stage] = Append(@, n)] ELSE outputs
      /\ UNCHANGED <<lock, working>>
  BY DEF Write, TablesInv, ReadBefore, AddsOutput, Command
<1>2. /\ pc' = [pc EXCEPT ![p] = IF p \in Controllers THEN "held" ELSE "out"]
      /\ read' = [read EXCEPT ![p] = NoRead]
  BY DEF Write, Return
<1>3. Typed
  BY DEF TablesInv
<1>4. StatusesReplay'
  BY <1>1, <1>3, StatusesReplayWrite DEF TablesInv
<1>5. OutputsReplay'
  BY <1>1, <1>3, OutputsReplayWrite DEF TablesInv
<1>6. outputs' \in [Stages -> Seq(Nat)]
  BY <1>1 DEF Typed, TablesInv
<1>7. Typed'
  <2>1. \E X : events' \in Seq(X)
    <3>1. PICK E : events \in Seq(E)
      BY <1>3 DEF Typed
    <3>2. PICK m : Tells(c, Outcome(c), m)
      BY <1>1, <1>3, OutcomeTells DEF Typed
    <3>3. Follow(Outcome(c), Len(events), m)
      BY <1>1, <3>1, <3>2, EventsAppended
    <3> QED BY <3>3 DEF Follow
  <2>2. status' \in [Stages -> {"PENDING", "READY", "RUNNING", "PASS", "BLOCKED"}]
    BY <1>1, <1>3, WriteKeepsTypes
  <2>3. NoRead \in [command : Command \cup {NoRead.command}, head : Nat, ordinal : Nat]
    BY DEF NoRead
  <2>4. /\ pc' \in [Processes -> {"out", "open", "held", "checked", "turn"}]
        /\ read' \in [Processes -> [command : Command \cup {NoRead.command}, head : Nat, ordinal : Nat]]
        /\ working' \in BOOLEAN
    BY <1>1, <1>2, <1>3, <2>3 DEF Typed
  <2> QED BY <1>6, <2>1, <2>2, <2>4 DEF Typed
<1>8. ReadBefore'
  <2> SUFFICES ASSUME NEW q \in Processes, pc'[q] = "checked"
               PROVE  /\ read'[q].command \in Command
                      /\ AddsOutput(read'[q].command) =>
                           read'[q].ordinal \in 0 .. Len(outputs'[read'[q].command.stage])
    BY DEF ReadBefore, AddsOutput
  <2>1. q # p /\ pc[q] = "checked" /\ read'[q] = read[q]
    BY <1>2, <1>3 DEF Typed
  <2> DEFINE d == read[q].command
  <2>2. d \in Command /\ (AddsOutput(d) => read[q].ordinal \in 0 .. Len(outputs[d.stage]))
    BY <2>1 DEF TablesInv, ReadBefore
  <2>3. AddsOutput(d) => d.stage \in Stages
    BY <2>2 DEF AddsOutput, Command
  <2>4. \A s \in Stages : Len(outputs[s]) \in Nat /\ Len(outputs'[s]) \in Nat
                          /\ Len(outputs[s]) <= Len(outputs'[s])
    <3>1. \A s \in Stages : outputs[s] \in Seq(Nat) /\ outputs'[s] \in Seq(Nat)
      BY <1>3, <1>6 DEF Typed
    <3>2. \A s \in Stages : outputs'[s] = outputs[s] \/ outputs'[s] = Append(outputs[s], n)
      BY <1>1, <1>3 DEF Typed
    <3> QED BY <3>1, <3>2
  <2>5. AddsOutput(d) => read[q].ordinal \in 0 .. Len(outputs'[d.stage])
    BY <2>2, <2>3, <2>4
  <2> QED BY <2>1, <2>2, <2>5
<1> QED BY <1>4, <1>5, <1>7, <1>8 DEF TablesInv

\* Every other step leaves the tables alone.
LEMMA TablesInvNext == TablesInv /\ [Next]_vars => TablesInv'
<1> SUFFICES ASSUME TablesInv, [Next]_vars
             PROVE  TablesInv'
  OBVIOUS
<1>1. Typed
  BY DEF TablesInv
<1>2. NoRead \in [command : Command \cup {NoRead.command}, head : Nat, ordinal : Nat]
  BY DEF NoRead
<1>3. ASSUME NEW p \in Processes, Open(p) \/ Acquire(p) \/ StartTurn(p) \/ Rollback(p)
      PROVE  TablesInv'
  <2>1. /\ UNCHANGED tables
        /\ \E place \in {"open", "held", "turn", "out"} : pc' = [pc EXCEPT ![p] = place]
        /\ read' = read \/ read' = [read EXCEPT ![p] = NoRead]
        /\ working' \in BOOLEAN
    BY <1>1, <1>3 DEF Open, Acquire, StartTurn, Rollback, Return, Typed
  <2>2. Typed'
    <3>1. pc' \in [Processes -> {"out", "open", "held", "checked", "turn"}]
      BY <1>1, <2>1 DEF Typed
    <3>2. read' \in [Processes -> [command : Command \cup {NoRead.command}, head : Nat, ordinal : Nat]]
      BY <1>1, <1>2, <2>1 DEF Typed
    <3> QED BY <1>1, <2>1, <3>1, <3>2 DEF Typed, tables
  <2>3. \A q \in Processes : pc'[q] = "checked" => pc[q] = "checked" /\ read'[q] = read[q]
    BY <1>1, <2>1 DEF Typed
  <2> QED BY <2>1, <2>2, <2>3, TablesUntouched
<1>4. ASSUME NEW p \in Processes, Check(p)
      PROVE  TablesInv'
  <2>1. PICK c \in Commands(p) :
          read' = [read EXCEPT ![p] =
            [command |-> c, head |-> Len(events),
             ordinal |-> IF AddsOutput(c) THEN Len(outputs[c.stage]) ELSE 0]]
    BY <1>4 DEF Check
  <2>2. c \in Command
    BY DEF Commands, Command
  <2>3. pc' = [pc EXCEPT ![p] = "checked"] /\ UNCHANGED <<tables, lock, working>>
    BY <1>4 DEF Check
  <2>4. Len(events) \in Nat
    BY <1>1 DEF Typed
  <2>5. (IF AddsOutput(c) THEN Len(outputs[c.stage]) ELSE 0) \in Nat
    BY <1>1, <2>2 DEF Typed, AddsOutput, Command
  <2>6. Typed'
    BY <1>1, <2>1, <2>2, <2>3, <2>4, <2>5 DEF Typed, tables
  <2>7. \A q \in Processes : pc'[q] = "checked" =>
          \/ pc[q] = "checked" /\ read'[q] = read[q]
          \/ \E d \in Command, head \in Nat :
               read'[q] = [command |-> d, head |-> head,
                           ordinal |-> IF AddsOutput(d) THEN Len(outputs[d.stage]) ELSE 0]
    BY <1>1, <2>1, <2>2, <2>3, <2>4 DEF Typed
  <2> QED BY <2>3, <2>6, <2>7, TablesUntouched
<1>5. ASSUME NEW left \in {"held", "out"}, NEW p, UNCHANGED tables, working' \in BOOLEAN,
             pc' = [q \in Processes |->
                      IF q \in Workers THEN "out" ELSE IF q = p THEN left ELSE pc[q]],
             \/ read' = [q \in Processes |-> IF q \in Workers THEN NoRead ELSE read[q]]
             \/ read' = [q \in Processes |-> IF q = p \/ q \in Workers THEN NoRead ELSE read[q]]
      PROVE  TablesInv'
  <2>1. Typed'
    BY <1>1, <1>2, <1>5 DEF Typed, tables
  <2>2. \A q \in Processes : pc'[q] = "checked" => pc[q] = "checked" /\ read'[q] = read[q]
    BY <1>5
  <2> QED BY <1>5, <2>1, <2>2, TablesUntouched
<1>6. ASSUME NEW p \in Processes, EndTurn(p)
      PROVE  TablesInv'
  <2>1. pc' = [q \in Processes |->
                 IF q \in Workers THEN "out" ELSE IF q = p THEN "held" ELSE pc[q]]
    BY <1>1, <1>6 DEF EndTurn, StopWorker, Typed
  <2> QED BY <1>5, <1>6, <2>1 DEF EndTurn, tables
<1>7. ASSUME NEW p \in Processes, Exit(p)
      PROVE  TablesInv'
  <2>1. UNCHANGED tables
    BY <1>7 DEF Exit
  <2>2. CASE /\ pc' = [pc EXCEPT ![p] = "out"] /\ read' = [read EXCEPT ![p] = NoRead]
             /\ working' = working
    <3>1. Typed'
      BY <1>1, <1>2, <2>1, <2>2 DEF Typed, tables
    <3>2. \A q \in Processes : pc'[q] = "checked" => pc[q] = "checked" /\ read'[q] = read[q]
      BY <1>1, <2>2 DEF Typed
    <3> QED BY <2>1, <3>1, <3>2, TablesUntouched
  <2>3. CASE /\ working' = FALSE
             /\ pc' = StopWorker([pc EXCEPT ![p] = "out"])
             /\ read' = [q \in Processes |-> IF q = p \/ q \in Workers THEN NoRead ELSE read[q]]
    <3>1. pc' = [q \in Processes |->
                   IF q \in Workers THEN "out" ELSE IF q = p THEN "out" ELSE pc[q]]
      BY <1>1, <2>3 DEF StopWorker, Typed
    <3> QED BY <1>5, <2>1, <2>3, <3>1
  <2> QED BY <1>7, <2>2, <2>3 DEF Exit
<1>8. CASE OrphanEnds
  <2>1. /\ UNCHANGED tables /\ working' \in BOOLEAN
        /\ pc' = [q \in Processes |-> IF q \in Workers THEN "out" ELSE pc[q]]
        /\ read' = [q \in Processes |-> IF q \in Workers THEN NoRead ELSE read[q]]
    BY <1>8 DEF OrphanEnds, StopWorker, tables
  <2>2. Typed'
    BY <1>1, <1>2, <2>1 DEF Typed, tables
  <2>3. \A q \in Processes : pc'[q] = "checked" => pc[q] = "checked" /\ read'[q] = read[q]
    BY <2>1
  <2> QED BY <2>1, <2>2, <2>3, TablesUntouched
<1>9. CASE UNCHANGED vars
  <2>1. UNCHANGED <<tables, lock, working, pc, read>>
    BY <1>9 DEF vars, tables
  <2>2. Typed'
    BY <1>1, <2>1 DEF Typed, tables
  <2>3. pc' = pc /\ read' = read
    BY <2>1
  <2> QED BY <2>1, <2>2, <2>3, TablesUntouched
<1> QED BY <1>3, <1>4, <1>6, <1>7, <1>8, <1>9, TablesInvWrite DEF Next

-----------------------------------------------------------------------------
\* Whoever writes beside the controllers, operators and orphaned workers included, and
\* whatever was read before each transaction, the tables are what the ledger replays to.
THEOREM TablesAlwaysReplay == Spec => []TablesReplay
<1>1. TablesInv => TablesReplay
  BY DEF TablesInv, TablesReplay, StatusesReplay, OutputsReplay, ToldOutputs
<1> QED BY <1>1, TablesInvInit, TablesInvNext, PTL DEF Spec

-----------------------------------------------------------------------------
(* Under the lock the store is an AtomicLedger: a write happens on the     *)
(* tables its operation has read, and no other step touches the tables.    *)

\* No stage waits over a prerequisite that has passed: with DependenciesHold, what makes
\* the release of the next stage the only one of a transaction.
NoneWithheld == \A s \in Stages \ {1} : status[s - 1] = "PASS" => status[s] # "PENDING"

RInv == IInv /\ NoneWithheld

\* A commit releases the next stage, and nothing else releases any.
LEMMA NextReleased ==
  ASSUME IInv, NoneWithheld, NEW c \in Command, Guard(c)
  PROVE  Released(c) = IF c.op = "commit" /\ c.stage < N THEN {c.stage + 1} ELSE {}
<1>1. N \in Nat /\ Stages = 1 .. N /\ (c.op # "record" => c.stage \in Stages)
  BY ConcurrencyAssumption DEF Stages, Command
<1>2. CASE c.op \notin {"commit", "complete"}
  BY <1>2 DEF Released
<1>3. CASE c.op \in {"commit", "complete"}
  <2>1. \A s \in Stages : Updated(c)[s] = IF s = c.stage THEN NewStatus[c.op] ELSE status[s]
    BY <1>3 DEF Updated, NewStatus
  <2>2. NewStatus[c.op] = IF c.op = "commit" THEN "PASS" ELSE "BLOCKED"
    BY <1>3 DEF NewStatus
  <2>3. status[c.stage] = "RUNNING"
    BY <1>3 DEF Guard
  <2>4. \A s \in Stages : s > 1 => /\ s - 1 \in Stages /\ s # s - 1
                                   /\ status[s - 1] = "PASS" <=> status[s] # "PENDING"
    BY <1>1 DEF IInv, DependenciesHold, NoneWithheld
  <2>5. Released(c) = {s \in Stages : /\ Updated(c)[s] = "PENDING"
                                      /\ s > 1 /\ Updated(c)[s - 1] = "PASS"}
    BY <1>3 DEF Released
  <2>6. ASSUME NEW s \in Stages
        PROVE  s \in Released(c) <=> c.op = "commit" /\ s = c.stage + 1
    <3>1. CASE s > 1 /\ s - 1 = c.stage
      BY <1>1, <1>3, <2>1, <2>2, <2>3, <2>4, <2>5, <3>1
    <3>2. CASE ~(s > 1 /\ s - 1 = c.stage)
      <4>1. s # c.stage + 1
        BY <1>1, <1>3, <3>2
      <4>2. s \notin Released(c)
        BY <1>1, <1>3, <2>1, <2>2, <2>3, <2>4, <2>5, <3>2
      <4> QED BY <4>1, <4>2
    <3> QED BY <3>1, <3>2
  <2>7. c.stage + 1 \in Stages <=> c.stage < N
    BY <1>1, <1>3
  <2>8. Released(c) \subseteq Stages
    BY <2>5
  <2> QED BY <2>6, <2>7, <2>8
<1> QED BY <1>2, <1>3

\* No transaction leaves a stage waiting over a prerequisite that has passed.
LEMMA WriteWithholdsNone ==
  ASSUME IInv, NoneWithheld, NEW c \in Command, Guard(c)
  PROVE  \A s \in Stages \ {1} : Refreshed(c)[s - 1] = "PASS" => Refreshed(c)[s] # "PENDING"
<1> TAKE s \in Stages \ {1}
<1>1. /\ s \in Int /\ s > 1 /\ s - 1 \in Stages /\ s # s - 1
      /\ c.op # "record" => c.stage \in Stages /\ c.stage \in Int
  BY ConcurrencyAssumption DEF Stages, Command
<1>2. \A t \in Stages : Refreshed(c)[t] = IF t \in Released(c) THEN "READY" ELSE Updated(c)[t]
  BY DEF Refreshed
<1>3. status[s - 1] = "PASS" => status[s] # "PENDING"
  BY DEF NoneWithheld
<1>4. CASE c.op \in {"commit", "complete"}
  <2>1. s \in Released(c) <=> Updated(c)[s] = "PENDING" /\ Updated(c)[s - 1] = "PASS"
    BY <1>1, <1>4 DEF Released
  <2> QED BY <1>1, <1>2, <2>1
<1>5. CASE c.op \in {"record", "register"}
  <2>1. Released(c) = {} /\ Updated(c)[s] = status[s] /\ Updated(c)[s - 1] = status[s - 1]
    BY <1>1, <1>5 DEF Released, Updated, NewStatus
  <2> QED BY <1>1, <1>2, <1>3, <2>1
<1>6. CASE c.op \in {"start", "reopen"}
  <2>1. /\ Released(c) = {}
        /\ \A t \in Stages : Updated(c)[t] = IF t # c.stage THEN status[t]
                                             ELSE IF c.op = "start" THEN "RUNNING" ELSE "READY"
    BY <1>6 DEF Released, Updated, NewStatus
  <2> QED BY <1>1, <1>2, <1>3, <2>1
<1>7. CASE c.op = "retry"
  <2>1. /\ Released(c) = {}
        /\ \A t \in Stages : Updated(c)[t] = IF t = c.stage THEN "READY"
                                             ELSE IF t > c.stage THEN "PENDING" ELSE status[t]
    BY <1>7 DEF Released, Updated, NewStatus
  <2> QED BY <1>1, <1>2, <1>3, <1>7, <2>1
<1> QED BY <1>4, <1>5, <1>6, <1>7 DEF Command

\* The tables of a transaction are those its operation has read.
LEMMA RInvInit == Init => RInv
<1> SUFFICES ASSUME Init PROVE NoneWithheld
  BY IInvInit DEF RInv
<1>1. \A s \in Stages \ {1} : s - 1 \in Stages
  BY ConcurrencyAssumption DEF Stages
<1> QED BY <1>1 DEF Init, NoneWithheld

LEMMA RInvNext == UnderLock /\ RInv /\ [Next]_vars => RInv'
<1> SUFFICES ASSUME UnderLock, RInv, [Next]_vars
             PROVE  NoneWithheld'
  BY IInvNext DEF RInv
<1>1. CASE \E p \in Processes : Write(p)
  <2> PICK p \in Processes : Write(p)
    BY <1>1
  <2>1. read[p].command \in Command /\ Guard(read[p].command) /\ status' = Refreshed(read[p].command)
    BY DEF Write, RInv, IInv, Standing
  <2> QED BY <2>1, WriteWithholdsNone DEF RInv, NoneWithheld
<1>2. CASE status' = status
  BY <1>2 DEF RInv, NoneWithheld
<1>3. (\E p \in Processes : Write(p)) \/ status' = status
  BY DEF Next, vars, tables, Open, Acquire, Check, Rollback, StartTurn, EndTurn, Exit, OrphanEnds
<1> QED BY <1>1, <1>2, <1>3

\* What entries tell of which stage.
Pairs(list) == [i \in DOMAIN list |-> <<list[i].kind, list[i].stage>>]

LEMMA PairsAreSequence ==
  ASSUME NEW list, NEW n \in Nat, DOMAIN list = 1 .. n
  PROVE  \E X : Pairs(list) \in Seq(X) /\ Len(Pairs(list)) = n
<1>1. IsSequence(Pairs(list), n)
  BY DEF Pairs, IsSequence
<1> QED BY <1>1, SequenceOfValues

\* They tell it in their order.
LEMMA PairsConcat ==
  ASSUME NEW X, NEW f \in Seq(X), NEW g \in Seq(X)
  PROVE  Pairs(f \o g) = Pairs(f) \o Pairs(g)
<1> DEFINE m == Len(f)
           n == Len(g)
<1>1. /\ m \in Nat /\ n \in Nat /\ DOMAIN f = 1 .. m /\ DOMAIN g = 1 .. n
      /\ DOMAIN (f \o g) = 1 .. m + n
      /\ \A i \in 1 .. m + n : (f \o g)[i] = IF i <= m THEN f[i] ELSE g[i - m]
  OBVIOUS
<1>2. PICK Y : Pairs(f) \in Seq(Y) /\ Len(Pairs(f)) = m
  BY <1>1, PairsAreSequence
<1>3. PICK Z : Pairs(g) \in Seq(Z) /\ Len(Pairs(g)) = n
  BY <1>1, PairsAreSequence
<1>4. /\ \A i \in 1 .. m : Pairs(f)[i] = <<f[i].kind, f[i].stage>>
      /\ \A i \in 1 .. n : Pairs(g)[i] = <<g[i].kind, g[i].stage>>
  BY <1>1 DEF Pairs
<1>5. Pairs(f \o g) = [i \in 1 .. m + n |-> <<(f \o g)[i].kind, (f \o g)[i].stage>>]
  BY <1>1 DEF Pairs
<1> PICK a, b, c : a = Pairs(f) /\ b = Pairs(g) /\ c = Pairs(f \o g)
  OBVIOUS
<1>6. /\ a \o b = [i \in 1 .. m + n |-> (a \o b)[i]]
      /\ \A i \in 1 .. m + n : (a \o b)[i] = IF i <= m THEN a[i] ELSE b[i - m]
  <2>1. a \in Seq(Y \cup Z) /\ b \in Seq(Y \cup Z) /\ Len(a) = m /\ Len(b) = n
    BY <1>2, <1>3
  <2>2. /\ a \o b \in Seq(Y \cup Z) /\ Len(a \o b) = m + n
        /\ \A i \in 1 .. m + n : (a \o b)[i] = IF i <= m THEN a[i] ELSE b[i - m]
    <3>1. \A u, v \in Seq(Y \cup Z) :
            /\ u \o v \in Seq(Y \cup Z) /\ Len(u \o v) = Len(u) + Len(v)
            /\ \A i \in 1 .. Len(u) + Len(v) :
                 (u \o v)[i] = IF i <= Len(u) THEN u[i] ELSE v[i - Len(u)]
      BY ConcatProperties
    <3> HIDE DEF m, n
    <3> QED BY <2>1, <3>1
  <2>3. a \o b \in [1 .. m + n -> Y \cup Z]
    BY <2>2, LenProperties
  <2> QED BY <2>2, <2>3
<1> HIDE DEF m, n
<1>7. \A i \in 1 .. m + n : (IF i <= m THEN a[i] ELSE b[i - m]) = c[i]
  <2> SUFFICES ASSUME NEW i \in 1 .. m + n
               PROVE  (IF i <= m THEN a[i] ELSE b[i - m]) = c[i]
    OBVIOUS
  <2>1. c[i] = <<(f \o g)[i].kind, (f \o g)[i].stage>>
    BY <1>5
  <2>2. CASE i <= m
    <3>1. i \in 1 .. m /\ (f \o g)[i] = f[i]
      BY <1>1, <2>2
    <3> QED BY <1>4, <2>1, <2>2, <3>1
  <2>3. CASE ~(i <= m)
    <3>1. i - m \in 1 .. n /\ (f \o g)[i] = g[i - m]
      BY <1>1, <2>3
    <3> QED BY <1>4, <2>1, <2>3, <3>1
  <2> QED BY <2>2, <2>3
<1> QED BY <1>5, <1>6, <1>7

\* The ledger tells what it told before, and then what the transaction tells.
LEMMA HistoryGrows ==
  ASSUME NEW E, events \in Seq(E), NEW c, NEW n, Tells(c, Outcome(c), n),
         NEW head, events' = events \o Chained(c, head)
  PROVE  History' = History \o Pairs(Outcome(c))
<1> DEFINE new == Chained(c, head)
           out == Outcome(c)
<1>1. n \in Nat /\ DOMAIN out = 1 .. n
  BY DEF Tells
<1> HIDE DEF out, new
<1>2. /\ DOMAIN new = 1 .. n
      /\ new = [i \in 1 .. n |-> new[i]]
      /\ \A i \in 1 .. n : new[i].kind = out[i].kind /\ new[i].stage = out[i].stage
  BY <1>1 DEF new, Chained, out
<1>3. Pairs(new) = Pairs(out)
  BY <1>1, <1>2 DEF Pairs
<1>4. PICK Y : new \in Seq(Y)
  BY <1>1, <1>2, SequenceOfValues DEF IsSequence
<1>5. events \in Seq(E \cup Y) /\ new \in Seq(E \cup Y) /\ events' = events \o new
  BY <1>4 DEF new
<1>6. History = Pairs(events) /\ History' = Pairs(events')
  BY DEF History, Pairs
<1>7. Pairs(events \o new) = Pairs(events) \o Pairs(new)
  BY <1>5, PairsConcat
<1> QED BY <1>3, <1>5, <1>6, <1>7 DEF out

LEMMA OnePair ==
  ASSUME NEW k, NEW s, NEW v
  PROVE  Pairs(<<Entry(k, s, v)>>) = <<<<k, s>>>>
BY DEF Pairs, Entry

\* Appending is concatenating one.
LEMMA AppendsOne ==
  ASSUME NEW X, NEW list \in Seq(X), NEW e
  PROVE  Append(list, e) = list \o <<e>>
<1>1. list \in Seq(X \cup {e})
  OBVIOUS
<1> QED BY <1>1, AppendIsConcat

LEMMA HistoryIsSequence ==
  ASSUME Typed
  PROVE  \E X : History \in Seq(X)
<1>1. PICK E : events \in Seq(E)
  BY DEF Typed
<1>2. Len(events) \in Nat /\ DOMAIN events = 1 .. Len(events)
  BY <1>1
<1>3. History = Pairs(events)
  BY DEF History, Pairs
<1> QED BY <1>2, <1>3, PairsAreSequence

\* What the entries of a commit tell.
LEMMA CommitPairs ==
  ASSUME NEW c \in Command, c.op = "commit",
         Released(c) = IF c.stage < N THEN {c.stage + 1} ELSE {}
  PROVE  Pairs(Outcome(c)) = <<<<"OUTPUT", c.stage>>, <<"COMPLETED", c.stage>>>>
                               \o IF c.stage < N THEN <<<<"READY", c.stage + 1>>>> ELSE <<>>
<1> DEFINE done == Entry("COMPLETED", c.stage, Updated(c)[c.stage])
           output == Entry("OUTPUT", c.stage, status[c.stage])
           next == Entry("READY", c.stage + 1, "READY")
           released == IF c.stage < N THEN <<next>> ELSE <<>>
<1>1. Outcome(c) = <<output, done>> \o Releases(c)
  BY Zenon DEF Outcome
<1>2. Releases(c) = released
  <2>1. CASE c.stage < N
    <3>1. Released(c) = {c.stage + 1} /\ c.stage + 1 \in Stages
      BY <2>1, ConcurrencyAssumption DEF Stages, Command
    <3>2. Cardinality(Released(c)) = 1
      BY <3>1, FS_Singleton
    <3>3. /\ DOMAIN InOrder(Released(c)) = 1 .. 1
          /\ \A i \in 1 .. 1 : InOrder(Released(c))[i] = c.stage + 1
      BY <3>1, <3>2, InOrderLists
    <3>4. Releases(c) = [i \in 1 .. 1 |-> next]
      BY <3>3 DEF Releases
    <3> HIDE DEF next
    <3>5. [i \in 1 .. 1 |-> next] = <<next>>
      OBVIOUS
    <3> QED BY <2>1, <3>4, <3>5
  <2>2. CASE ~(c.stage < N)
    <3>1. Released(c) = {} /\ {} \in SUBSET Stages
      BY <2>2
    <3>2. DOMAIN InOrder(Released(c)) = 1 .. 0
      BY <3>1, InOrderLists, FS_EmptySet
    <3>3. Releases(c) = [i \in 1 .. 0 |-> next]
      BY <3>2 DEF Releases
    <3>4. [i \in 1 .. 0 |-> next] = <<>>
      OBVIOUS
    <3> QED BY <2>2, <3>3, <3>4
  <2> QED BY <2>1, <2>2
<1>3. /\ Pairs(<<output, done>>) = <<<<"OUTPUT", c.stage>>, <<"COMPLETED", c.stage>>>>
      /\ Pairs(<<next>>) = <<<<"READY", c.stage + 1>>>>
      /\ Pairs(<<>>) = <<>>
  <2>1. Pairs(<<output, done>>) = <<<<"OUTPUT", c.stage>>, <<"COMPLETED", c.stage>>>>
    BY DEF Pairs, Entry
  <2>2. Pairs(<<>>) = <<>>
    BY DEF Pairs
  <2> QED BY <2>1, <2>2, OnePair
<1> HIDE DEF output, done, next
<1>4. Pairs(<<output, done>> \o released) = Pairs(<<output, done>>) \o Pairs(released)
  <2>1. <<output, done>> \in Seq({output, done, next}) /\ released \in Seq({output, done, next})
    <3>1. /\ <<output, done>> \in Seq({output, done, next})
          /\ <<next>> \in Seq({output, done, next}) /\ <<>> \in Seq({output, done, next})
      OBVIOUS
    <3> QED BY <3>1
  <2> HIDE DEF released
  <2> QED BY <2>1, PairsConcat
<1> QED BY <1>1, <1>2, <1>3, <1>4

\* What those of a repair tell: the stages from the repaired one on, in their order.
LEMMA RetryPairs ==
  ASSUME NEW c \in Command, c.op = "retry"
  PROVE  Pairs(Outcome(c)) = [i \in 1 .. N - c.stage + 1 |-> <<"RETRIED", c.stage + i - 1>>]
<1> DEFINE s == c.stage
           n == N - s + 1
<1>1. s \in Nat /\ N \in Nat /\ s >= 1 /\ s <= N /\ n \in Nat /\ Stages \subseteq Int
  BY ConcurrencyAssumption DEF Command, Stages
<1>2. Outcome(c) = Resets(c)
  BY Zenon DEF Outcome
<1>3. \A t \in s .. N : Cardinality({r \in s .. N : r < t}) = t - s
  <2> TAKE t \in s .. N
  <2>1. {r \in s .. N : r < t} = s .. t - 1
    BY <1>1
  <2>2. s \in Int /\ t - 1 \in Int /\ t >= s
    BY <1>1
  <2>3. Cardinality(s .. t - 1) = IF s > t - 1 THEN 0 ELSE (t - 1) - s + 1
    BY <2>2, FS_Interval
  <2>4. (IF s > t - 1 THEN 0 ELSE (t - 1) - s + 1) = t - s
    BY <2>2
  <2> QED BY <2>1, <2>3, <2>4
<1>4. Cardinality(s .. N) = n
  BY <1>1, FS_Interval
<1>5. ASSUME NEW i \in 1 .. n
      PROVE  InOrder(s .. N)[i] = s + i - 1
  <2>1. InOrder(s .. N)[i] = CHOOSE t \in s .. N : Cardinality({r \in s .. N : r < t}) = i - 1
    BY <1>4 DEF InOrder
  <2>2. \A t \in s .. N : Cardinality({r \in s .. N : r < t}) = i - 1 <=> t = s + i - 1
    BY <1>1, <1>3
  <2>3. s + i - 1 \in s .. N
    BY <1>1
  <2> QED BY <2>1, <2>2, <2>3
<1>6. DOMAIN InOrder(s .. N) = 1 .. n
  BY <1>4 DEF InOrder
<1> HIDE DEF n
<1>7. Resets(c) = [i \in 1 .. n |-> Entry("RETRIED", InOrder(s .. N)[i], Updated(c)[InOrder(s .. N)[i]])]
  BY <1>6 DEF Resets
<1>8. /\ DOMAIN Resets(c) = 1 .. n
      /\ \A i \in 1 .. n : Resets(c)[i].kind = "RETRIED" /\ Resets(c)[i].stage = s + i - 1
  BY <1>5, <1>7 DEF Entry
<1>9. Pairs(Resets(c)) = [i \in 1 .. n |-> <<"RETRIED", s + i - 1>>]
  BY <1>8 DEF Pairs
<1> QED BY <1>2, <1>9 DEF n

\* Each transaction is one operation of the AtomicLedger.
LEMMA WriteIsAtomic ==
  ASSUME RInv, NEW p \in Processes, Write(p)
  PROVE  Atomic!Next
<1> DEFINE c == read[p].command
           s == c.stage
           n == read[p].ordinal
<1>1. IInv /\ NoneWithheld /\ c \in Command /\ Guard(c) /\ read[p].head = Len(events)
  BY DEF RInv, IInv, Standing, Write
<1>2. /\ Typed
      /\ status' = Refreshed(c)
      /\ events' = events \o Chained(c, Len(events))
      /\ outputs' = IF AddsOutput(c) THEN [outputs EXCEPT ![s] = Append(@, n)] ELSE outputs
      /\ n \in Nat
  BY <1>1 DEF Write, IInv, Typed
<1> HIDE DEF c, n
<1>3. c.op # "record" => s \in Stages /\ s \in Atomic!Stages
  BY <1>1 DEF Command, Stages, Atomic!Stages
<1>4. History' = History \o Pairs(Outcome(c))
  <2>1. PICK E : events \in Seq(E)
    BY <1>2 DEF Typed
  <2>2. PICK m : Tells(c, Outcome(c), m)
    BY <1>1, <1>2, OutcomeTells DEF Typed
  <2> QED BY <1>2, <2>1, <2>2, HistoryGrows
<1>5. PICK X : History \in Seq(X)
  BY <1>2, HistoryIsSequence
<1>6. \A k : Outcome(c) = <<k>> => History' = History \o Pairs(<<k>>)
  BY <1>4
<1>7. ASSUME NEW k, NEW t, NEW v, Outcome(c) = <<Entry(k, t, v)>>
      PROVE  History' = Append(History, <<k, t>>)
  BY <1>5, <1>6, <1>7, OnePair, AppendsOne
<1>8. AddsOutput(c) => OutputCounts' = [OutputCounts EXCEPT ![s] = @ + 1]
  <2> SUFFICES ASSUME AddsOutput(c)
               PROVE  OutputCounts' = [OutputCounts EXCEPT ![s] = @ + 1]
    OBVIOUS
  <2>1. outputs' = [outputs EXCEPT ![s] = Append(@, n)] /\ s \in Stages
    BY <1>2, <1>3 DEF AddsOutput
  <2>2. ASSUME NEW t \in Stages
        PROVE  Len(outputs'[t]) = IF t = s THEN Len(outputs[t]) + 1 ELSE Len(outputs[t])
    BY <1>2, <2>1 DEF Typed
  <2> QED BY <2>1, <2>2 DEF OutputCounts
<1>9. ~AddsOutput(c) => OutputCounts' = OutputCounts
  BY <1>2 DEF OutputCounts
<1>10. Released(c) = IF c.op = "commit" /\ s < N THEN {s + 1} ELSE {}
  BY <1>1, NextReleased
<1>11. \A t \in Stages : status'[t] = IF t \in Released(c) THEN "READY" ELSE Updated(c)[t]
  BY <1>2 DEF Refreshed
<1>12. DOMAIN status = Stages /\ DOMAIN status' = Stages
       /\ status = [t \in Stages |-> status[t]] /\ status' = [t \in Stages |-> status'[t]]
  BY <1>2 DEF Typed, Refreshed
<1>13. CASE c.op = "record"
  <2>1. Outcome(c) = <<Entry("NOTE", 0, "NOTE")>>
    BY <1>13, Zenon DEF Outcome
  <2>2. History' = Append(History, <<"NOTE", 0>>)
    BY <1>7, <2>1
  <2>3. \A t \in Stages : status'[t] = status[t]
    BY <1>10, <1>11, <1>13 DEF Updated, NewStatus
  <2>4. status' = status /\ OutputCounts' = OutputCounts
    BY <1>9, <1>12, <1>13, <2>3 DEF AddsOutput
  <2> QED BY <2>2, <2>4 DEF Atomic!Next, Atomic!Note
<1>14. CASE c.op = "register"
  <2>1. Outcome(c) = <<Entry("OUTPUT", s, status[s])>>
    BY <1>14, Zenon DEF Outcome
  <2>2. History' = Append(History, <<"OUTPUT", s>>)
    BY <1>7, <2>1
  <2>3. \A t \in Stages : status'[t] = status[t]
    BY <1>10, <1>11, <1>14 DEF Updated, NewStatus
  <2>4. status' = status /\ OutputCounts' = [OutputCounts EXCEPT ![s] = @ + 1]
    BY <1>8, <1>12, <1>14, <2>3 DEF AddsOutput
  <2>5. status[s] = "RUNNING"
    BY <1>1, <1>14 DEF Guard
  <2>6. Atomic!Register(s)
    BY <2>2, <2>4, <2>5 DEF Atomic!Register
  <2> QED BY <1>3, <1>14, <2>6 DEF Atomic!Next
<1>15. ASSUME c.op \in {"start", "complete", "reopen"}
       PROVE  status' = [status EXCEPT ![s] = NewStatus[c.op]] /\ OutputCounts' = OutputCounts
  <2>1. \A t \in Stages : status'[t] = IF t = s THEN NewStatus[c.op] ELSE status[t]
    BY <1>10, <1>11, <1>15 DEF Updated, NewStatus
  <2>2. status' = [status EXCEPT ![s] = NewStatus[c.op]]
    BY <1>12, <2>1
  <2> QED BY <1>9, <1>15, <2>2 DEF AddsOutput
<1>16. CASE c.op = "start"
  <2>1. Outcome(c) = <<Entry("STARTED", s, "RUNNING")>>
    BY <1>16, Zenon DEF Outcome
  <2>2. History' = Append(History, <<"STARTED", s>>)
    BY <1>7, <2>1
  <2>3. status[s] = "READY" /\ NewStatus[c.op] = "RUNNING"
    BY <1>1, <1>16 DEF Guard, NewStatus
  <2>4. Atomic!Start(s)
    BY <1>15, <1>16, <2>2, <2>3 DEF Atomic!Start
  <2> QED BY <1>3, <1>16, <2>4 DEF Atomic!Next
<1>17. CASE c.op = "complete"
  <2>1. Outcome(c) = <<Entry("COMPLETED", s, Updated(c)[s])>> \o Releases(c)
    <3>1. c.op # "commit"
      BY <1>17
    <3> QED BY <1>17, <3>1, Zenon DEF Outcome
  <2>2. Releases(c) = <<>>
    <3>1. Released(c) = {} /\ {} \in SUBSET Stages
      BY <1>10, <1>17
    <3>2. DOMAIN InOrder(Released(c)) = 1 .. 0
      BY <3>1, InOrderLists, FS_EmptySet
    <3>3. Releases(c) = [i \in 1 .. 0 |-> Entry("READY", i, "READY")]
      BY <3>2 DEF Releases
    <3> QED BY <3>3
  <2>3. Outcome(c) = <<Entry("COMPLETED", s, Updated(c)[s])>>
    <3> DEFINE e == Entry("COMPLETED", s, Updated(c)[s])
    <3> HIDE DEF e
    <3>1. <<e>> \o <<>> = <<e>>
      OBVIOUS
    <3> QED BY <2>1, <2>2, <3>1 DEF e
  <2>4. History' = Append(History, <<"COMPLETED", s>>)
    BY <1>7, <2>3
  <2>5. status[s] = "RUNNING" /\ NewStatus[c.op] = "BLOCKED"
    BY <1>1, <1>17 DEF Guard, NewStatus
  <2>6. Atomic!Fail(s)
    BY <1>15, <1>17, <2>4, <2>5 DEF Atomic!Fail
  <2> QED BY <1>3, <1>17, <2>6 DEF Atomic!Next
<1>18. CASE c.op = "reopen"
  <2>1. Outcome(c) = <<Entry("RETRIED", s, "READY")>>
    BY <1>18, Zenon DEF Outcome
  <2>2. History' = Append(History, <<"RETRIED", s>>)
    BY <1>7, <2>1
  <2>3. status[s] = "BLOCKED" /\ NewStatus[c.op] = "READY"
    BY <1>1, <1>18 DEF Guard, NewStatus
  <2>4. Atomic!Reopen(s)
    BY <1>15, <1>18, <2>2, <2>3 DEF Atomic!Reopen
  <2> QED BY <1>3, <1>18, <2>4 DEF Atomic!Next
<1>19. CASE c.op = "commit"
  <2>1. status[s] = "RUNNING" /\ s \in Int
    BY <1>1, <1>3, <1>19 DEF Guard, Stages
  <2>2. \A t \in Stages : status'[t] = IF t = s THEN "PASS"
                                       ELSE IF t = s + 1 THEN "READY" ELSE status[t]
    <3>1. \A t \in Stages : Updated(c)[t] = IF t = s THEN "PASS" ELSE status[t]
      BY <1>19 DEF Updated, NewStatus
    <3>2. \A t \in Stages : t \in Released(c) <=> t = s + 1
      BY <1>10, <1>19, <2>1, ConcurrencyAssumption DEF Stages
    <3> QED BY <1>11, <2>1, <3>1, <3>2
  <2>3. status' = [t \in Atomic!Stages |-> IF t = s THEN "PASS"
                                           ELSE IF t = s + 1 THEN "READY" ELSE status[t]]
    BY <1>12, <2>2 DEF Stages, Atomic!Stages
  <2>4. OutputCounts' = [OutputCounts EXCEPT ![s] = @ + 1]
    BY <1>8, <1>19 DEF AddsOutput
  <2>5. History' = History \o <<<<"OUTPUT", s>>, <<"COMPLETED", s>>>>
                           \o IF s < N THEN <<<<"READY", s + 1>>>> ELSE <<>>
    <3> DEFINE first == <<<<"OUTPUT", s>>, <<"COMPLETED", s>>>>
               rest == IF s < N THEN <<<<"READY", s + 1>>>> ELSE <<>>
    <3>1. Pairs(Outcome(c)) = first \o rest
      BY <1>1, <1>10, <1>19, CommitPairs
    <3>2. \E Y : first \in Seq(Y) /\ rest \in Seq(Y)
      <4> DEFINE a == <<"OUTPUT", s>>
                 b == <<"COMPLETED", s>>
                 d == <<"READY", s + 1>>
      <4> HIDE DEF a, b, d
      <4>1. <<a, b>> \in Seq({a, b, d}) /\ <<d>> \in Seq({a, b, d}) /\ <<>> \in Seq({a, b, d})
        OBVIOUS
      <4> QED BY <4>1 DEF a, b, d
    <3> HIDE DEF first, rest
    <3>3. PICK Y : first \in Seq(Y) /\ rest \in Seq(Y)
      BY <3>2
    <3>4. History \in Seq(X \cup Y) /\ first \in Seq(X \cup Y) /\ rest \in Seq(X \cup Y)
      BY <1>5, <3>3
    <3>5. (History \o first) \o rest = History \o (first \o rest)
      BY <3>4, ConcatAssociative
    <3> QED BY <1>4, <3>1, <3>5 DEF first, rest
  <2>6. Atomic!Pass(s)
    BY <2>1, <2>3, <2>4, <2>5 DEF Atomic!Pass
  <2> QED BY <1>3, <1>19, <2>6 DEF Atomic!Next
<1>20. CASE c.op = "retry"
  <2>1. status[s] = "PASS" /\ \E t \in s + 1 .. N : status[t] = "RUNNING"
    BY <1>1, <1>20 DEF Guard
  <2>2. \A t \in Stages : status'[t] = IF t = s THEN "READY"
                                       ELSE IF t > s THEN "PENDING" ELSE status[t]
    BY <1>10, <1>11, <1>20 DEF Updated, NewStatus
  <2>3. status' = [t \in Atomic!Stages |-> IF t = s THEN "READY"
                                           ELSE IF t > s THEN "PENDING" ELSE status[t]]
    BY <1>12, <2>2 DEF Stages, Atomic!Stages
  <2>4. OutputCounts' = OutputCounts
    BY <1>9, <1>20 DEF AddsOutput
  <2>5. History' = History \o [i \in 1 .. N - s + 1 |-> <<"RETRIED", s + i - 1>>]
    BY <1>1, <1>4, <1>20, RetryPairs
  <2>6. Atomic!Retry(s)
    BY <2>1, <2>3, <2>4, <2>5 DEF Atomic!Retry
  <2> QED BY <1>3, <1>20, <2>6 DEF Atomic!Next
<1> QED BY <1>1, <1>13, <1>14, <1>16, <1>17, <1>18, <1>19, <1>20 DEF Command

\* Reading, locking, waiting, giving up and dying are nothing to whoever calls the store.
LEMMA TablesUnseen ==
  ASSUME UNCHANGED tables
  PROVE  UNCHANGED Atomic!vars
BY DEF tables, Atomic!vars, OutputCounts, History

-----------------------------------------------------------------------------
\* Under the lock an operation of the store that reads first and writes later, and that
\* may be interrupted in between, is seen by every caller as one step on tables nobody
\* else has touched, told to the ledger in the order in which the tables change.
THEOREM AtomicUnderLock ==
  ASSUME UnderLock
  PROVE  Spec => ImplementsAtomicLedger
<1>1. Init => Atomic!Init
  <2> SUFFICES ASSUME Init PROVE Atomic!Init
    OBVIOUS
  <2>1. OutputCounts = [s \in Atomic!Stages |-> 0]
    BY DEF Init, OutputCounts, Stages, Atomic!Stages
  <2>2. History = <<<<"CREATED", 0>>>>
    BY DEF Init, History
  <2> QED BY <2>1, <2>2 DEF Init, Atomic!Init, Stages, Atomic!Stages
<1>2. RInv /\ [Next]_vars => [Atomic!Next]_Atomic!vars
  <2> SUFFICES ASSUME RInv, [Next]_vars PROVE [Atomic!Next]_Atomic!vars
    OBVIOUS
  <2>1. (\E p \in Processes : Write(p)) \/ UNCHANGED tables
    BY DEF Next, vars, tables, Open, Acquire, Check, Rollback, StartTurn, EndTurn, Exit, OrphanEnds
  <2> QED BY <2>1, WriteIsAtomic, TablesUnseen
<1>3. RInv /\ [Next]_vars => RInv'
  BY UnderLock, RInvNext
<1> QED BY <1>1, <1>2, <1>3, RInvInit, PTL DEF Spec, ImplementsAtomicLedger, Atomic!Spec
=============================================================================
