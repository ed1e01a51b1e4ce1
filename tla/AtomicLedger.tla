---------------------------- MODULE AtomicLedger ----------------------------
(***************************************************************************)
(* What the store promises to whoever calls one of its operations: the     *)
(* operation finds the tables in some state, and in one step it changes    *)
(* them and tells the ledger what it did.  Nobody else is seen, nothing is *)
(* read twice.  LedgerConcurrency, where an operation reads in autocommit  *)
(* mode and writes in a transaction of its own, implements it as long as   *)
(* controller.lock keeps the other writers out.                            *)
(*                                                                         *)
(* Each action is a method of _RunPersistence (core/store.py), with what   *)
(* it calls: the transition, the occurrence, refresh_ready and the events. *)
(***************************************************************************)
EXTENDS Integers, Sequences

CONSTANT N           \* stages of the chain

VARIABLES status,    \* the table stages
          count,     \* how many outputs of each stage are recorded
          told       \* the ledger: what was told, of which stage

vars == <<status, count, told>>

Stages == 1 .. N

Init ==
  /\ status = [s \in Stages |-> IF s = 1 THEN "READY" ELSE "PENDING"]
  /\ count = [s \in Stages |-> 0]
  /\ told = <<<<"CREATED", 0>>>>

\* record_event: the tables are as they were.
Note ==
  /\ told' = Append(told, <<"NOTE", 0>>)
  /\ UNCHANGED <<status, count>>

\* start_stage
Start(s) ==
  /\ status[s] = "READY"
  /\ status' = [status EXCEPT ![s] = "RUNNING"]
  /\ told' = Append(told, <<"STARTED", s>>)
  /\ UNCHANGED count

\* register_artifact
Register(s) ==
  /\ status[s] = "RUNNING"
  /\ count' = [count EXCEPT ![s] = @ + 1]
  /\ told' = Append(told, <<"OUTPUT", s>>)
  /\ UNCHANGED status

\* complete_stage, with an outcome that satisfies no dependent.
Fail(s) ==
  /\ status[s] = "RUNNING"
  /\ status' = [status EXCEPT ![s] = "BLOCKED"]
  /\ told' = Append(told, <<"COMPLETED", s>>)
  /\ UNCHANGED count

\* commit_stage: one output, the outcome, and the release of the next stage.
Pass(s) ==
  /\ status[s] = "RUNNING"
  /\ status' = [t \in Stages |-> IF t = s THEN "PASS"
                                 ELSE IF t = s + 1 THEN "READY" ELSE status[t]]
  /\ count' = [count EXCEPT ![s] = @ + 1]
  /\ told' = told \o <<<<"OUTPUT", s>>, <<"COMPLETED", s>>>>
                  \o IF s < N THEN <<<<"READY", s + 1>>>> ELSE <<>>

\* reopen_blocked
Reopen(s) ==
  /\ status[s] = "BLOCKED"
  /\ status' = [status EXCEPT ![s] = "READY"]
  /\ told' = Append(told, <<"RETRIED", s>>)
  /\ UNCHANGED count

\* retry_from, for a later stage at work: everything after s waits again.
Retry(s) ==
  /\ status[s] = "PASS" /\ \E t \in s + 1 .. N : status[t] = "RUNNING"
  /\ status' = [t \in Stages |-> IF t = s THEN "READY"
                                 ELSE IF t > s THEN "PENDING" ELSE status[t]]
  /\ told' = told \o [i \in 1 .. N - s + 1 |-> <<"RETRIED", s + i - 1>>]
  /\ UNCHANGED count

Next ==
  \/ Note
  \/ \E s \in Stages :
       \/ Start(s) \/ Register(s) \/ Fail(s) \/ Pass(s)
       \/ Reopen(s) \/ Retry(s)

Spec == Init /\ [][Next]_vars
=============================================================================
