------------------------- MODULE StageLedgerProofs -------------------------
(***************************************************************************)
(* Proofs about StageLedger, for every workflow graph, contract and bound. *)
(*                                                                         *)
(* The dependency invariants rest on three facts about Descendants: it is  *)
(* closed under dependents, everything in it but its root has a dependency *)
(* in it, and nothing in it lies before its root.                          *)
(*                                                                         *)
(* What is recomputed from the ledger rests on one summary of the actions, *)
(* Transacts: what the events of a transaction say is what it does to the  *)
(* rows and to the occurrences.  LedgerInv follows from it alone.          *)
(*                                                                         *)
(* That the ledger implements PhasedResults rests on the dependencies and  *)
(* on Begun, that no stage is under way or over without having started.    *)
(***************************************************************************)
EXTENDS StageLedger, FiniteSetTheorems, SequenceTheorems, WellFoundedInduction, TLAPS

-----------------------------------------------------------------------------
(* Numbers.                                                                *)

\* A set of naturals that has a member has a least one.
LEMMA LeastNatural ==
  ASSUME NEW T \in SUBSET Nat, T # {}
  PROVE  \E m \in T : \A j \in T : m <= j
<1>1. PICK m \in T : \A j \in T : ~(<<j, m>> \in OpToRel(<, Nat))
  BY NatLessThanWellFounded, WFMin
<1>2. \A j \in T : ~(j < m)
  BY <1>1 DEF OpToRel
<1> QED BY <1>2

\* A bounded set of naturals that has a member has a greatest one.
LEMMA GreatestNatural ==
  ASSUME NEW T \in SUBSET Nat, T # {}, NEW n \in Nat, \A i \in T : i <= n
  PROVE  \E m \in T : \A j \in T : j <= m
<1> DEFINE U == {n - i : i \in T}
<1>1. U \in SUBSET Nat /\ U # {}
  <2>1. \A i \in T : i \in Nat /\ n - i \in Nat
    OBVIOUS
  <2> QED BY <2>1
<1>2. PICK u \in U : \A v \in U : u <= v
  BY <1>1, LeastNatural
<1>3. PICK m \in T : u = n - m
  BY <1>2
<1>4. \A j \in T : n - m <= n - j
  BY <1>2, <1>3
<1>5. \A j \in T : j <= m
  BY <1>4
<1> QED BY <1>5

-----------------------------------------------------------------------------
(* The workflow graph.                                                     *)

\* The sets a dependency cannot leave.
DownwardClosed == {A \in SUBSET Stages : \A s \in Stages : Deps[s] \cap A # {} => s \in A}

\* What x reaches: the least such set with x in it.
Reach(x) == {s \in Stages : \A A \in DownwardClosed : x \in A => s \in A}

\* A stage reaches itself and the dependencies of what it reaches.
LEMMA ReachClosed ==
  ASSUME NEW x \in Stages
  PROVE  /\ Reach(x) \in DownwardClosed
         /\ x \in Reach(x)
BY DEF Reach, DownwardClosed

\* The equation of Upstream has a solution, so the CHOOSE behind its recursive
\* definition returns one.
LEMMA UpstreamEquation ==
  \A s \in Stages : Upstream[s] = {s} \cup UNION {Upstream[d] : d \in Deps[s]}
<1> DEFINE W == [s \in Stages |-> {x \in Stages : s \in Reach(x)}]
           Step(f) == [s \in Stages |-> {s} \cup UNION {f[d] : d \in Deps[s]}]
<1>1. ASSUME NEW s \in Stages
      PROVE  W[s] = {s} \cup UNION {W[d] : d \in Deps[s]}
  <2>1. Deps[s] \in SUBSET Stages
    BY GraphAssumption
  <2>2. ASSUME NEW d \in Deps[s], NEW x \in W[d]
        PROVE  x \in W[s]
    <3>1. d \in Reach(x) /\ x \in Stages
      BY <2>1, <2>2
    <3>2. s \in Reach(x)
      BY <3>1, ReachClosed DEF DownwardClosed
    <3> QED BY <3>1, <3>2
  <2>3. ASSUME NEW x \in W[s], x # s
        PROVE  \E d \in Deps[s] : x \in W[d]
    <3> SUFFICES ASSUME \A d \in Deps[s] : x \notin W[d]
                 PROVE  FALSE
      OBVIOUS
    <3> DEFINE A == Reach(x) \ {s}
    <3>1. x \in Stages /\ s \in Reach(x)
      BY <2>3
    <3>2. \A d \in Deps[s] : d \notin Reach(x)
      BY <2>1, <3>1
    <3>3. A \in DownwardClosed
      <4>1. A \in SUBSET Stages
        BY DEF Reach
      <4>2. ASSUME NEW y \in Stages, Deps[y] \cap A # {}
            PROVE  y \in A
        <5>1. y \in Reach(x)
          BY <4>2, <3>1, ReachClosed DEF DownwardClosed
        <5>2. y # s
          BY <4>2, <3>2
        <5> QED BY <5>1, <5>2
      <4> QED BY <4>1, <4>2 DEF DownwardClosed
    <3>4. x \in A
      BY <3>1, <2>3, ReachClosed
    <3>5. s \in A
      BY <3>1, <3>3, <3>4 DEF Reach
    <3> QED BY <3>5
  <2>4. s \in W[s]
    BY ReachClosed
  <2> QED BY <2>1, <2>2, <2>3, <2>4
<1>2. W = Step(W)
  BY <1>1
<1>3. Upstream = CHOOSE f : f = Step(f)
  BY DEF Upstream
<1> HIDE DEF W, Step
<1>4. Upstream = Step(Upstream)
  BY <1>2, <1>3
<1> QED BY <1>4 DEF Step

\* WorkflowDefinition.descendants returns the stage and everything that awaits
\* it, nothing else, and nothing before it.
LEMMA DescendantsProperties ==
  ASSUME NEW s \in Stages
  PROVE  /\ Descendants[s] \subseteq Stages
         /\ s \in Descendants[s]
         /\ \A x \in Stages : Deps[x] \cap Descendants[s] # {} => x \in Descendants[s]
         /\ \A x \in Descendants[s] : x # s => Deps[x] \cap Descendants[s] # {}
         /\ \A x \in Descendants[s] : s <= x
<1> DEFINE D == Descendants[s]
<1>1. D = {x \in Stages : s \in Upstream[x]}
  BY DEF Descendants
<1>2. Deps \in [Stages -> SUBSET Stages] /\ Stages \subseteq Nat
  BY GraphAssumption
<1>3. s \in D
  BY <1>1, UpstreamEquation
<1>4. ASSUME NEW x \in Stages, NEW d \in Deps[x], d \in D
      PROVE  x \in D
  BY <1>1, <1>2, <1>4, UpstreamEquation
<1>5. ASSUME NEW x \in D, x # s
      PROVE  \E d \in Deps[x] : d \in D
  <2>1. x \in Stages /\ s \in Upstream[x]
    BY <1>1
  <2>2. PICK d \in Deps[x] : s \in Upstream[d]
    BY <2>1, <1>5, UpstreamEquation
  <2> QED BY <1>1, <1>2, <2>1, <2>2
<1>6. \A x \in D : s <= x
  <2> SUFFICES ASSUME NEW y \in D, ~(s <= y)
               PROVE  FALSE
    OBVIOUS
  <2> DEFINE Before == {x \in D : ~(s <= x)}
  <2>1. Before \in SUBSET Nat /\ Before # {}
    BY <1>1, <1>2
  <2>2. PICK x \in Before : \A z \in Before : x <= z
    BY <2>1, LeastNatural
  <2>3. x \in Stages /\ x # s /\ x \in Nat /\ s \in Nat
    BY <1>1, <1>2, <2>2
  <2>4. PICK d \in Deps[x] : d \in D
    BY <1>5, <2>2, <2>3
  <2>5. d < x /\ d \in Nat
    BY <2>3, <2>4, <1>2, GraphAssumption
  <2>6. d \in Before
    BY <2>2, <2>3, <2>4, <2>5
  <2> QED BY <2>2, <2>3, <2>5, <2>6
<1> QED BY <1>1, <1>3, <1>4, <1>5, <1>6

-----------------------------------------------------------------------------
(* Type correctness.                                                       *)

\* The transactions of a typed ledger that concern a stage have a last one.
LEMMA LatestProperties ==
  ASSUME NEW L \in Seq(SUBSET Event), ledger = L, NEW s, NEW types, Commits(s, types) # {}
  PROVE  /\ Latest(s, types) \in Event
         /\ Latest(s, types).stage = s
         /\ Latest(s, types).type \in types
<1> DEFINE T == Commits(s, types)
           last == CHOOSE i \in T : \A j \in T : j <= i
           about(e) == e.stage = s /\ e.type \in types
<1>1. T \in SUBSET Nat /\ T # {} /\ \A i \in T : i <= Len(L) /\ i \in DOMAIN L
  BY DEF Commits
<1>2. \E i \in T : \A j \in T : j <= i
  <2> HIDE DEF T
  <2>1. Len(L) \in Nat
    OBVIOUS
  <2> QED BY <1>1, <2>1, GreatestNatural
<1>3. last \in T
  BY <1>2
<1>4. \E e \in ledger[last] : about(e)
  BY <1>3 DEF Commits
<1>5. Latest(s, types) = CHOOSE e \in ledger[last] : about(e)
  BY DEF Latest
<1>6. ledger[last] \subseteq Event
  <2> HIDE DEF T, last
  <2>1. last \in DOMAIN L
    BY <1>1, <1>3
  <2>2. L[last] \in SUBSET Event
    BY <2>1
  <2> QED BY <2>2
<1> HIDE DEF last
<1>7. Latest(s, types) \in ledger[last] /\ about(Latest(s, types))
  BY <1>4, <1>5
<1> QED BY <1>6, <1>7

\* What load_current_occurrences reads starts at a position of the table.
LEMMA BoundaryType ==
  ASSUME TypeOK, NEW s \in Stages, NEW d \in Directions
  PROVE  Boundary(s, d) \in Nat
<1>1. CASE Commits(s, {"RETRIED"}) = {}
  BY <1>1 DEF Boundary
<1>2. CASE Commits(s, {"RETRIED"}) # {}
  <2> DEFINE e == Latest(s, {"RETRIED"})
  <2>1. e \in Event /\ e.type = "RETRIED"
    BY <1>2, LatestProperties DEF TypeOK
  <2> HIDE DEF e
  <2>2. e.boundaries \in Boundaries
    BY <2>1 DEF Event
  <2>3. Boundary(s, d) = e.boundaries[d]
    BY <1>2 DEF Boundary, e
  <2> QED BY <2>2, <2>3 DEF Boundaries
<1> QED BY <1>1, <1>2

\* The occurrences of the current attempt are artifacts.
LEMMA CurrentType ==
  ASSUME TypeOK, NEW s \in Stages, NEW d \in Directions
  PROVE  Current(s, d) \in Seq(Artifact)
<1> DEFINE seq == artifacts[s][d]
           m == Boundary(s, d) + 1
<1>1. seq \in Seq(Artifact)
  BY DEF TypeOK
<1>2. m \in Int /\ 1 <= m
  BY BoundaryType
<1>3. Len(seq) \in Int /\ \A i \in m .. Len(seq) : seq[i] \in Artifact
  BY <1>1, <1>2
<1> QED BY <1>2, <1>3, SubSeqProperties DEF Current

\* A repair's fingerprint counts each distinct output of its target.
LEMMA FingerprintType ==
  ASSUME TypeOK, NEW target \in Stages, NEW trigger \in Stages,
         NEW progress \in Progress \cup {NoProgress}
  PROVE  FingerprintOf(target, trigger, progress) \in Fingerprint
<1> DEFINE outputs == Current(target, "OUTPUT")
           at(a) == {i \in DOMAIN outputs : outputs[i] = a}
<1>1. outputs \in Seq(Artifact)
  BY CurrentType DEF Directions
<1> HIDE DEF outputs
<1>2. IsFiniteSet(DOMAIN outputs)
  BY <1>1, FS_Interval
<1>3. \A a \in Artifact : Cardinality(at(a)) \in Nat
  <2> TAKE a \in Artifact
  <2>1. at(a) \in SUBSET DOMAIN outputs
    OBVIOUS
  <2> QED BY <1>2, <2>1, FS_Subset, FS_CardinalityType
<1> HIDE DEF at
<1>4. Substance(outputs) = [a \in Artifact |-> IF a.kind \in CodexKinds THEN 0
                                              ELSE Cardinality(at(a))]
  BY DEF Substance, at
<1>5. Substance(outputs) \in [Artifact -> Nat]
  BY <1>3, <1>4
<1> QED BY <1>5 DEF FingerprintOf, Fingerprint, outputs

\* refresh_ready makes PENDING rows READY and changes no other row, so that
\* what is satisfied after it was satisfied before it.
LEMMA RefreshedProperties ==
  ASSUME NEW st \in [Stages -> Status]
  PROVE  /\ Refreshed(st) \in [Stages -> Status]
         /\ \A s \in Stages : /\ Refreshed(st)[s] \in Terminal <=> st[s] \in Terminal
                              /\ Refreshed(st)[s] \in Satisfying <=> st[s] \in Satisfying
         /\ \A s \in Stages : DependenciesSatisfied(Refreshed(st), s)
                                <=> DependenciesSatisfied(st, s)
         /\ \A s \in Stages : Refreshed(st)[s] = "PENDING"
                                <=> st[s] = "PENDING" /\ ~DependenciesSatisfied(st, s)
<1> DEFINE new == Refreshed(st)
<1>1. \A s \in Stages : new[s] = IF st[s] = "PENDING" /\ DependenciesSatisfied(st, s)
                                   THEN "READY" ELSE st[s]
  BY DEF Refreshed
<1>2. new \in [Stages -> Status]
  BY <1>1 DEF Refreshed, Status
<1>3. \A s \in Stages : /\ new[s] \in Terminal <=> st[s] \in Terminal
                        /\ new[s] \in Satisfying <=> st[s] \in Satisfying
  BY <1>1 DEF Terminal, Satisfying
<1>4. \A s \in Stages : Deps[s] \subseteq Stages
  BY GraphAssumption
<1>5. \A s \in Stages : DependenciesSatisfied(new, s) <=> DependenciesSatisfied(st, s)
  BY <1>3, <1>4 DEF DependenciesSatisfied
<1>6. \A s \in Stages : new[s] = "PENDING"
                          <=> st[s] = "PENDING" /\ ~DependenciesSatisfied(st, s)
  BY <1>1
<1> QED BY <1>2, <1>3, <1>5, <1>6

\* The events refresh_ready appends are events.
LEMMA ReadyEventsType ==
  ASSUME NEW st
  PROVE  ReadyEvents(st) \in SUBSET Event
BY DEF ReadyEvents, StageEvent, Event

\* A created run is typed.
LEMMA TypeOKInit == Init => TypeOK
BY DEF Init, TypeOK, InitialStatus, Status, Terminal, Satisfying, Directions

\* Every transaction keeps the rows, the occurrences and the events typed.
LEMMA TypeOKNext == TypeOK /\ [Next]_vars => TypeOK'
<1> SUFFICES ASSUME TypeOK, [Next]_vars
             PROVE  TypeOK'
  OBVIOUS
<1> DEFINE Rows(st) == st \in [Stages -> Status]
           Occurrences(table) == table \in [Stages -> [Directions -> Seq(Artifact)]]
<1>0. Rows(status) /\ Occurrences(artifacts) /\ ledger \in Seq(SUBSET Event)
  BY DEF TypeOK
<1>a. ASSUME NEW st, NEW events \in SUBSET Event, Rows(st), Transition(st, events),
             Occurrences(artifacts')
      PROVE  TypeOK'
  BY <1>a, <1>0 DEF TypeOK, Transition
<1>1. ASSUME NEW s \in Stages, Start(s)
      PROVE  TypeOK'
  <2>1. {StageEvent("STARTED", s)} \in SUBSET Event
    BY DEF StageEvent, Event
  <2>2. Rows([status EXCEPT ![s] = "RUNNING"])
    BY <1>0 DEF Status
  <2> QED BY <1>a, <1>1, <2>1, <2>2, <1>0 DEF Start
<1>2. ASSUME NEW s \in Stages, Pause(s)
      PROVE  TypeOK'
  <2>1. {StageEvent("WAITING_FOR_USER", s)} \in SUBSET Event
    BY DEF StageEvent, Event
  <2>2. Rows([status EXCEPT ![s] = "WAITING_FOR_USER"])
    BY <1>0 DEF Status
  <2> QED BY <1>a, <1>2, <2>1, <2>2, <1>0 DEF Pause
<1>3. ASSUME NEW s \in Stages, Resume(s)
      PROVE  TypeOK'
  <2>1. {StageEvent("RESUMED", s)} \in SUBSET Event
    BY DEF StageEvent, Event
  <2>2. Rows([status EXCEPT ![s] = "RUNNING"])
    BY <1>0 DEF Status
  <2> QED BY <1>a, <1>3, <2>1, <2>2, <1>0 DEF Resume
<1>4. ASSUME NEW s \in Stages, NEW d \in Directions, NEW a \in Artifact, Register(s, d, a)
      PROVE  TypeOK'
  <2>1. Len(artifacts[s][d]) \in Nat /\ <<a>> \in Seq(Artifact)
    BY <1>0
  <2>2. {Registered(s, d, <<a>>)} \in SUBSET Event
    BY <2>1 DEF Registered, Event
  <2>3. Occurrences([artifacts EXCEPT ![s][d] = Append(@, a)])
    BY <1>0
  <2> QED BY <1>a, <1>4, <2>2, <2>3, <1>0 DEF Register
<1>5. ASSUME NEW s \in Stages, NEW bundle \in Bundles, Commit(s, bundle)
      PROVE  TypeOK'
  <2> DEFINE done == [status EXCEPT ![s] = "PASS"]
  <2>1. Rows(done)
    BY <1>0 DEF Status, Terminal, Satisfying
  <2>2. Rows(Refreshed(done))
    BY <2>1, RefreshedProperties
  <2>3. bundle \in Seq(Artifact)
    BY DEF Bundles
  <2>4. Len(artifacts[s]["OUTPUT"]) \in Nat
    BY <1>0 DEF Directions
  <2>5. {Registered(s, "OUTPUT", bundle), Completed(s, "PASS")} \in SUBSET Event
    BY <2>3, <2>4 DEF Registered, Completed, Event, Directions, Terminal, Satisfying
  <2>6. Occurrences([artifacts EXCEPT ![s]["OUTPUT"] = @ \o bundle])
    <3>1. artifacts[s]["OUTPUT"] \in Seq(Artifact)
      BY <1>0 DEF Directions
    <3>2. artifacts[s]["OUTPUT"] \o bundle \in Seq(Artifact)
      BY <2>3, <3>1, ConcatProperties
    <3> QED BY <1>0, <3>2 DEF Directions
  <2>7. {Registered(s, "OUTPUT", bundle), Completed(s, "PASS")} \cup ReadyEvents(done)
          \in SUBSET Event
    BY <2>5, ReadyEventsType
  <2> HIDE DEF done
  <2>8. /\ Transition(Refreshed(done), {Registered(s, "OUTPUT", bundle), Completed(s, "PASS")}
                                         \cup ReadyEvents(done))
        /\ artifacts' = [artifacts EXCEPT ![s]["OUTPUT"] = @ \o bundle]
    BY <1>5 DEF Commit, done
  <2> QED BY <1>a, <2>2, <2>6, <2>7, <2>8
<1>6. ASSUME NEW s \in Stages, NEW outcome, Complete(s, outcome)
      PROVE  TypeOK'
  <2> DEFINE done == [status EXCEPT ![s] = outcome]
  <2>1. outcome \in Terminal
    BY <1>6 DEF Complete
  <2>2. Rows(done)
    BY <1>0, <2>1 DEF Status
  <2>3. Rows(Refreshed(done))
    BY <2>2, RefreshedProperties
  <2>4. {Completed(s, outcome)} \in SUBSET Event
    BY <2>1 DEF Completed, Event
  <2>5. {Completed(s, outcome)} \cup ReadyEvents(done) \in SUBSET Event
    BY <2>4, ReadyEventsType
  <2> HIDE DEF done
  <2>6. /\ Transition(Refreshed(done), {Completed(s, outcome)} \cup ReadyEvents(done))
        /\ artifacts' = artifacts
    BY <1>6 DEF Complete, done
  <2> QED BY <1>a, <1>0, <2>3, <2>5, <2>6
<1>7. ASSUME NEW s \in Stages, NEW t \in Stages, NEW p \in Progress \cup {NoProgress},
             Retry(s, t, p)
      PROVE  TypeOK'
  <2> DEFINE st == [x \in Stages |-> IF x \in Descendants[s] THEN ResetStatus(x, s)
                                     ELSE status[x]]
             retried(x) == [type |-> "RETRIED", stage |-> x, status |-> ResetStatus(x, s),
                            root |-> s, trigger |-> t, boundaries |-> NextOrdinals(x),
                            fingerprints |-> {FingerprintOf(s, t, p)}]
  <2>1. Rows(st)
    BY <1>0 DEF ResetStatus, Status
  <2>2. \A x \in Stages : NextOrdinals(x) \in Boundaries
    BY <1>0 DEF NextOrdinals, Boundaries
  <2>3. {FingerprintOf(s, t, p)} \in SUBSET Fingerprint
    BY FingerprintType
  <2>4. \A x \in Stages : ResetStatus(x, s) \in {"READY", "PENDING"}
    BY DEF ResetStatus
  <2>5. \A x \in Stages : retried(x) \in Event
    BY <2>2, <2>3, <2>4 DEF Event
  <2>6. {retried(x) : x \in Descendants[s]} \in SUBSET Event
    BY <2>5, DescendantsProperties
  <2>7. Transition(st, {retried(x) : x \in Descendants[s]}) /\ artifacts' = artifacts
    BY <1>7 DEF Retry
  <2> HIDE DEF st, retried
  <2> QED BY <1>a, <1>0, <2>1, <2>6, <2>7
<1>8. ASSUME NEW s \in Stages, Reopen(s)
      PROVE  TypeOK'
  <2>1. NextOrdinals(s) \in Boundaries
    BY <1>0 DEF NextOrdinals, Boundaries
  <2>2. {[type |-> "RETRIED", stage |-> s, status |-> "READY", root |-> s,
          trigger |-> s, boundaries |-> NextOrdinals(s), fingerprints |-> {}]} \in SUBSET Event
    BY <2>1 DEF Event
  <2>3. Rows([status EXCEPT ![s] = "READY"])
    BY <1>0 DEF Status
  <2> QED BY <1>a, <1>8, <2>2, <2>3, <1>0 DEF Reopen
<1>9. CASE UNCHANGED vars
  BY <1>9, <1>0 DEF TypeOK, vars
<1> QED BY <1>1, <1>2, <1>3, <1>4, <1>5, <1>6, <1>7, <1>8, <1>9
        DEF Next, RetryExhausted, RetryAcrossPhases

\* The tables and the ledger stay within their types, whatever the workflow:
\* every event a transaction appends has the fields its readers rely on.
THEOREM TypeCorrect == Spec => []TypeOK
<1>1. Init => TypeOK
  BY TypeOKInit
<1>2. TypeOK /\ [Next]_vars => TypeOK'
  BY TypeOKNext
<1> QED BY <1>1, <1>2, PTL DEF Spec

-----------------------------------------------------------------------------
(* Dependencies.                                                           *)

\* What any step does to the stage rows: nothing; move one row that is not
\* PENDING and satisfies nobody to another such status; end a running stage and
\* refresh; or pull a passed stage and its descendants back.
Moved(s, v) ==
  /\ status[s] \notin {"PENDING"} \cup Satisfying
  /\ v \in Status \ ({"PENDING"} \cup Terminal)
  /\ status' = [status EXCEPT ![s] = v]

Ended(s, v) ==
  /\ status[s] = "RUNNING"
  /\ v \in Terminal
  /\ status' = Refreshed([status EXCEPT ![s] = v])

PulledBack(s) ==
  /\ status[s] = "PASS"
  /\ status' = [x \in Stages |-> IF x \in Descendants[s] THEN ResetStatus(x, s) ELSE status[x]]

\* What a transaction may do to the stage rows: move one row along, end one row
\* and release what waits for it, or repair.
LEMMA NextSteps ==
  ASSUME Next
  PROVE  \/ status' = status
         \/ \E s \in Stages, v \in Status : Moved(s, v) \/ Ended(s, v)
         \/ \E s, t \in Stages, p \in Progress \cup {NoProgress} : Retry(s, t, p)
<1> USE DEF Transition
<1>1. ASSUME NEW s \in Stages, Start(s) \/ Resume(s)
      PROVE  Moved(s, "RUNNING")
  BY <1>1 DEF Start, Resume, Moved, Status, Terminal, Satisfying
<1>2. ASSUME NEW s \in Stages, Pause(s)
      PROVE  Moved(s, "WAITING_FOR_USER")
  BY <1>2 DEF Pause, Moved, Status, Terminal, Satisfying
<1>3. ASSUME NEW s \in Stages, Reopen(s)
      PROVE  Moved(s, "READY")
  BY <1>3 DEF Reopen, Moved, Status, Terminal, Satisfying
<1>4. ASSUME NEW s \in Stages, NEW bundle, Commit(s, bundle)
      PROVE  Ended(s, "PASS")
  BY <1>4 DEF Commit, Ended, Terminal, Satisfying
<1>5. ASSUME NEW s \in Stages, NEW outcome, Complete(s, outcome)
      PROVE  Ended(s, outcome) /\ outcome \in Status
  BY <1>5 DEF Complete, Ended, Status
<1>6. ASSUME NEW s, NEW d, NEW a, Register(s, d, a)
      PROVE  status' = status
  BY <1>6 DEF Register
<1>7. {"RUNNING", "WAITING_FOR_USER", "READY", "PASS"} \subseteq Status
  BY DEF Status, Terminal, Satisfying
<1> QED BY <1>1, <1>2, <1>3, <1>4, <1>5, <1>6, <1>7 DEF Next, RetryExhausted, RetryAcrossPhases

\* In short, with steps that change nothing.
LEMMA StatusSteps ==
  ASSUME [Next]_vars
  PROVE  \/ status' = status
         \/ \E s \in Stages, v \in Status : Moved(s, v) \/ Ended(s, v)
         \/ \E s \in Stages : PulledBack(s)
<1>1. ASSUME NEW s \in Stages, NEW t, NEW p, Retry(s, t, p)
      PROVE  PulledBack(s)
  BY <1>1 DEF Retry, RetryTouches, PulledBack, Transition
<1>2. CASE UNCHANGED vars
  BY <1>2 DEF vars
<1> QED BY <1>1, <1>2, NextSteps

\* At first only stages without dependencies have left PENDING.
LEMMA DependenciesHoldInit == Init => DependenciesHold
<1> SUFFICES ASSUME Init, NEW s \in Stages, status[s] # "PENDING", NEW d \in Deps[s]
             PROVE  FALSE
  BY DEF DependenciesHold
<1> QED BY DEF Init, InitialStatus

\* Releases look at the dependencies, and a reset withdraws with a result every
\* stage that rests on it.
LEMMA DependenciesHoldNext ==
  TypeOK /\ DependenciesHold /\ [Next]_vars => DependenciesHold'
<1> SUFFICES ASSUME TypeOK, DependenciesHold, [Next]_vars,
                    NEW x \in Stages \ AcceptFailed, status'[x] # "PENDING", NEW d \in Deps[x]
             PROVE  status'[d] \in Satisfying
  BY DEF DependenciesHold
<1>1. status \in [Stages -> Status] /\ d \in Stages
  BY GraphAssumption DEF TypeOK
<1>2. status[x] # "PENDING" => status[d] \in Satisfying
  BY DEF DependenciesHold
<1>3. CASE status' = status
  BY <1>2, <1>3
<1>4. ASSUME NEW s \in Stages, NEW v \in Status, Moved(s, v)
      PROVE  status'[d] \in Satisfying
  BY <1>1, <1>2, <1>4 DEF Moved
<1>5. ASSUME NEW s \in Stages, NEW v \in Status, Ended(s, v)
      PROVE  status'[d] \in Satisfying
  <2> DEFINE done == [status EXCEPT ![s] = v]
  <2>1. done \in [Stages -> Status]
    BY <1>1
  <2>2. done[d] \in Satisfying
    <3>1. CASE done[x] = "PENDING"
      <4>1. DependenciesSatisfied(done, x)
        BY <1>5, <2>1, <3>1, RefreshedProperties DEF Ended
      <4> QED BY <4>1 DEF DependenciesSatisfied
    <3>2. CASE done[x] # "PENDING"
      <4>1. status[x] # "PENDING"
        BY <1>1, <1>5, <3>2 DEF Ended
      <4>2. status[d] \in Satisfying /\ d # s
        BY <1>2, <1>5, <4>1 DEF Ended, Satisfying
      <4> QED BY <1>1, <4>2
    <3> QED BY <3>1, <3>2
  <2> QED BY <1>1, <1>5, <2>1, <2>2, RefreshedProperties DEF Ended
<1>6. ASSUME NEW s \in Stages, PulledBack(s)
      PROVE  status'[d] \in Satisfying
  <2>1. d \notin Descendants[s]
    <3>1. CASE x = s
      <4>1. ~(s <= d)
        BY <1>1, <3>1, GraphAssumption
      <4> QED BY <4>1, DescendantsProperties
    <3>2. CASE x # s
      <4>1. x \notin Descendants[s]
        BY <1>6, <3>2 DEF PulledBack, ResetStatus
      <4> QED BY <4>1, DescendantsProperties
    <3> QED BY <3>1, <3>2
  <2>2. status'[d] = status[d] /\ status[x] # "PENDING"
    BY <1>1, <1>6, <2>1 DEF PulledBack, ResetStatus
  <2> QED BY <1>2, <2>2
<1> QED BY <1>3, <1>4, <1>5, <1>6, StatusSteps

\* In every workflow a stage leaves PENDING only over satisfied dependencies
\* and never keeps going when a repair has withdrawn one.
THEOREM DependenciesAlwaysHold == Spec => []DependenciesHold
<1>1. Init => TypeOK /\ DependenciesHold
  BY TypeOKInit, DependenciesHoldInit
<1>2. TypeOK /\ DependenciesHold /\ [Next]_vars => TypeOK' /\ DependenciesHold'
  BY TypeOKNext, DependenciesHoldNext
<1> QED BY <1>1, <1>2, PTL DEF Spec

\* At first a PENDING stage has a dependency, and nothing is satisfied.
LEMMA NoStageForgottenInit == Init => NoStageForgotten
<1> SUFFICES ASSUME Init, NEW s \in Stages, status[s] = "PENDING"
             PROVE  ~DependenciesSatisfied(status, s)
  BY DEF NoStageForgotten
<1>1. PICK d \in Deps[s] : d \in Stages
  BY GraphAssumption DEF Init, InitialStatus
<1>2. status[d] \in {"READY", "PENDING"}
  BY <1>1 DEF Init, InitialStatus
<1> QED BY <1>1, <1>2 DEF DependenciesSatisfied, Terminal, Satisfying

\* A row that becomes satisfied does so in a transaction that refreshes, and a
\* reset leaves each of its PENDING rows over a dependency that is not satisfied.
LEMMA NoStageForgottenNext ==
  TypeOK /\ NoStageForgotten /\ [Next]_vars => NoStageForgotten'
<1> SUFFICES ASSUME TypeOK, NoStageForgotten, [Next]_vars,
                    NEW x \in Stages, status'[x] = "PENDING"
             PROVE  ~DependenciesSatisfied(status', x)
  BY DEF NoStageForgotten
<1>1. status \in [Stages -> Status] /\ Deps[x] \subseteq Stages
  BY GraphAssumption DEF TypeOK
<1>2. status[x] = "PENDING" => ~DependenciesSatisfied(status, x)
  BY DEF NoStageForgotten
<1>3. CASE status' = status
  BY <1>2, <1>3
<1>4. ASSUME NEW s \in Stages, NEW v \in Status, Moved(s, v)
      PROVE  ~DependenciesSatisfied(status', x)
  <2>1. status[x] = "PENDING"
    BY <1>1, <1>4 DEF Moved
  <2>2. \A d \in Stages : /\ status'[d] \in Terminal => status[d] \in Terminal
                          /\ status'[d] \in Satisfying => status[d] \in Satisfying
    BY <1>1, <1>4 DEF Moved, Terminal
  <2> QED BY <1>1, <1>2, <2>1, <2>2 DEF DependenciesSatisfied
<1>5. ASSUME NEW s \in Stages, NEW v \in Status, Ended(s, v)
      PROVE  ~DependenciesSatisfied(status', x)
  <2> DEFINE done == [status EXCEPT ![s] = v]
  <2>1. done \in [Stages -> Status]
    BY <1>1
  <2>2. status' = Refreshed(done)
    BY <1>5 DEF Ended
  <2> HIDE DEF done
  <2> QED BY <2>1, <2>2, RefreshedProperties
<1>6. ASSUME NEW s \in Stages, PulledBack(s)
      PROVE  ~DependenciesSatisfied(status', x)
  <2>1. \A d \in Stages :
           /\ d \in Descendants[s] => status'[d] \in {"READY", "PENDING"}
           /\ d \notin Descendants[s] => status'[d] = status[d]
    BY <1>6 DEF PulledBack, ResetStatus
  <2>2. CASE x \in Descendants[s]
    <3>1. x # s
      BY <1>6, <2>2 DEF PulledBack, ResetStatus
    <3>2. PICK d \in Deps[x] : d \in Descendants[s]
      BY <2>2, <3>1, DescendantsProperties
    <3>3. status'[d] \notin Terminal
      BY <1>1, <2>1, <3>2 DEF Terminal, Satisfying
    <3> QED BY <3>2, <3>3 DEF DependenciesSatisfied, Terminal
  <2>3. CASE x \notin Descendants[s]
    <3>1. \A d \in Deps[x] : status'[d] = status[d]
      BY <1>1, <2>1, <2>3, DescendantsProperties
    <3>2. status[x] = "PENDING"
      BY <2>1, <2>3
    <3> QED BY <1>2, <3>1, <3>2 DEF DependenciesSatisfied
  <2> QED BY <2>2, <2>3
<1> QED BY <1>3, <1>4, <1>5, <1>6, StatusSteps

\* No completion, reset or reopening leaves a stage PENDING whose dependencies
\* are satisfied: refresh_ready needs no other caller.
THEOREM NoStageIsForgotten == Spec => []NoStageForgotten
<1>1. Init => TypeOK /\ NoStageForgotten
  BY TypeOKInit, NoStageForgottenInit
<1>2. TypeOK /\ NoStageForgotten /\ [Next]_vars => TypeOK' /\ NoStageForgotten'
  BY TypeOKNext, NoStageForgottenNext
<1> QED BY <1>1, <1>2, PTL DEF Spec

-----------------------------------------------------------------------------
(* What a transaction appends.                                             *)

\* Some of these events is about s and of one of these types.
Concerns(events, s, types) == \E e \in events : e.stage = s /\ e.type \in types

\* The transactions about a stage, after one more.
LEMMA CommitsAppended ==
  ASSUME ledger \in Seq(SUBSET Event), NEW events, ledger' = Append(ledger, events),
         NEW s, NEW types
  PROVE  Commits(s, types)' =
           Commits(s, types) \cup IF Concerns(events, s, types) THEN {Len(ledger) + 1} ELSE {}
<1>1. /\ Len(ledger) \in Nat /\ DOMAIN ledger = 1 .. Len(ledger)
      /\ DOMAIN ledger' = 1 .. Len(ledger) + 1
      /\ ledger'[Len(ledger) + 1] = events
      /\ \A i \in DOMAIN ledger : ledger'[i] = ledger[i]
  OBVIOUS
<1> QED BY <1>1 DEF Commits, Concerns

\* What is read of a stage is an event of the new transaction if one is about it, and what was
\* read before if not.
LEMMA LatestAppended ==
  ASSUME ledger \in Seq(SUBSET Event), NEW events, ledger' = Append(ledger, events),
         NEW s, NEW types
  PROVE  /\ Concerns(events, s, types) =>
              /\ Commits(s, types)' # {}
              /\ Latest(s, types)' \in events
              /\ Latest(s, types)'.stage = s
              /\ Latest(s, types)'.type \in types
         /\ ~Concerns(events, s, types) =>
              /\ Commits(s, types)' = Commits(s, types)
              /\ Commits(s, types) # {} => Latest(s, types)' = Latest(s, types)
<1> DEFINE last == CHOOSE i \in Commits(s, types) : \A j \in Commits(s, types) : j <= i
           about(e) == e.stage = s /\ e.type \in types
<1>1. /\ Len(ledger) \in Nat /\ DOMAIN ledger = 1 .. Len(ledger)
      /\ ledger'[Len(ledger) + 1] = events
      /\ \A i \in DOMAIN ledger : ledger'[i] = ledger[i]
  OBVIOUS
<1>2. /\ Commits(s, types) \in SUBSET (1 .. Len(ledger))
      /\ Commits(s, types)' =
           Commits(s, types) \cup IF Concerns(events, s, types) THEN {Len(ledger) + 1} ELSE {}
  BY <1>1, CommitsAppended DEF Commits
<1>3. ASSUME Concerns(events, s, types)
      PROVE  /\ Commits(s, types)' # {} /\ Latest(s, types)' \in events
             /\ about(Latest(s, types)')
  <2>1. last' = CHOOSE i \in Commits(s, types)' : \A j \in Commits(s, types)' : j <= i
    OBVIOUS
  <2>2. Len(ledger) + 1 \in Commits(s, types)' /\ \A j \in Commits(s, types)' : j <= Len(ledger) + 1
    BY <1>1, <1>2, <1>3
  <2>3. last' \in Commits(s, types)' /\ \A j \in Commits(s, types)' : j <= last'
    BY <2>1, <2>2
  <2>4. last' = Len(ledger) + 1
    BY <1>1, <1>2, <2>2, <2>3
  <2>5. Latest(s, types)' = CHOOSE e \in ledger'[last'] : about(e)
    BY DEF Latest
  <2>6. Latest(s, types)' = CHOOSE e \in events : about(e)
    BY <1>1, <2>4, <2>5
  <2>7. \E e \in events : about(e)
    BY <1>3 DEF Concerns
  <2> QED BY <2>2, <2>6, <2>7
<1>4. ASSUME ~Concerns(events, s, types), Commits(s, types) # {}
      PROVE  Latest(s, types)' = Latest(s, types)
  <2>1. Commits(s, types)' = Commits(s, types)
    BY <1>2, <1>4
  <2>2. last' = last
    BY <2>1
  <2>3. \E i \in Commits(s, types) : \A j \in Commits(s, types) : j <= i
    <3>1. ASSUME NEW T \in SUBSET (1 .. Len(ledger)), T # {}
          PROVE  \E i \in T : \A j \in T : j <= i
      <4>1. T \in SUBSET Nat /\ \A i \in T : i <= Len(ledger)
        BY <1>1
      <4> QED BY <1>1, <3>1, <4>1, GreatestNatural
    <3> QED BY <1>2, <1>4, <3>1
  <2>4. last \in DOMAIN ledger
    BY <1>1, <1>2, <2>3
  <2>5. ledger'[last'] = ledger[last]
    BY <1>1, <2>2, <2>4
  <2>6. Latest(s, types)' = CHOOSE e \in ledger'[last'] : about(e)
    BY DEF Latest
  <2>7. Latest(s, types) = CHOOSE e \in ledger[last] : about(e)
    BY DEF Latest
  <2> QED BY <2>5, <2>6, <2>7
<1> QED BY <1>2, <1>3, <1>4

\* The status events a transaction has about a stage agree with what it does to the row.
FollowedBy(events, s) ==
  /\ \A e \in events : e.stage = s /\ e.type \in StatusTypes => StatusAfter(e) = status'[s]
  /\ ~Concerns(events, s, StatusTypes) => status'[s] = status[s]

\* A row that is to start again was reset, one that no longer is has been started.
Idle == {"PENDING", "READY"}

Turns(events, s) ==
  /\ status'[s] \in Idle => status[s] \in Idle \/ Concerns(events, s, {"RETRIED"})
  /\ status'[s] \notin Idle => status[s] \notin Idle \/ Concerns(events, s, {"STARTED"})

\* What it registers of a stage is what it appends to the occurrences of a running one.
Registrations(events, s, d) ==
  {e \in events : e.type = "REGISTERED" /\ e.stage = s /\ e.direction = d}

Writes(events, s, d) ==
  \/ /\ Registrations(events, s, d) = {}
     /\ artifacts'[s][d] = artifacts[s][d]
  \/ \E items \in Seq(Artifact) :
       /\ Registrations(events, s, d) = {Registered(s, d, items)}
       /\ artifacts'[s][d] = artifacts[s][d] \o items
       /\ status[s] \notin Idle /\ status'[s] \notin Idle

\* A reset draws the line at the occurrences there are, and a repair is one not asked for before.
Resets(e) ==
  /\ e.boundaries = NextOrdinals(e.stage)
  /\ artifacts' = artifacts
  /\ status'[e.stage] \in Idle
  /\ e.stage = e.root /\ e.fingerprints # {} =>
       \E progress \in Progress \cup {NoProgress} :
         /\ e.fingerprints = {FingerprintOf(e.root, e.trigger, progress)}
         /\ ~Exhausted(e.root, e.trigger, progress)

Transacts(events) ==
  /\ ledger' = Append(ledger, events)
  /\ \A s \in Stages : /\ FollowedBy(events, s)
                       /\ Turns(events, s)
                       /\ \A d \in Directions : Writes(events, s, d)
  /\ \A e \in events : /\ e.type = "RETRIED" => Resets(e)
                       /\ e.type = "STARTED" => Start(e.stage)

\* A row that refresh_ready releases was pending.
LEMMA Released ==
  ASSUME NEW st, NEW e \in ReadyEvents(st)
  PROVE  /\ e.type = "READY" /\ e.stage \in Stages
         /\ st[e.stage] = "PENDING" /\ Refreshed(st)[e.stage] = "READY"
BY DEF ReadyEvents, StageEvent, Refreshed

\* And every row it changes has an event.
LEMMA ReleasesFollow ==
  ASSUME NEW st, NEW s \in Stages
  PROVE  IF \E e \in ReadyEvents(st) : e.stage = s
         THEN st[s] = "PENDING" /\ Refreshed(st)[s] = "READY"
         ELSE Refreshed(st)[s] = st[s]
<1>1. CASE st[s] = Refreshed(st)[s]
  <2>1. \A e \in ReadyEvents(st) : e.stage # s
    BY <1>1 DEF ReadyEvents, StageEvent
  <2> QED BY <1>1, <2>1
<1>2. CASE st[s] # Refreshed(st)[s]
  <2>1. StageEvent("READY", s) \in ReadyEvents(st) /\ StageEvent("READY", s).stage = s
    BY <1>2 DEF ReadyEvents, StageEvent
  <2> QED BY <2>1, <1>2 DEF Refreshed
<1> QED BY <1>1, <1>2

\* A transaction with one event about one row, which registers nothing.
LEMMA MovesOne ==
  ASSUME TypeOK, NEW s \in Stages, NEW type \in {"STARTED", "WAITING_FOR_USER", "RESUMED"},
         NEW v, v = StatusAfter(StageEvent(type, s)),
         Transition([status EXCEPT ![s] = v], {StageEvent(type, s)}), UNCHANGED artifacts,
         status[s] \in Idle => type = "STARTED", type = "STARTED" => Start(s)
  PROVE  Transacts({StageEvent(type, s)})
<1> DEFINE e == StageEvent(type, s)
<1>1. e.type = type /\ e.stage = s /\ type \in StatusTypes /\ type \notin {"REGISTERED", "RETRIED"}
  BY DEF StageEvent, StatusTypes
<1>2. v \in {"RUNNING", "WAITING_FOR_USER"}
  BY <1>1 DEF StatusAfter
<1>3. status'[s] = v /\ \A x \in Stages : x # s => status'[x] = status[x]
  BY DEF TypeOK, Transition
<1>4. \A x, types : Concerns({e}, x, types) <=> x = s /\ type \in types
  BY <1>1 DEF Concerns
<1> HIDE DEF e
<1>5. ASSUME NEW x \in Stages
      PROVE  FollowedBy({e}, x) /\ Turns({e}, x) /\ \A d \in Directions : Writes({e}, x, d)
  BY <1>1, <1>2, <1>3, <1>4 DEF e, FollowedBy, Turns, Writes, Registrations, Idle
<1> QED BY <1>1, <1>5 DEF Transacts, Transition, e

\* A transaction that ends a running stage, with what it registers.
LEMMA EndsOne ==
  ASSUME TypeOK, NEW s \in Stages, status[s] = "RUNNING", NEW v \in Terminal,
         NEW items \in SUBSET Event, \A e \in items : e.type = "REGISTERED",
         NEW done, done = [status EXCEPT ![s] = v],
         Transition(Refreshed(done), items \cup {Completed(s, v)} \cup ReadyEvents(done)),
         \A x \in Stages, d \in Directions : Writes(items, x, d)
  PROVE  Transacts(items \cup {Completed(s, v)} \cup ReadyEvents(done))
<1> DEFINE events == items \cup {Completed(s, v)} \cup ReadyEvents(done)
<1>1. /\ done[s] = v /\ \A x \in Stages : x # s => done[x] = status[x]
      /\ done \in [Stages -> Status] /\ v \notin Idle
  BY DEF TypeOK, Status, Terminal, Satisfying, Idle
<1>2. status' = Refreshed(done)
  BY DEF Transition
<1>3. \A x \in Stages : IF \E e \in ReadyEvents(done) : e.stage = x
                        THEN done[x] = "PENDING" /\ status'[x] = "READY"
                        ELSE status'[x] = done[x]
  BY <1>2, ReleasesFollow
<1>4. \A e \in ReadyEvents(done) : e.type = "READY" /\ done[e.stage] = "PENDING"
  BY Released
<1>5. Completed(s, v).type = "COMPLETED" /\ Completed(s, v).stage = s /\ Completed(s, v).outcome = v
  BY DEF Completed
<1>6. status'[s] = v
  BY <1>1, <1>3 DEF Idle
<1>7. \A e \in events : \/ e \in items /\ e.type = "REGISTERED"
                        \/ e = Completed(s, v)
                        \/ e \in ReadyEvents(done) /\ e.type = "READY" /\ e.stage # s
  BY <1>1, <1>4 DEF Idle
<1>8. Completed(s, v) \in events /\ ReadyEvents(done) \subseteq events
  OBVIOUS
<1> HIDE DEF events
<1>9. ASSUME NEW x \in Stages
      PROVE  FollowedBy(events, x)
  <2>1. ASSUME NEW e \in events, e.stage = x, e.type \in StatusTypes
        PROVE  StatusAfter(e) = status'[x]
    <3>1. CASE e = Completed(s, v)
      BY <2>1, <3>1, <1>5, <1>6 DEF StatusAfter
    <3>2. CASE e \in ReadyEvents(done)
      BY <2>1, <3>2, <1>3, <1>4 DEF StatusAfter
    <3> QED BY <2>1, <3>1, <3>2, <1>7 DEF StatusTypes
  <2>2. ASSUME ~Concerns(events, x, StatusTypes)
        PROVE  status'[x] = status[x]
    <3>1. x # s
      BY <2>2, <1>5, <1>8 DEF Concerns, StatusTypes
    <3>2. ~\E e \in ReadyEvents(done) : e.stage = x
      BY <2>2, <1>4, <1>8 DEF Concerns, StatusTypes
    <3> QED BY <3>1, <3>2, <1>1, <1>3
  <2> QED BY <2>1, <2>2 DEF FollowedBy
<1>10. ASSUME NEW x \in Stages
       PROVE  Turns(events, x)
  BY <1>1, <1>3, <1>6 DEF Turns, Idle
<1>11. ASSUME NEW x \in Stages, NEW d \in Directions
       PROVE  Writes(events, x, d)
  <2>1. Registrations(events, x, d) = Registrations(items, x, d)
    BY <1>5, <1>7 DEF Registrations, events
  <2> QED BY <2>1 DEF Writes
<1>12. \A e \in events : e.type \notin {"RETRIED", "STARTED"}
  BY <1>5, <1>7
<1> QED BY <1>9, <1>10, <1>11, <1>12 DEF Transacts, Transition, events

\* A transaction that resets some rows and registers nothing.
LEMMA ResetsSome ==
  ASSUME TypeOK, NEW S \in SUBSET Stages, NEW st, NEW events,
         \A e \in events : /\ e.type = "RETRIED" /\ e.stage \in S
                           /\ e.status = st[e.stage] /\ e.status \in Idle,
         \A x \in S : \E e \in events : e.stage = x,
         \A x \in Stages \ S : st[x] = status[x],
         Transition(st, events), UNCHANGED artifacts,
         \A e \in events : Resets(e)
  PROVE  Transacts(events)
<1>1. status' = st
  BY DEF Transition
<1>2. ASSUME NEW x \in Stages
      PROVE  FollowedBy(events, x)
  BY <1>1 DEF FollowedBy, Concerns, StatusAfter, StatusTypes
<1>3. ASSUME NEW x \in Stages
      PROVE  Turns(events, x)
  BY <1>1 DEF Turns, Concerns
<1>4. ASSUME NEW x \in Stages, NEW d \in Directions
      PROVE  Writes(events, x, d)
  BY DEF Writes, Registrations
<1> QED BY <1>2, <1>3, <1>4 DEF Transacts, Transition

\* Every transaction is one of these.
LEMMA Transactions ==
  ASSUME TypeOK, Next
  PROVE  \E events \in SUBSET Event : Transacts(events)
<1>0. ledger' \in Seq(SUBSET Event) /\ ledger \in Seq(SUBSET Event)
  BY TypeOKNext DEF TypeOK
<1>a. ASSUME NEW events, Transacts(events)
      PROVE  events \in SUBSET Event
  <2>1. ledger' = Append(ledger, events)
    BY <1>a DEF Transacts
  <2>2. ledger'[Len(ledger')] = events /\ Len(ledger') \in DOMAIN ledger'
    BY <2>1, <1>0
  <2> QED BY <2>2, <1>0
<1>1. ASSUME NEW s \in Stages, Start(s)
      PROVE  Transacts({StageEvent("STARTED", s)})
  <2>1. StatusAfter(StageEvent("STARTED", s)) = "RUNNING"
    BY DEF StatusAfter, StageEvent
  <2> QED BY <1>1, <2>1, MovesOne DEF Start
<1>2. ASSUME NEW s \in Stages, Pause(s)
      PROVE  Transacts({StageEvent("WAITING_FOR_USER", s)})
  <2>1. StatusAfter(StageEvent("WAITING_FOR_USER", s)) = "WAITING_FOR_USER"
    BY DEF StatusAfter, StageEvent
  <2> QED BY <1>2, <2>1, MovesOne DEF Pause, Idle
<1>3. ASSUME NEW s \in Stages, Resume(s)
      PROVE  Transacts({StageEvent("RESUMED", s)})
  <2>1. StatusAfter(StageEvent("RESUMED", s)) = "RUNNING"
    BY DEF StatusAfter, StageEvent
  <2> QED BY <1>3, <2>1, MovesOne DEF Resume, Idle
<1>4. ASSUME NEW s \in Stages, NEW d \in Directions, NEW a \in Artifact, Register(s, d, a)
      PROVE  Transacts({Registered(s, d, <<a>>)})
  <2> DEFINE e == Registered(s, d, <<a>>)
  <2>1. e.type = "REGISTERED" /\ e.stage = s /\ e.direction = d
    BY DEF Registered
  <2>2. artifacts[s][d] \in Seq(Artifact) /\ <<a>> \in Seq(Artifact)
    BY DEF TypeOK
  <2>3. Append(artifacts[s][d], a) = artifacts[s][d] \o <<a>>
    BY <2>2
  <2>4. /\ status' = status /\ status[s] = "RUNNING"
        /\ ledger' = Append(ledger, {e})
        /\ artifacts' = [artifacts EXCEPT ![s][d] = Append(@, a)]
    BY <1>4 DEF Register, Transition
  <2>5. /\ artifacts'[s][d] = artifacts[s][d] \o <<a>>
        /\ \A x \in Stages, c \in Directions : <<x, c>> # <<s, d>> => artifacts'[x][c] = artifacts[x][c]
    BY <2>3, <2>4 DEF TypeOK
  <2>6. ASSUME NEW x \in Stages, NEW c \in Directions
        PROVE  Writes({e}, x, c)
    <3>1. CASE x = s /\ c = d
      <4>1. Registrations({e}, x, c) = {Registered(s, d, <<a>>)}
        BY <2>1, <3>1 DEF Registrations, e
      <4>2. status[s] \notin Idle /\ status'[s] \notin Idle
        BY <2>4 DEF Idle
      <4> QED BY <2>2, <2>5, <3>1, <4>1, <4>2 DEF Writes
    <3>2. CASE ~(x = s /\ c = d)
      <4>1. Registrations({e}, x, c) = {}
        BY <2>1, <3>2 DEF Registrations
      <4>2. artifacts'[x][c] = artifacts[x][c]
        BY <2>5, <3>2
      <4> QED BY <4>1, <4>2 DEF Writes
    <3> QED BY <3>1, <3>2
  <2>7. ASSUME NEW x \in Stages
        PROVE  FollowedBy({e}, x) /\ Turns({e}, x)
    BY <2>1, <2>4 DEF FollowedBy, Turns, StatusTypes
  <2>8. \A y \in {e} : y.type \notin {"RETRIED", "STARTED"}
    BY <2>1
  <2> QED BY <2>4, <2>6, <2>7, <2>8 DEF Transacts
<1>5. ASSUME NEW s \in Stages, NEW bundle \in Bundles, Commit(s, bundle)
      PROVE  \E events : Transacts(events)
  <2> DEFINE done == [status EXCEPT ![s] = "PASS"]
             e == Registered(s, "OUTPUT", bundle)
             items == {e}
  <2>1. e.type = "REGISTERED" /\ e.stage = s /\ e.direction = "OUTPUT"
    BY DEF Registered
  <2>2. artifacts[s]["OUTPUT"] \in Seq(Artifact) /\ bundle \in Seq(Artifact)
    <3>1. bundle \in Seq(Artifact)
      BY DEF Bundles
    <3> QED BY <3>1 DEF TypeOK, Directions
  <2>3. /\ status[s] = "RUNNING"
        /\ Transition(Refreshed(done), {e, Completed(s, "PASS")} \cup ReadyEvents(done))
        /\ artifacts' = [artifacts EXCEPT ![s]["OUTPUT"] = @ \o bundle]
    BY <1>5 DEF Commit
  <2>4. /\ artifacts'[s]["OUTPUT"] = artifacts[s]["OUTPUT"] \o bundle
        /\ \A x \in Stages, c \in Directions :
             <<x, c>> # <<s, "OUTPUT">> => artifacts'[x][c] = artifacts[x][c]
    BY <2>3 DEF TypeOK, Directions
  <2>5. items \in SUBSET Event
    <3>1. Len(artifacts[s]["OUTPUT"]) \in Nat
      BY <2>2
    <3> QED BY <2>2, <3>1 DEF Registered, Event, Directions
  <2>6. status'[s] = "PASS"
    <3>1. done \in [Stages -> Status] /\ done[s] = "PASS"
      BY DEF TypeOK, Status, Terminal, Satisfying
    <3>2. Refreshed(done)[s] = "PASS"
      BY <3>1 DEF Refreshed
    <3> QED BY <2>3, <3>2 DEF Transition
  <2>7. ASSUME NEW x \in Stages, NEW c \in Directions
        PROVE  Writes(items, x, c)
    <3>1. CASE x = s /\ c = "OUTPUT"
      <4>1. Registrations(items, x, c) = {Registered(s, "OUTPUT", bundle)}
        BY <2>1, <3>1 DEF Registrations
      <4>2. status[s] \notin Idle /\ status'[s] \notin Idle
        BY <2>3, <2>6 DEF Idle
      <4> QED BY <2>2, <2>4, <3>1, <4>1, <4>2 DEF Writes
    <3>2. CASE ~(x = s /\ c = "OUTPUT")
      <4>1. Registrations(items, x, c) = {}
        BY <2>1, <3>2 DEF Registrations
      <4>2. artifacts'[x][c] = artifacts[x][c]
        BY <2>4, <3>2
      <4> QED BY <4>1, <4>2 DEF Writes
    <3> QED BY <3>1, <3>2
  <2>8. \A y \in items : y.type = "REGISTERED"
    BY <2>1
  <2>9. "PASS" \in Terminal
    BY DEF Terminal, Satisfying
  <2> HIDE DEF done, e
  <2>10. Transition(Refreshed(done), items \cup {Completed(s, "PASS")} \cup ReadyEvents(done))
    <3>1. {e, Completed(s, "PASS")} = items \cup {Completed(s, "PASS")}
      OBVIOUS
    <3> QED BY <2>3, <3>1
  <2>11. done = [status EXCEPT ![s] = "PASS"]
    BY DEF done
  <2> HIDE DEF items
  <2> QED BY <2>3, <2>5, <2>7, <2>8, <2>9, <2>10, <2>11, EndsOne
<1>6. ASSUME NEW s \in Stages, NEW outcome, Complete(s, outcome)
      PROVE  \E events : Transacts(events)
  <2> DEFINE done == [status EXCEPT ![s] = outcome]
  <2>1. \A x \in Stages, d \in Directions : Writes({}, x, d)
    BY <1>6 DEF Complete, Writes, Registrations
  <2>2. /\ outcome \in Terminal /\ status[s] = "RUNNING"
        /\ Transition(Refreshed(done), {Completed(s, outcome)} \cup ReadyEvents(done))
    BY <1>6 DEF Complete
  <2>3. {} \in SUBSET Event /\ \A e \in {} : e.type = "REGISTERED"
    OBVIOUS
  <2>4. done = [status EXCEPT ![s] = outcome]
    OBVIOUS
  <2> HIDE DEF done
  <2>5. Transition(Refreshed(done), {} \cup {Completed(s, outcome)} \cup ReadyEvents(done))
    <3>1. {} \cup {Completed(s, outcome)} = {Completed(s, outcome)}
      OBVIOUS
    <3> QED BY <2>2, <3>1
  <2> QED BY <2>1, <2>2, <2>3, <2>4, <2>5, EndsOne
<1>7. ASSUME NEW s \in Stages, NEW t \in Stages, NEW p \in Progress \cup {NoProgress},
             Retry(s, t, p)
      PROVE  \E events : Transacts(events)
  <2> DEFINE st == [x \in Stages |-> IF x \in Descendants[s] THEN ResetStatus(x, s)
                                     ELSE status[x]]
             retried(x) == [type |-> "RETRIED", stage |-> x, status |-> ResetStatus(x, s),
                            root |-> s, trigger |-> t, boundaries |-> NextOrdinals(x),
                            fingerprints |-> {FingerprintOf(s, t, p)}]
             events == {retried(x) : x \in Descendants[s]}
  <2>1. Transition(st, events) /\ artifacts' = artifacts /\ ~Exhausted(s, t, p)
    BY <1>7 DEF Retry
  <2>2. Descendants[s] \in SUBSET Stages
    BY DescendantsProperties
  <2>3. \A x \in Descendants[s] : st[x] = ResetStatus(x, s) /\ status'[x] = st[x]
    BY <2>1, <2>2 DEF Transition
  <2>4. \A x \in Stages \ Descendants[s] : st[x] = status[x]
    OBVIOUS
  <2> HIDE DEF st
  <2>5. ASSUME NEW e \in events
        PROVE  /\ e.type = "RETRIED" /\ e.stage \in Descendants[s]
               /\ e.status = st[e.stage] /\ e.status \in Idle
               /\ Resets(e)
    <3>1. PICK x \in Descendants[s] : e = retried(x)
      OBVIOUS
    <3>2. /\ e.type = "RETRIED" /\ e.stage = x /\ e.status = ResetStatus(x, s) /\ e.root = s
          /\ e.trigger = t /\ e.boundaries = NextOrdinals(x)
          /\ e.fingerprints = {FingerprintOf(s, t, p)}
      BY <3>1
    <3> QED BY <3>2, <2>1, <2>3 DEF Resets, ResetStatus, Idle
  <2>6. ASSUME NEW x \in Descendants[s]
        PROVE  \E e \in events : e.stage = x
    <3>1. retried(x) \in events /\ retried(x).stage = x
      OBVIOUS
    <3> QED BY <3>1
  <2> HIDE DEF events
  <2> QED BY <2>1, <2>2, <2>4, <2>5, <2>6, ResetsSome
<1>8. ASSUME NEW s \in Stages, Reopen(s)
      PROVE  \E events : Transacts(events)
  <2> DEFINE e == [type |-> "RETRIED", stage |-> s, status |-> "READY", root |-> s,
                   trigger |-> s, boundaries |-> NextOrdinals(s), fingerprints |-> {}]
             st == [status EXCEPT ![s] = "READY"]
  <2>1. Transition(st, {e}) /\ artifacts' = artifacts
    BY <1>8 DEF Reopen
  <2>2. st[s] = "READY" /\ \A x \in Stages \ {s} : st[x] = status[x]
    BY DEF TypeOK
  <2>3. /\ e.type = "RETRIED" /\ e.stage = s /\ e.status = "READY"
        /\ e.boundaries = NextOrdinals(s) /\ e.fingerprints = {}
    OBVIOUS
  <2> HIDE DEF e, st
  <2>4. status'[s] = "READY"
    BY <2>1, <2>2 DEF Transition
  <2>5. Resets(e)
    BY <2>1, <2>3, <2>4 DEF Resets, Idle
  <2>6. /\ \A y \in {e} : /\ y.type = "RETRIED" /\ y.stage \in {s} /\ y.status = st[y.stage]
                          /\ y.status \in Idle /\ Resets(y)
        /\ \A x \in {s} : \E y \in {e} : y.stage = x
    BY <2>2, <2>3, <2>5 DEF Idle
  <2>7. {s} \in SUBSET Stages
    OBVIOUS
  <2> HIDE DEF Transition
  <2> QED BY <2>1, <2>2, <2>6, <2>7, ResetsSome
<1> QED BY <1>a, <1>1, <1>2, <1>3, <1>4, <1>5, <1>6, <1>7, <1>8
        DEF Next, RetryExhausted, RetryAcrossPhases

-----------------------------------------------------------------------------
(* The ledger replays to the tables.                                       *)

\* The statuses.
StatusesReplay == \A s \in Stages : status[s] = Projected(s)

\* The members of a sequence with their positions, counted from k + 1.
Positions(k, seq) == {<<k + n, seq[n]>> : n \in DOMAIN seq}

\* The occurrences, by position.
Occurrences(s, d) == Positions(0, artifacts[s][d])

OccurrencesReplay == \A s \in Stages, d \in Directions : RegisteredItems(s, d) = Occurrences(s, d)

\* Every transaction has the events of what it does to the rows.
LEMMA StatusesReplayStep ==
  ASSUME TypeOK, StatusesReplay, NEW events, Transacts(events)
  PROVE  StatusesReplay'
<1> SUFFICES ASSUME NEW s \in Stages
             PROVE  status'[s] = Projected(s)'
  BY DEF StatusesReplay
<1>1. ledger \in Seq(SUBSET Event) /\ ledger' = Append(ledger, events) /\ FollowedBy(events, s)
  BY DEF TypeOK, Transacts
<1>2. CASE Concerns(events, s, StatusTypes)
  <2>1. /\ Commits(s, StatusTypes)' # {} /\ Latest(s, StatusTypes)' \in events
        /\ Latest(s, StatusTypes)'.stage = s /\ Latest(s, StatusTypes)'.type \in StatusTypes
    BY <1>1, <1>2, LatestAppended
  <2>2. StatusAfter(Latest(s, StatusTypes)') = status'[s]
    BY <1>1, <2>1 DEF FollowedBy
  <2>3. Projected(s)' = StatusAfter(Latest(s, StatusTypes)')
    BY <2>1 DEF Projected, StatusAfter
  <2> QED BY <2>2, <2>3
<1>3. CASE ~Concerns(events, s, StatusTypes)
  <2>1. Commits(s, StatusTypes)' = Commits(s, StatusTypes)
    BY <1>1, <1>3, LatestAppended
  <2>2. Commits(s, StatusTypes) # {} => Latest(s, StatusTypes)' = Latest(s, StatusTypes)
    BY <1>1, <1>3, LatestAppended
  <2>3. Projected(s)' = Projected(s)
    BY <2>1, <2>2 DEF Projected, StatusAfter, InitialStatus
  <2>4. status'[s] = status[s]
    BY <1>1, <1>3 DEF FollowedBy
  <2> QED BY <2>3, <2>4 DEF StatusesReplay
<1> QED BY <1>2, <1>3

\* What events register, by position.
ItemsOf(e) == Positions(e.first, e.items)

\* What is registered, after one more transaction.
LEMMA ItemsAppended ==
  ASSUME ledger \in Seq(SUBSET Event), NEW events, ledger' = Append(ledger, events),
         NEW s, NEW d
  PROVE  RegisteredItems(s, d)' =
           RegisteredItems(s, d) \cup UNION {ItemsOf(e) : e \in Registrations(events, s, d)}
<1> DEFINE About(E) == {x \in E : x.type = "REGISTERED" /\ x.stage = s /\ x.direction = d}
           old == UNION {ledger[i] : i \in DOMAIN ledger}
           new == UNION {ledger'[i] : i \in DOMAIN ledger'}
<1>1. new = old \cup events
  <2>1. /\ DOMAIN ledger' = DOMAIN ledger \cup {Len(ledger) + 1}
        /\ ledger'[Len(ledger) + 1] = events
        /\ \A i \in DOMAIN ledger : ledger'[i] = ledger[i]
    OBVIOUS
  <2>2. ASSUME NEW e
        PROVE  (\E i \in DOMAIN ledger' : e \in ledger'[i])
                 <=> (\E i \in DOMAIN ledger : e \in ledger[i]) \/ e \in events
    BY <2>1
  <2>3. \A e : e \in new <=> \E i \in DOMAIN ledger' : e \in ledger'[i]
    OBVIOUS
  <2>4. \A e : e \in old <=> \E i \in DOMAIN ledger : e \in ledger[i]
    OBVIOUS
  <2> HIDE DEF old, new
  <2> QED BY <2>2, <2>3, <2>4
<1>2. RegisteredItems(s, d) = UNION {ItemsOf(e) : e \in About(old)}
  BY DEF RegisteredItems, ItemsOf, Positions
<1>3. RegisteredItems(s, d)' = UNION {ItemsOf(e) : e \in About(new)}
  BY DEF RegisteredItems, ItemsOf, Positions
<1>4. About(new) = About(old) \cup Registrations(events, s, d)
  BY <1>1 DEF Registrations
<1> HIDE DEF About, old, new
<1> QED BY <1>2, <1>3, <1>4

\* The positions of a longer sequence.
LEMMA PositionsGrow ==
  ASSUME NEW S, NEW seq \in Seq(S), NEW items \in Seq(S), NEW k \in Nat
  PROVE  Positions(k, seq \o items) = Positions(k, seq) \cup Positions(k + Len(seq), items)
<1> DEFINE all == seq \o items
<1>1. /\ Len(seq) \in Nat /\ Len(items) \in Nat
      /\ DOMAIN seq = 1 .. Len(seq) /\ DOMAIN items = 1 .. Len(items)
      /\ DOMAIN all = 1 .. Len(seq) + Len(items)
      /\ \A n \in DOMAIN all : all[n] = IF n <= Len(seq) THEN seq[n] ELSE items[n - Len(seq)]
  BY ConcatProperties
<1> HIDE DEF all
<1>2. ASSUME NEW n \in DOMAIN all
      PROVE  \/ n \in DOMAIN seq /\ all[n] = seq[n]
             \/ \E m \in DOMAIN items : k + n = (k + Len(seq)) + m /\ all[n] = items[m]
  <2>1. CASE n <= Len(seq)
    BY <2>1, <1>1
  <2>2. CASE ~(n <= Len(seq))
    <3>1. /\ n - Len(seq) \in DOMAIN items /\ all[n] = items[n - Len(seq)]
          /\ k + n = (k + Len(seq)) + (n - Len(seq))
      BY <2>2, <1>1
    <3> QED BY <3>1
  <2> QED BY <2>1, <2>2
<1>3. \A n \in DOMAIN seq : n \in DOMAIN all /\ all[n] = seq[n]
  BY <1>1
<1>4. \A m \in DOMAIN items : /\ Len(seq) + m \in DOMAIN all /\ all[Len(seq) + m] = items[m]
                              /\ k + (Len(seq) + m) = (k + Len(seq)) + m
  BY <1>1
<1>5. Positions(k, all) \subseteq Positions(k, seq) \cup Positions(k + Len(seq), items)
  BY <1>2 DEF Positions
<1>6. Positions(k, seq) \subseteq Positions(k, all)
  BY <1>3 DEF Positions
<1>7. Positions(k + Len(seq), items) \subseteq Positions(k, all)
  BY <1>4 DEF Positions
<1> QED BY <1>5, <1>6, <1>7 DEF all

\* A transaction registers what it appends, where it appends it.
LEMMA OccurrencesReplayStep ==
  ASSUME TypeOK, OccurrencesReplay, NEW events, Transacts(events)
  PROVE  OccurrencesReplay'
<1> SUFFICES ASSUME NEW s \in Stages, NEW d \in Directions
             PROVE  RegisteredItems(s, d)' = Occurrences(s, d)'
  BY DEF OccurrencesReplay
<1>1. /\ ledger \in Seq(SUBSET Event) /\ ledger' = Append(ledger, events)
      /\ Writes(events, s, d) /\ artifacts[s][d] \in Seq(Artifact)
      /\ RegisteredItems(s, d) = Occurrences(s, d)
  BY DEF TypeOK, Transacts, OccurrencesReplay
<1>2. RegisteredItems(s, d)' =
        Occurrences(s, d) \cup UNION {ItemsOf(e) : e \in Registrations(events, s, d)}
  BY <1>1, ItemsAppended
<1>3. CASE Registrations(events, s, d) = {} /\ artifacts'[s][d] = artifacts[s][d]
  BY <1>2, <1>3 DEF Occurrences
<1>4. ASSUME NEW items \in Seq(Artifact),
             Registrations(events, s, d) = {Registered(s, d, items)},
             artifacts'[s][d] = artifacts[s][d] \o items
      PROVE  RegisteredItems(s, d)' = Occurrences(s, d)'
  <2>1. UNION {ItemsOf(e) : e \in Registrations(events, s, d)} = Positions(Len(artifacts[s][d]), items)
    BY <1>4 DEF ItemsOf, Registered
  <2>2. Occurrences(s, d)' = Occurrences(s, d) \cup Positions(Len(artifacts[s][d]), items)
    <3>1. \A old \in Seq(Artifact) :
            Positions(0, old \o items) = Positions(0, old) \cup Positions(0 + Len(old), items)
      BY PositionsGrow
    <3>2. 0 + Len(artifacts[s][d]) = Len(artifacts[s][d])
      BY <1>1
    <3> QED BY <1>1, <1>4, <3>1, <3>2 DEF Occurrences
  <2> QED BY <1>2, <2>1, <2>2
<1> QED BY <1>1, <1>3, <1>4 DEF Writes

-----------------------------------------------------------------------------
(* Attempts.                                                               *)

\* An attempt begins at an occurrence there is, and nothing is added before a stage has started.
Bounded ==
  \A s \in Stages, d \in Directions :
    /\ Boundary(s, d) <= Len(artifacts[s][d])
    /\ status[s] \in Idle => Boundary(s, d) = Len(artifacts[s][d])

\* How a boundary moves.
LEMMA BoundaryMoves ==
  ASSUME TypeOK, NEW events, Transacts(events), NEW s \in Stages, NEW d \in Directions
  PROVE  IF Concerns(events, s, {"RETRIED"})
         THEN Boundary(s, d)' = Len(artifacts[s][d]) /\ artifacts' = artifacts
         ELSE Boundary(s, d)' = Boundary(s, d)
<1>1. ledger \in Seq(SUBSET Event) /\ ledger' = Append(ledger, events)
  BY DEF TypeOK, Transacts
<1>2. CASE Concerns(events, s, {"RETRIED"})
  <2> DEFINE e == Latest(s, {"RETRIED"})'
  <2>1. Commits(s, {"RETRIED"})' # {} /\ e \in events /\ e.stage = s /\ e.type = "RETRIED"
    BY <1>1, <1>2, LatestAppended
  <2>2. Resets(e)
    BY <2>1 DEF Transacts
  <2>3. Boundary(s, d)' = e.boundaries[d]
    BY <2>1 DEF Boundary
  <2> HIDE DEF e
  <2> QED BY <1>2, <2>1, <2>2, <2>3 DEF Resets, NextOrdinals
<1>3. CASE ~Concerns(events, s, {"RETRIED"})
  <2>1. Commits(s, {"RETRIED"})' = Commits(s, {"RETRIED"})
    BY <1>1, <1>3, LatestAppended
  <2>2. Commits(s, {"RETRIED"}) # {} => Latest(s, {"RETRIED"})' = Latest(s, {"RETRIED"})
    BY <1>1, <1>3, LatestAppended
  <2> QED BY <1>3, <2>1, <2>2 DEF Boundary
<1> QED BY <1>2, <1>3

\* Boundaries stay within the occurrences.
LEMMA BoundedStep ==
  ASSUME TypeOK, Bounded, NEW events, Transacts(events)
  PROVE  Bounded'
<1> SUFFICES ASSUME NEW s \in Stages, NEW d \in Directions
             PROVE  /\ Boundary(s, d)' <= Len(artifacts'[s][d])
                    /\ status'[s] \in Idle => Boundary(s, d)' = Len(artifacts'[s][d])
  BY DEF Bounded
<1>1. /\ Turns(events, s) /\ Writes(events, s, d) /\ artifacts[s][d] \in Seq(Artifact)
      /\ Boundary(s, d) <= Len(artifacts[s][d])
      /\ status[s] \in Idle => Boundary(s, d) = Len(artifacts[s][d])
  BY DEF TypeOK, Transacts, Bounded
<1>2. Boundary(s, d) \in Nat /\ Len(artifacts[s][d]) \in Nat
  BY <1>1, BoundaryType
<1>3. CASE Concerns(events, s, {"RETRIED"})
  BY <1>2, <1>3, BoundaryMoves
<1>4. CASE ~Concerns(events, s, {"RETRIED"})
  <2>1. Boundary(s, d)' = Boundary(s, d)
    BY <1>4, BoundaryMoves
  <2>2. CASE artifacts'[s][d] = artifacts[s][d]
    BY <1>1, <1>4, <2>1, <2>2 DEF Turns
  <2>3. ASSUME NEW items \in Seq(Artifact), artifacts'[s][d] = artifacts[s][d] \o items,
               status'[s] \notin Idle
        PROVE  /\ Boundary(s, d)' <= Len(artifacts'[s][d])
               /\ status'[s] \in Idle => Boundary(s, d)' = Len(artifacts'[s][d])
    <3>1. Len(artifacts'[s][d]) = Len(artifacts[s][d]) + Len(items) /\ Len(items) \in Nat
      BY <1>1, <2>3, ConcatProperties
    <3> QED BY <1>1, <1>2, <2>1, <2>3, <3>1
  <2> QED BY <1>1, <2>2, <2>3 DEF Writes
<1> QED BY <1>3, <1>4

\* A stage that is to start again shows nothing of the attempts before.
LEMMA BoundedSeparates ==
  ASSUME TypeOK, Bounded
  PROVE  AttemptsSeparated
<1> SUFFICES ASSUME NEW s \in Stages, NEW d \in Directions, status[s] \in Idle
             PROVE  Current(s, d) = <<>>
  BY DEF AttemptsSeparated, Idle
<1>1. Boundary(s, d) = Len(artifacts[s][d]) /\ Boundary(s, d) \in Nat
  BY BoundaryType DEF Bounded
<1>2. SubSeq(artifacts[s][d], Boundary(s, d) + 1, Len(artifacts[s][d])) = <<>>
  BY <1>1, SubSeqEmpty
<1> QED BY <1>2 DEF Current

-----------------------------------------------------------------------------
(* Repairs.                                                                *)

\* A repair, as opposed to a reopening or to what a repair resets on the way.
IsRepair(e) == e.type = "RETRIED" /\ e.stage = e.root /\ e.fingerprints # {}

\* What the events since the last reset register is the current attempt.
AttemptsReplay ==
  \A s \in Stages :
    AttemptSubstance(s, Len(ledger) + 1) = Positions(Boundary(s, "OUTPUT"), Current(s, "OUTPUT"))

\* A repair is known by what its caller says, or by the outputs it found.
Counted(s, i) ==
  [a \in Artifact |-> IF a.kind \in CodexKinds THEN 0 ELSE CountIn(AttemptSubstance(s, i), a)]

Reasoned ==
  \A i \in DOMAIN ledger : \A e \in ledger[i] : IsRepair(e) =>
    /\ e.root \in Stages
    /\ \/ \E p \in Progress : e.fingerprints = {<<e.root, e.trigger, p>>}
       \/ e.fingerprints = {<<e.root, e.trigger, Counted(e.root, i)>>}

\* No repair is asked for twice.
Distinct ==
  \A i, j \in DOMAIN ledger : i < j =>
    \A e \in ledger[i], f \in ledger[j] :
      IsRepair(e) /\ IsRepair(f) /\ e.root = f.root => e.fingerprints \cap f.fingerprints = {}

\* So two repairs that are told apart by outputs find different ones.
LEMMA DistinctProgress ==
  ASSUME Reasoned, Distinct
  PROVE  RepairsProgress
<1> SUFFICES ASSUME NEW i \in DOMAIN ledger, NEW j \in DOMAIN ledger, i < j,
                    NEW e \in ledger[i], NEW f \in ledger[j], IsRepair(e), IsRepair(f),
                    e.root = f.root, e.trigger = f.trigger,
                    \A p \in e.fingerprints \cup f.fingerprints : p[3] \notin Progress
             PROVE  \E a \in Artifact :
                      /\ a.kind \notin CodexKinds
                      /\ CountIn(AttemptSubstance(e.root, i), a)
                           # CountIn(AttemptSubstance(e.root, j), a)
  BY DEF RepairsProgress, CommitsOfType, IsRepair
<1> DEFINE p == Counted(e.root, i)
           q == Counted(f.root, j)
<1>1. e.fingerprints = {<<e.root, e.trigger, p>>}
  <2>1. ASSUME NEW x \in Progress, e.fingerprints = {<<e.root, e.trigger, x>>}
        PROVE  FALSE
    <3>1. <<e.root, e.trigger, x>>[3] = x
      OBVIOUS
    <3> QED BY <2>1, <3>1
  <2>2. \/ \E x \in Progress : e.fingerprints = {<<e.root, e.trigger, x>>}
        \/ e.fingerprints = {<<e.root, e.trigger, p>>}
    BY DEF Reasoned
  <2> QED BY <2>1, <2>2
<1>2. f.fingerprints = {<<f.root, f.trigger, q>>}
  <2>1. ASSUME NEW x \in Progress, f.fingerprints = {<<f.root, f.trigger, x>>}
        PROVE  FALSE
    <3>1. <<f.root, f.trigger, x>>[3] = x
      OBVIOUS
    <3> QED BY <2>1, <3>1
  <2>2. \/ \E x \in Progress : f.fingerprints = {<<f.root, f.trigger, x>>}
        \/ f.fingerprints = {<<f.root, f.trigger, q>>}
    BY DEF Reasoned
  <2> QED BY <2>1, <2>2
<1> HIDE DEF p, q
<1>3. p # q
  BY <1>1, <1>2 DEF Distinct
<1> SUFFICES ASSUME \A a \in Artifact : a.kind \notin CodexKinds =>
                      CountIn(AttemptSubstance(e.root, i), a) = CountIn(AttemptSubstance(e.root, j), a)
             PROVE  FALSE
  OBVIOUS
<1>4. p = q
  BY DEF Counted, p, q
<1> QED BY <1>3, <1>4

\* What the earlier transactions registered stays so.
LEMMA SubstanceKept ==
  ASSUME ledger \in Seq(SUBSET Event), NEW events, ledger' = Append(ledger, events),
         NEW s, NEW i \in 1 .. Len(ledger) + 1
  PROVE  AttemptSubstance(s, i)' = AttemptSubstance(s, i)
<1> DEFINE resets == {j \in 1..(i - 1) : \E e \in ledger[j] : e.type = "RETRIED" /\ e.stage = s}
           since == {k \in 1..(i - 1) : \A r \in resets : k > r}
           all == UNION {ledger[j] : j \in since}
<1>1. \A j \in 1..(i - 1) : ledger'[j] = ledger[j]
  <2>1. \A j \in 1..(i - 1) : j \in DOMAIN ledger
    OBVIOUS
  <2>2. \A j \in DOMAIN ledger : ledger'[j] = ledger[j]
    OBVIOUS
  <2> QED BY <2>1, <2>2
<1>2. resets' = resets
  BY <1>1
<1>3. since' = since /\ since \subseteq 1..(i - 1)
  BY <1>2
<1> HIDE DEF resets, since
<1>4. all' = all
  BY <1>1, <1>3
<1>5. AttemptSubstance(s, i) = UNION {{<<e.first + n, e.items[n]>> : n \in DOMAIN e.items} :
         e \in {x \in all : x.type = "REGISTERED" /\ x.stage = s /\ x.direction = "OUTPUT"}}
  BY DEF AttemptSubstance, resets, since
<1>6. AttemptSubstance(s, i)' = UNION {{<<e.first + n, e.items[n]>> : n \in DOMAIN e.items} :
         e \in {x \in all' : x.type = "REGISTERED" /\ x.stage = s /\ x.direction = "OUTPUT"}}
  BY DEF AttemptSubstance, resets, since
<1> QED BY <1>4, <1>5, <1>6

\* What a transaction adds to the current attempt.
LEMMA SubstanceAppended ==
  ASSUME ledger \in Seq(SUBSET Event), NEW events, ledger' = Append(ledger, events),
         NEW s, NEW n, n = Len(ledger)
  PROVE  AttemptSubstance(s, n + 2)' =
           IF Concerns(events, s, {"RETRIED"}) THEN {}
           ELSE AttemptSubstance(s, n + 1)
                  \cup UNION {ItemsOf(e) : e \in Registrations(events, s, "OUTPUT")}
<1> DEFINE resets(i) == {j \in 1..(i - 1) : \E e \in ledger[j] : e.type = "RETRIED" /\ e.stage = s}
           since(i) == {k \in 1..(i - 1) : \A r \in resets(i) : k > r}
           all(i) == UNION {ledger[j] : j \in since(i)}
           About(E) == {x \in E : x.type = "REGISTERED" /\ x.stage = s /\ x.direction = "OUTPUT"}
<1>1. /\ n \in Nat /\ (n + 2) - 1 = n + 1 /\ (n + 1) - 1 = n
      /\ 1 .. (n + 1) = (1 .. n) \cup {n + 1}
      /\ ledger'[n + 1] = events /\ \A j \in 1 .. n : ledger'[j] = ledger[j]
  OBVIOUS
<1>2. AttemptSubstance(s, n + 1) = UNION {ItemsOf(e) : e \in About(all(n + 1))}
  BY DEF AttemptSubstance, ItemsOf, Positions
<1>3. AttemptSubstance(s, n + 2)' = UNION {ItemsOf(e) : e \in About(all(n + 2)')}
  BY DEF AttemptSubstance, ItemsOf, Positions
<1>4. resets(n + 2)' = resets(n + 1) \cup IF Concerns(events, s, {"RETRIED"}) THEN {n + 1} ELSE {}
  BY <1>1 DEF Concerns
<1>5. resets(n + 1) \subseteq 1 .. n
  BY <1>1
<1>6. CASE Concerns(events, s, {"RETRIED"})
  <2>1. since(n + 2)' = {}
    BY <1>1, <1>4, <1>6
  <2>2. all(n + 2)' = {}
    BY <2>1
  <2>3. About(all(n + 2)') = {}
    BY <2>2
  <2> QED BY <1>3, <1>6, <2>3
<1>7. CASE ~Concerns(events, s, {"RETRIED"})
  <2>1. resets(n + 2)' = resets(n + 1)
    BY <1>4, <1>7
  <2> HIDE DEF resets
  <2>2. since(n + 2)' = since(n + 1) \cup {n + 1} /\ since(n + 1) \subseteq 1 .. n
    BY <1>1, <1>5, <2>1
  <2> HIDE DEF since
  <2>3. ASSUME NEW e
        PROVE  (\E j \in since(n + 2)' : e \in ledger'[j])
                 <=> (\E j \in since(n + 1) : e \in ledger[j]) \/ e \in events
    BY <1>1, <2>2
  <2>4. \A e : e \in all(n + 1) <=> \E j \in since(n + 1) : e \in ledger[j]
    OBVIOUS
  <2>5. \A e : e \in all(n + 2)' <=> \E j \in since(n + 2)' : e \in ledger'[j]
    OBVIOUS
  <2> HIDE DEF all
  <2>6. all(n + 2)' = all(n + 1) \cup events
    BY <2>3, <2>4, <2>5
  <2>7. About(all(n + 2)') = About(all(n + 1)) \cup Registrations(events, s, "OUTPUT")
    BY <2>6 DEF Registrations
  <2> HIDE DEF About
  <2> QED BY <1>2, <1>3, <1>7, <2>7
<1> QED BY <1>6, <1>7

\* The positions of what comes after the first b members, when more are appended.
LEMMA TailGrows ==
  ASSUME NEW S, NEW old \in Seq(S), NEW items \in Seq(S), NEW b \in Nat, b <= Len(old)
  PROVE  Positions(b, SubSeq(old \o items, b + 1, Len(old \o items))) =
           Positions(b, SubSeq(old, b + 1, Len(old))) \cup Positions(Len(old), items)
<1> DEFINE all == old \o items
           head == SubSeq(old, b + 1, Len(old))
           whole == SubSeq(all, b + 1, Len(all))
<1>1. /\ all \in Seq(S) /\ Len(all) = Len(old) + Len(items)
      /\ Len(items) \in Nat /\ Len(old) \in Nat
      /\ \A i \in 1 .. Len(old) + Len(items) :
           all[i] = IF i <= Len(old) THEN old[i] ELSE items[i - Len(old)]
  BY ConcatProperties
<1> HIDE DEF all
<1>2. /\ whole \in Seq(S) /\ Len(whole) = Len(all) - b
      /\ \A i \in 1 .. Len(all) - b : whole[i] = all[b + i]
  <2>1. \A i \in b + 1 .. Len(all) : all[i] \in S
    BY <1>1
  <2>2. b + 1 \in Int /\ Len(all) \in Int /\ b <= Len(all)
    BY <1>1
  <2>3. /\ whole \in Seq(S)
        /\ Len(whole) = IF b + 1 <= Len(all) THEN Len(all) - (b + 1) + 1 ELSE 0
        /\ \A i \in 1 .. Len(all) - (b + 1) + 1 : whole[i] = all[(b + 1) + i - 1]
    BY <2>1, <2>2, SubSeqProperties
  <2> QED BY <2>2, <2>3
<1>3. /\ head \in Seq(S) /\ Len(head) = Len(old) - b
      /\ \A i \in 1 .. Len(old) - b : head[i] = old[b + i]
  <2>1. \A i \in b + 1 .. Len(old) : old[i] \in S
    BY <1>1
  <2>2. b + 1 \in Int /\ Len(old) \in Int
    BY <1>1
  <2>3. /\ head \in Seq(S)
        /\ Len(head) = IF b + 1 <= Len(old) THEN Len(old) - (b + 1) + 1 ELSE 0
        /\ \A i \in 1 .. Len(old) - (b + 1) + 1 : head[i] = old[(b + 1) + i - 1]
    BY <2>1, <2>2, SubSeqProperties
  <2> QED BY <2>2, <2>3
<1> HIDE DEF whole, head
<1>4. /\ head \o items \in Seq(S) /\ Len(head \o items) = Len(head) + Len(items)
      /\ \A i \in 1 .. Len(head) + Len(items) :
           (head \o items)[i] = IF i <= Len(head) THEN head[i] ELSE items[i - Len(head)]
  BY <1>3, ConcatProperties
<1>5. Len(head) + Len(items) = Len(whole)
  BY <1>1, <1>2, <1>3
<1>6. ASSUME NEW i \in 1 .. Len(whole)
      PROVE  whole[i] = (head \o items)[i]
  <2>1. /\ i \in Nat /\ Len(head) = Len(old) - b
        /\ i \in 1 .. Len(all) - b /\ b + i \in 1 .. Len(old) + Len(items)
        /\ i \in 1 .. Len(head) + Len(items)
    BY <1>1, <1>2, <1>3
  <2>2. whole[i] = IF b + i <= Len(old) THEN old[b + i] ELSE items[(b + i) - Len(old)]
    BY <1>1, <1>2, <2>1
  <2>3. (head \o items)[i] = IF i <= Len(head) THEN head[i] ELSE items[i - Len(head)]
    BY <1>4, <2>1
  <2>4. /\ b + i <= Len(old) <=> i <= Len(head)
        /\ (b + i) - Len(old) = i - Len(head)
    BY <1>1, <2>1
  <2>5. i <= Len(head) => head[i] = old[b + i]
    BY <1>1, <1>3, <2>1
  <2> QED BY <2>2, <2>3, <2>4, <2>5
<1>7. whole = head \o items
  BY <1>2, <1>4, <1>5, <1>6, SeqEqual
<1>8. Len(old) = b + Len(head) /\ head \in Seq(S)
  BY <1>1, <1>3
<1>9. Positions(b, whole) = Positions(b, head) \cup Positions(Len(old), items)
  <2>1. \A h \in Seq(S) :
          Positions(b, h \o items) = Positions(b, h) \cup Positions(b + Len(h), items)
    BY PositionsGrow
  <2>2. Positions(b, head \o items) = Positions(b, head) \cup Positions(b + Len(head), items)
    BY <1>8, <2>1
  <2> QED BY <1>7, <1>8, <2>2
<1> QED BY <1>9 DEF whole, head, all

\* A transaction begins an attempt or adds to it what it registers.
LEMMA AttemptsReplayStep ==
  ASSUME TypeOK, Bounded, AttemptsReplay, NEW events, Transacts(events)
  PROVE  AttemptsReplay'
<1> PICK n : n = Len(ledger)
  OBVIOUS
<1>1. ledger \in Seq(SUBSET Event) /\ ledger' = Append(ledger, events) /\ Len(ledger') + 1 = n + 2
  BY DEF TypeOK, Transacts
<1> SUFFICES ASSUME NEW s \in Stages
             PROVE  AttemptSubstance(s, n + 2)' = Positions(Boundary(s, "OUTPUT"), Current(s, "OUTPUT"))'
  BY <1>1 DEF AttemptsReplay
<1> DEFINE old == artifacts[s]["OUTPUT"]
           b == Boundary(s, "OUTPUT")
<1>2. /\ old \in Seq(Artifact) /\ b \in Nat /\ b <= Len(old) /\ Len(old) \in Nat
      /\ Writes(events, s, "OUTPUT")
  BY BoundaryType DEF TypeOK, Transacts, Bounded, Directions
<1>3. Current(s, "OUTPUT") = SubSeq(old, b + 1, Len(old))
  BY DEF Current
<1>4. Current(s, "OUTPUT")' = SubSeq(old', b' + 1, Len(old'))
  BY DEF Current
<1>5. CASE Concerns(events, s, {"RETRIED"})
  <2>1. b' = Len(old) /\ old' = old
    BY <1>5, BoundaryMoves DEF Directions
  <2>2. Current(s, "OUTPUT")' = <<>>
    BY <1>2, <1>4, <2>1, SubSeqEmpty
  <2>3. Positions(b', <<>>) = {}
    BY DEF Positions
  <2>4. AttemptSubstance(s, n + 2)' = {}
    BY <1>1, <1>5, SubstanceAppended
  <2> QED BY <2>2, <2>3, <2>4
<1>6. CASE ~Concerns(events, s, {"RETRIED"})
  <2>1. b' = b
    BY <1>6, BoundaryMoves DEF Directions
  <2>2. AttemptSubstance(s, n + 2)' =
          Positions(b, Current(s, "OUTPUT"))
            \cup UNION {ItemsOf(e) : e \in Registrations(events, s, "OUTPUT")}
    BY <1>1, <1>6, SubstanceAppended DEF AttemptsReplay
  <2>3. CASE Registrations(events, s, "OUTPUT") = {} /\ old' = old
    BY <1>3, <1>4, <2>1, <2>2, <2>3
  <2>4. ASSUME NEW items \in Seq(Artifact), old' = old \o items,
               Registrations(events, s, "OUTPUT") = {Registered(s, "OUTPUT", items)}
        PROVE  AttemptSubstance(s, n + 2)' = Positions(b', Current(s, "OUTPUT")')
    <3>1. UNION {ItemsOf(e) : e \in Registrations(events, s, "OUTPUT")} = Positions(Len(old), items)
      <4>1. ItemsOf(Registered(s, "OUTPUT", items)) = Positions(Len(old), items)
        BY DEF ItemsOf, Registered
      <4> QED BY <2>4, <4>1
    <3>2. Positions(b, SubSeq(old \o items, b + 1, Len(old \o items))) =
            Positions(b, SubSeq(old, b + 1, Len(old))) \cup Positions(Len(old), items)
      <4> HIDE DEF old, b
      <4> QED BY <1>2, <2>4, TailGrows
    <3>3. Current(s, "OUTPUT")' = SubSeq(old \o items, b + 1, Len(old \o items))
      BY <1>4, <2>1, <2>4
    <3> QED BY <1>3, <2>1, <2>2, <3>1, <3>2, <3>3
  <2> QED BY <1>2, <2>3, <2>4 DEF Writes
<1> QED BY <1>5, <1>6

\* By position or not, as many.
LEMMA CountsAlike ==
  ASSUME NEW seq \in Seq(Artifact), NEW k \in Nat, NEW a
  PROVE  CountIn(Positions(k, seq), a) = Cardinality({i \in DOMAIN seq : seq[i] = a})
<1> DEFINE S == {i \in DOMAIN seq : seq[i] = a}
           T == {x \in Positions(k, seq) : x[2] = a}
           f == [i \in S |-> <<k + i, seq[i]>>]
<1>1. IsFiniteSet(S)
  <2>1. IsFiniteSet(1 .. Len(seq))
    BY FS_Interval
  <2>2. S \in SUBSET (1 .. Len(seq))
    OBVIOUS
  <2> QED BY <2>1, <2>2, FS_Subset
<1>2. \A i \in DOMAIN seq : i \in Int
  OBVIOUS
<1>3. \A i \in S : f[i] \in T
  BY DEF Positions
<1>4. \A i, j \in S : f[i] = f[j] => i = j
  BY <1>2
<1>5. \A x \in T : \E i \in S : f[i] = x
  BY DEF Positions
<1> HIDE DEF S, T
<1>6. f \in [S -> T]
  BY <1>3
<1> HIDE DEF f
<1>7. f \in Injection(S, T) /\ f \in Surjection(S, T)
  BY <1>4, <1>5, <1>6 DEF Injection, IsInjective, Surjection
<1>8. Cardinality(T) = Cardinality(S)
  BY <1>1, <1>7, FS_Bijection DEF ExistsBijection, Bijection
<1> QED BY <1>8 DEF CountIn, S, T

\* A repair is known by what its caller says, or by the outputs it found.
LEMMA ReasonedStep ==
  ASSUME TypeOK, Bounded, AttemptsReplay, Reasoned, NEW events \in SUBSET Event, Transacts(events)
  PROVE  Reasoned'
<1> PICK n : n = Len(ledger)
  OBVIOUS
<1>1. /\ ledger \in Seq(SUBSET Event) /\ ledger' = Append(ledger, events) /\ n \in Nat
      /\ DOMAIN ledger = 1 .. n /\ DOMAIN ledger' = 1 .. n + 1
      /\ ledger'[n + 1] = events /\ \A i \in 1 .. n : ledger'[i] = ledger[i]
  BY DEF TypeOK, Transacts
<1> SUFFICES ASSUME NEW i \in 1 .. n + 1, NEW e \in ledger'[i], IsRepair(e)
             PROVE  /\ e.root \in Stages
                    /\ \/ \E p \in Progress : e.fingerprints = {<<e.root, e.trigger, p>>}
                       \/ e.fingerprints = {<<e.root, e.trigger, Counted(e.root, i)'>>}
  BY <1>1 DEF Reasoned, IsRepair
<1>2. Counted(e.root, i)' = Counted(e.root, i)
  <2>1. AttemptSubstance(e.root, i)' = AttemptSubstance(e.root, i)
    BY <1>1, SubstanceKept
  <2> QED BY <2>1 DEF Counted, CountIn
<1>3. CASE i \in 1 .. n
  BY <1>1, <1>2, <1>3 DEF Reasoned
<1>4. CASE i = n + 1
  <2>1. e \in events /\ e \in Event /\ e.type = "RETRIED" /\ e.stage = e.root
    BY <1>1, <1>4 DEF IsRepair
  <2>2. e.root \in Stages
    BY <2>1 DEF Event
  <2>3. PICK progress \in Progress \cup {NoProgress} :
          e.fingerprints = {FingerprintOf(e.root, e.trigger, progress)}
    BY <2>1 DEF Transacts, Resets, IsRepair
  <2>4. CASE progress \in Progress
    BY <2>2, <2>3, <2>4, ContractAssumption DEF FingerprintOf
  <2>5. CASE progress = NoProgress
    <3>1. Current(e.root, "OUTPUT") \in Seq(Artifact) /\ Boundary(e.root, "OUTPUT") \in Nat
      BY <2>2, CurrentType, BoundaryType DEF Directions
    <3>2. AttemptSubstance(e.root, i) = Positions(Boundary(e.root, "OUTPUT"), Current(e.root, "OUTPUT"))
      BY <1>1, <1>4, <2>2 DEF AttemptsReplay
    <3>3. \A a \in Artifact :
            CountIn(AttemptSubstance(e.root, i), a) =
              Cardinality({m \in DOMAIN Current(e.root, "OUTPUT") : Current(e.root, "OUTPUT")[m] = a})
      BY <3>1, <3>2, CountsAlike
    <3>4. Substance(Current(e.root, "OUTPUT")) = Counted(e.root, i)
      BY <3>3 DEF Substance, Counted
    <3>5. FingerprintOf(e.root, e.trigger, progress) = <<e.root, e.trigger, Counted(e.root, i)>>
      BY <2>5, <3>4 DEF FingerprintOf
    <3>6. e.fingerprints = {<<e.root, e.trigger, Counted(e.root, i)'>>}
      BY <1>2, <2>3, <3>5
    <3> QED BY <2>2, <3>6
  <2> QED BY <2>4, <2>5
<1> QED BY <1>1, <1>3, <1>4

\* What was asked for before is refused.
LEMMA DistinctStep ==
  ASSUME TypeOK, Distinct, NEW events, Transacts(events)
  PROVE  Distinct'
<1> PICK n : n = Len(ledger)
  OBVIOUS
<1>1. /\ ledger \in Seq(SUBSET Event) /\ n \in Nat
      /\ DOMAIN ledger = 1 .. n /\ DOMAIN ledger' = 1 .. n + 1
      /\ ledger'[n + 1] = events /\ \A i \in 1 .. n : ledger'[i] = ledger[i]
  BY DEF TypeOK, Transacts
<1> SUFFICES ASSUME NEW i \in 1 .. n + 1, NEW j \in 1 .. n + 1, i < j,
                    NEW e \in ledger'[i], NEW f \in ledger'[j],
                    IsRepair(e), IsRepair(f), e.root = f.root
             PROVE  e.fingerprints \cap f.fingerprints = {}
  BY <1>1 DEF Distinct, IsRepair
<1>2. i \in 1 .. n /\ e \in ledger[i]
  BY <1>1
<1>3. CASE j \in 1 .. n
  BY <1>1, <1>2, <1>3 DEF Distinct
<1>4. CASE j = n + 1
  <2>1. f \in events /\ f.type = "RETRIED" /\ f.stage = f.root /\ f.fingerprints # {}
    BY <1>1, <1>4 DEF IsRepair
  <2>2. PICK progress \in Progress \cup {NoProgress} :
          /\ f.fingerprints = {FingerprintOf(f.root, f.trigger, progress)}
          /\ ~Exhausted(f.root, f.trigger, progress)
    BY <2>1 DEF Transacts, Resets
  <2>3. e.type = "RETRIED" /\ e.stage = f.root
    BY DEF IsRepair
  <2>4. FingerprintOf(f.root, f.trigger, progress) \notin e.fingerprints
    BY <1>1, <1>2, <2>2, <2>3 DEF Exhausted
  <2> QED BY <2>2, <2>4
<1> QED BY <1>1, <1>3, <1>4

-----------------------------------------------------------------------------
(* The invariant and what follows from it.                                 *)

LedgerInv == StatusesReplay /\ OccurrencesReplay /\ Bounded /\ AttemptsReplay /\ Reasoned /\ Distinct

\* An empty ledger replays to the empty tables.
LEMMA LedgerInvInit == Init => LedgerInv
<1> SUFFICES ASSUME Init
             PROVE  LedgerInv
  OBVIOUS
<1>1. ledger = <<>> /\ DOMAIN ledger = {} /\ Len(ledger) = 0
  BY DEF Init
<1>2. \A s, types : Commits(s, types) = {}
  BY <1>1 DEF Commits
<1>3. \A s, d : Boundary(s, d) = 0
  BY <1>2 DEF Boundary
<1>4. \A s \in Stages, d \in Directions : artifacts[s][d] = <<>>
  BY DEF Init
<1>5. StatusesReplay
  BY <1>2 DEF StatusesReplay, Projected, Init
<1>6. \A k : Positions(k, <<>>) = {}
  BY DEF Positions
<1>7. OccurrencesReplay
  <2>1. \A s, d : RegisteredItems(s, d) = {}
    BY <1>1 DEF RegisteredItems
  <2> QED BY <2>1, <1>4, <1>6 DEF OccurrencesReplay, Occurrences
<1>8. Bounded
  BY <1>3, <1>4 DEF Bounded
<1>9. AttemptsReplay
  <2> SUFFICES ASSUME NEW s \in Stages
               PROVE  AttemptSubstance(s, Len(ledger) + 1) =
                        Positions(Boundary(s, "OUTPUT"), Current(s, "OUTPUT"))
    BY DEF AttemptsReplay
  <2>1. 1 .. (Len(ledger) + 1) - 1 = {}
    BY <1>1
  <2>2. AttemptSubstance(s, Len(ledger) + 1) = {}
    BY <2>1 DEF AttemptSubstance
  <2>3. SubSeq(<<>>, 1, 0) = <<>>
    OBVIOUS
  <2>4. Current(s, "OUTPUT") = <<>>
    BY <1>3, <1>4, <2>3 DEF Current, Directions
  <2> QED BY <1>6, <2>2, <2>4
<1>10. Reasoned /\ Distinct
  BY <1>1 DEF Reasoned, Distinct
<1> QED BY <1>5, <1>7, <1>8, <1>9, <1>10 DEF LedgerInv

\* Every transaction keeps the ledger and the tables together.
LEMMA LedgerInvNext == TypeOK /\ LedgerInv /\ [Next]_vars => LedgerInv'
<1> SUFFICES ASSUME TypeOK, LedgerInv, [Next]_vars
             PROVE  LedgerInv'
  OBVIOUS
<1>1. CASE Next
  <2>1. PICK events \in SUBSET Event : Transacts(events)
    BY <1>1, Transactions
  <2> QED BY <2>1, StatusesReplayStep, OccurrencesReplayStep, BoundedStep, AttemptsReplayStep,
             ReasonedStep, DistinctStep DEF LedgerInv
<1>2. CASE UNCHANGED vars
  <2>1. status' = status /\ artifacts' = artifacts /\ ledger' = ledger
    BY <1>2 DEF vars
  <2>2. \A s, types : Commits(s, types)' = Commits(s, types)
    BY <2>1 DEF Commits
  <2>3. \A s, types : Latest(s, types)' = Latest(s, types)
    BY <2>1, <2>2 DEF Latest
  <2>4. \A s, d : Boundary(s, d)' = Boundary(s, d)
    BY <2>2, <2>3 DEF Boundary
  <2>5. \A s, i : AttemptSubstance(s, i)' = AttemptSubstance(s, i)
    BY <2>1 DEF AttemptSubstance
  <2>6. StatusesReplay'
    BY <2>1, <2>2, <2>3 DEF LedgerInv, StatusesReplay, Projected, StatusAfter, InitialStatus
  <2>7. OccurrencesReplay'
    BY <2>1 DEF LedgerInv, OccurrencesReplay, RegisteredItems, Occurrences, Positions
  <2>8. Bounded'
    BY <2>1, <2>4 DEF LedgerInv, Bounded, Idle
  <2>9. AttemptsReplay'
    BY <2>1, <2>4, <2>5 DEF LedgerInv, AttemptsReplay, Current, Positions
  <2>10. \A s, i : Counted(s, i)' = Counted(s, i)
    BY <2>1, <2>5 DEF Counted, CountIn
  <2>11. Reasoned'
    BY <2>1, <2>10 DEF LedgerInv, Reasoned
  <2>12. Distinct'
    BY <2>1, <2>5 DEF LedgerInv, Distinct
  <2> QED BY <2>6, <2>7, <2>8, <2>9, <2>11, <2>12 DEF LedgerInv
<1> QED BY <1>1, <1>2

\* Every reachable ledger and its tables belong together.
LEMMA LedgerInvAlways == Spec => [](TypeOK /\ LedgerInv)
<1>1. Init => TypeOK /\ LedgerInv
  BY TypeOKInit, LedgerInvInit
<1>2. TypeOK /\ LedgerInv /\ [Next]_vars => TypeOK' /\ LedgerInv'
  BY TypeOKNext, LedgerInvNext
<1> QED BY <1>1, <1>2, PTL DEF Spec

\* What validate_state_projection recomputes from the events is what the tables
\* hold, in every committed state of every run: the statuses and the occurrences.
THEOREM LedgerAlwaysReplays == Spec => []LedgerReplays
<1>1. TypeOK /\ LedgerInv => LedgerReplays
  <2> SUFFICES ASSUME TypeOK, LedgerInv, NEW s \in Stages
               PROVE  /\ status[s] = Projected(s)
                      /\ \A d \in Directions :
                           RegisteredItems(s, d) = {<<n, artifacts[s][d][n]>> : n \in DOMAIN artifacts[s][d]}
    BY DEF LedgerReplays
  <2>1. ASSUME NEW d \in Directions
        PROVE  Occurrences(s, d) = {<<n, artifacts[s][d][n]>> : n \in DOMAIN artifacts[s][d]}
    <3>1. artifacts[s][d] \in Seq(Artifact)
      BY DEF TypeOK
    <3>2. \A n \in DOMAIN artifacts[s][d] : 0 + n = n
      BY <3>1
    <3> QED BY <3>2 DEF Occurrences, Positions
  <2> QED BY <2>1 DEF LedgerInv, StatusesReplay, OccurrencesReplay
<1> QED BY <1>1, LedgerInvAlways, PTL

\* A stage that a repair or a reopening has reset shows nothing of the attempts before.
THEOREM AttemptsAlwaysSeparated == Spec => []AttemptsSeparated
<1>1. TypeOK /\ LedgerInv => AttemptsSeparated
  BY BoundedSeparates DEF LedgerInv
<1> QED BY <1>1, LedgerInvAlways, PTL

\* However long a run repairs, two repairs of a stage that the same stage asked for find
\* different outputs, or the caller has said what is new.
THEOREM RepairsAlwaysProgress == Spec => []RepairsProgress
<1>1. TypeOK /\ LedgerInv => RepairsProgress
  BY DistinctProgress DEF LedgerInv
<1> QED BY <1>1, LedgerInvAlways, PTL

-----------------------------------------------------------------------------
(* The ledger implements PhasedResults.                                    *)

\* What has left the statuses of a stage yet to start has been started.
Begun == \A s \in Stages : status[s] \notin Idle => Entered(s)

Valid == {s \in Stages : status[s] \in Satisfying}

\* The phases entered.
Ranks == {Rank[s] : s \in {x \in Stages : Entered(x)}} \cup {0}

\* A finite set of naturals that has a member has a greatest one.
LEMMA FiniteGreatest ==
  ASSUME NEW T \in SUBSET Nat, T # {}, IsFiniteSet(T)
  PROVE  \E m \in T : \A j \in T : j <= m
<1> DEFINE Above(t) == {x \in T : x > t}
           U == {Cardinality(Above(t)) : t \in T}
<1>1. \A t : IsFiniteSet(Above(t)) /\ Cardinality(Above(t)) \in Nat
  BY FS_Subset, FS_CardinalityType
<1>2. U \in SUBSET Nat /\ U # {}
  BY <1>1
<1>3. PICK u \in U : \A v \in U : u <= v
  BY <1>2, LeastNatural
<1>4. PICK m \in T : u = Cardinality(Above(m))
  BY <1>3
<1>5. ASSUME NEW j \in T, j > m
      PROVE  FALSE
  <2>1. Above(j) \in SUBSET Above(m) /\ j \in Above(m) /\ j \notin Above(j)
    <3>1. \A x \in T : x \in Nat
      OBVIOUS
    <3>2. \A x \in T : x > j => x > m
      BY <1>5, <3>1
    <3>3. ~(j > j)
      BY <3>1
    <3>4. Above(j) \in SUBSET Above(m)
      BY <3>2
    <3>5. j \in Above(m) /\ j \notin Above(j)
      BY <1>5, <3>3
    <3> QED BY <3>4, <3>5
  <2>2. Cardinality(Above(j)) <= Cardinality(Above(m)) /\ Cardinality(Above(m)) # Cardinality(Above(j))
    BY <1>1, <2>1, FS_Subset
  <2>3. Cardinality(Above(m)) <= Cardinality(Above(j))
    BY <1>3, <1>4
  <2> QED BY <1>1, <2>2, <2>3
<1> QED BY <1>5

\* ReachedPhase is the highest.
LEMMA ReachedHighest == ReachedPhase \in Ranks /\ \A q \in Ranks : q <= ReachedPhase
<1> DEFINE E == {x \in Stages : Entered(x)}
           T == {Rank[s] : s \in E}
           f == [s \in E |-> Rank[s]]
<1>1. T \in SUBSET Nat
  BY GraphAssumption
<1>2. IsFiniteSet(E)
  BY GraphAssumption, FS_Subset
<1>3. f \in Surjection(E, T)
  BY DEF Surjection
<1>4. IsFiniteSet(T)
  BY <1>2, <1>3, FS_Surjection
<1> HIDE DEF T
<1>5. Ranks = T \cup {0}
  BY DEF Ranks, T
<1>6. IsFiniteSet(Ranks) /\ Ranks \in SUBSET Nat /\ Ranks # {}
  BY <1>1, <1>4, <1>5, FS_AddElement
<1>7. \E r \in Ranks : \A q \in Ranks : q <= r
  BY <1>6, FiniteGreatest
<1>8. ReachedPhase = CHOOSE r \in Ranks : \A q \in Ranks : q <= r
  BY DEF ReachedPhase, Ranks
<1> QED BY <1>7, <1>8

\* So what is no lower than any is it.
LEMMA ReachedIs ==
  ASSUME NEW r \in Ranks, \A q \in Ranks : q <= r
  PROVE  ReachedPhase = r
<1>1. Ranks \in SUBSET Nat
  BY GraphAssumption DEF Ranks
<1> QED BY <1>1, ReachedHighest

\* A stage has been started before it is anything else.
LEMMA BegunNext == TypeOK /\ Begun /\ [Next]_vars => Begun'
<1> SUFFICES ASSUME TypeOK, Begun, [Next]_vars
             PROVE  Begun'
  OBVIOUS
<1>1. CASE Next
  <2>1. PICK events \in SUBSET Event : Transacts(events)
    BY <1>1, Transactions
  <2> SUFFICES ASSUME NEW s \in Stages, status'[s] \notin Idle
               PROVE  Commits(s, {"STARTED"})' # {}
    BY DEF Begun, Entered, Idle
  <2>2. Commits(s, {"STARTED"})' =
          Commits(s, {"STARTED"}) \cup
            IF Concerns(events, s, {"STARTED"}) THEN {Len(ledger) + 1} ELSE {}
    BY <2>1, CommitsAppended DEF Transacts, TypeOK
  <2> QED BY <2>1, <2>2 DEF Transacts, Turns, Begun, Entered
<1>2. CASE UNCHANGED vars
  BY <1>2 DEF vars, Begun, Entered, Commits, Idle
<1> QED BY <1>1, <1>2

\* A step that starts nothing reaches no other phase.
LEMMA ReachedStays ==
  ASSUME TypeOK, Next, \A s \in Stages : ~Start(s)
  PROVE  ReachedPhase' = ReachedPhase
<1>1. PICK events \in SUBSET Event : Transacts(events)
  BY Transactions
<1>2. ASSUME NEW s \in Stages
      PROVE  Entered(s)' <=> Entered(s)
  <2>1. ~Concerns(events, s, {"STARTED"})
    BY <1>1 DEF Transacts, Concerns
  <2>2. Commits(s, {"STARTED"})' =
          Commits(s, {"STARTED"}) \cup
            IF Concerns(events, s, {"STARTED"}) THEN {Len(ledger) + 1} ELSE {}
    BY <1>1, CommitsAppended DEF Transacts, TypeOK
  <2> QED BY <2>1, <2>2 DEF Entered
<1>3. {x \in Stages : Entered(x)'} = {x \in Stages : Entered(x)}
  BY <1>2
<1>4. Ranks' = Ranks
  BY <1>3 DEF Ranks
<1> QED BY <1>4 DEF ReachedPhase, Ranks

\* A stage starts in the phase reached, or enters the next.
LEMMA StartEnters ==
  ASSUME TypeOK, NEW s \in Stages, Start(s)
  PROVE  /\ Valid' = Valid
         /\ \/ ReachedPhase' = ReachedPhase
            \/ Rank[s] >= ReachedPhase /\ ReachedPhase' = Rank[s]
<1>1. \A x \in Stages : status'[x] \in Satisfying <=> status[x] \in Satisfying
  BY DEF Start, Transition, TypeOK, Satisfying
<1>2. Valid' = Valid
  BY <1>1 DEF Valid
<1>3. ASSUME NEW x \in Stages
      PROVE  Entered(x)' <=> Entered(x) \/ x = s
  <2> DEFINE events == {StageEvent("STARTED", s)}
  <2>1. ledger' = Append(ledger, events) /\ ledger \in Seq(SUBSET Event)
    BY DEF Start, Transition, TypeOK
  <2>2. Concerns(events, x, {"STARTED"}) <=> x = s
    BY DEF Concerns, StageEvent
  <2> HIDE DEF events
  <2>3. Commits(x, {"STARTED"})' =
          Commits(x, {"STARTED"}) \cup
            IF Concerns(events, x, {"STARTED"}) THEN {Len(ledger) + 1} ELSE {}
    BY <2>1, CommitsAppended
  <2> QED BY <2>2, <2>3 DEF Entered
<1>4. Ranks' = Ranks \cup {Rank[s]}
  BY <1>3 DEF Ranks
<1>5. CASE Rank[s] = 0
  <2>1. Ranks' = Ranks
    BY <1>4, <1>5 DEF Ranks
  <2> QED BY <1>2, <2>1 DEF ReachedPhase, Ranks
<1>6. CASE Rank[s] # 0
  <2>1. \A x \in Stages : Entered(x) => ~(Rank[x] > Rank[s])
    BY <1>6 DEF Start, LocalRepair
  <2>2. \A q \in Ranks : q <= Rank[s]
    BY <2>1, GraphAssumption DEF Ranks
  <2>3. \A q \in Ranks' : q <= Rank[s]
    BY <1>4, <2>2, GraphAssumption
  <2>4. Rank[s] \in Ranks'
    BY <1>4
  <2>5. ReachedPhase' = CHOOSE r \in Ranks' : \A q \in Ranks' : q <= r
    BY DEF ReachedPhase, Ranks
  <2>6. Ranks' \in SUBSET Nat
    BY GraphAssumption DEF Ranks
  <2>7. ReachedPhase' \in Ranks' /\ \A q \in Ranks' : q <= ReachedPhase'
    BY <2>3, <2>4, <2>5
  <2>8. ReachedPhase' <= Rank[s] /\ Rank[s] <= ReachedPhase' /\ ReachedPhase' \in Nat /\ Rank[s] \in Nat
    BY <2>3, <2>4, <2>6, <2>7
  <2>9. ReachedPhase' = Rank[s]
    BY <2>8
  <2> QED BY <1>2, <2>2, <2>9, ReachedHighest
<1> QED BY <1>5, <1>6

\* A stage ends over results that hold, unless it accepts others.
LEMMA EndAccepts ==
  ASSUME TypeOK, DependenciesHold, NEW s \in Stages, NEW v, Ended(s, v)
  PROVE  \/ Valid' = Valid
         \/ /\ s \notin Valid
            /\ s \in AcceptFailed \/ Deps[s] \subseteq Valid
            /\ Valid' = Valid \cup {s}
<1>1. status \in [Stages -> Status] /\ status[s] = "RUNNING" /\ v \in Terminal
  BY DEF TypeOK, Ended
<1>2. \A x \in Stages : status'[x] \in Satisfying
                          <=> IF x = s THEN v \in Satisfying ELSE status[x] \in Satisfying
  BY <1>1 DEF Ended, Refreshed, Satisfying, Terminal
<1>3. s \in AcceptFailed \/ Deps[s] \subseteq Valid
  BY <1>1, GraphAssumption DEF DependenciesHold, Valid
<1>4. s \notin Valid
  BY <1>1 DEF Valid, Satisfying
<1>5. CASE v \in Satisfying
  <2>1. Valid' = Valid \cup {s}
    BY <1>2, <1>5 DEF Valid
  <2> QED BY <1>3, <1>4, <2>1
<1>6. CASE v \notin Satisfying
  <2>1. \A x \in Stages : status'[x] \in Satisfying <=> status[x] \in Satisfying
    BY <1>1, <1>2, <1>6 DEF Satisfying
  <2> QED BY <2>1 DEF Valid
<1> QED BY <1>5, <1>6

\* A repair withdraws a result of the phase reached with all that rests on it.
LEMMA RetryWithdraws ==
  ASSUME TypeOK, Begun, NEW s \in Stages, NEW t \in Stages, NEW p, Retry(s, t, p)
  PROVE  /\ s \in Valid
         /\ Rank[s] = ReachedPhase
         /\ Valid' = Valid \ Descendants[s]
<1>1. /\ status[s] = "PASS" /\ status[t] = "RUNNING" /\ LocalRepair(s, t) /\ s < t
      /\ status' = [x \in Stages |-> IF x \in Descendants[s] THEN ResetStatus(x, s) ELSE status[x]]
  BY DEF Retry, RetryTouches, Transition
<1>2. s # t
  BY <1>1, GraphAssumption
<1>3. Rank[s] = Rank[t] /\ Rank[s] # 0 /\ Rank[s] \in Nat
  BY <1>1, <1>2, GraphAssumption DEF LocalRepair, SamePhase
<1>4. \A x \in Stages : Entered(x) => ~(Rank[x] > Rank[s])
  BY <1>1, <1>3 DEF LocalRepair
<1>5. \A q \in Ranks : q <= Rank[s]
  BY <1>3, <1>4, GraphAssumption DEF Ranks
<1>6. Entered(t)
  BY <1>1 DEF Begun, Idle
<1>7. Rank[s] \in Ranks
  BY <1>3, <1>6 DEF Ranks
<1>8. \A x \in Stages : status'[x] \in Satisfying
                          <=> status[x] \in Satisfying /\ x \notin Descendants[s]
  BY <1>1 DEF ResetStatus, Satisfying
<1>9. Valid' = Valid \ Descendants[s]
  BY <1>8 DEF Valid
<1> QED BY <1>1, <1>5, <1>7, <1>9, ReachedIs DEF Valid, Satisfying

\* Every transaction is a step of PhasedResults or none of its business.
LEMMA ResultsNext ==
  TypeOK /\ DependenciesHold /\ Begun /\ [Next]_vars => [Results!Next]_(Results!vars)
<1> SUFFICES ASSUME TypeOK, DependenciesHold, Begun, [Next]_vars
             PROVE  \/ Valid' = Valid /\ ReachedPhase' = ReachedPhase
                    \/ Results!Next
  BY DEF Results!vars, Valid
<1>1. ASSUME NEW s \in Stages, Start(s)
      PROVE  \/ Valid' = Valid /\ ReachedPhase' = ReachedPhase
             \/ Results!Enter(s)
  BY <1>1, StartEnters DEF Results!Enter, Valid
<1>2. CASE Next /\ \A s \in Stages : ~Start(s)
  <2>1. ReachedPhase' = ReachedPhase
    BY <1>2, ReachedStays
  <2>2. ASSUME NEW s \in Stages, NEW v, Ended(s, v)
        PROVE  Valid' = Valid \/ Results!Accept(s)
    BY <2>1, <2>2, EndAccepts DEF Results!Accept, Valid
  <2>3. ASSUME NEW s \in Stages, NEW t \in Stages, NEW p, Retry(s, t, p)
        PROVE  Results!Withdraw(s)
    BY <2>1, <2>3, RetryWithdraws DEF Results!Withdraw, Valid
  <2>4. ASSUME NEW s \in Stages, NEW v \in Status, Moved(s, v)
        PROVE  Valid' = Valid
    <3>1. \A x \in Stages : status'[x] \in Satisfying <=> status[x] \in Satisfying
      BY <2>4 DEF Moved, TypeOK, Terminal
    <3> QED BY <3>1 DEF Valid
  <2>5. ASSUME status' = status
        PROVE  Valid' = Valid
    <3>1. \A x \in Stages : status'[x] \in Satisfying <=> status[x] \in Satisfying
      BY <2>5
    <3> QED BY <3>1 DEF Valid
  <2>6. \/ status' = status
        \/ \E s \in Stages, v \in Status : Moved(s, v) \/ Ended(s, v)
        \/ \E s, t \in Stages, p \in Progress \cup {NoProgress} : Retry(s, t, p)
    BY <1>2, NextSteps
  <2> QED BY <2>1, <2>2, <2>3, <2>4, <2>5, <2>6 DEF Results!Next
<1>3. CASE UNCHANGED vars
  <2>1. status' = status /\ ledger' = ledger
    BY <1>3 DEF vars
  <2> QED BY <2>1 DEF Valid, ReachedPhase, Entered, Commits
<1> QED BY <1>1, <1>2, <1>3 DEF Results!Next

\* Nothing holds and no phase is entered at first.
LEMMA ResultsInit == Init => Begun /\ Results!Init
<1> SUFFICES ASSUME Init
             PROVE  Begun /\ Results!Init
  OBVIOUS
<1>1. \A s \in Stages : status[s] \in Idle
  BY DEF Init, InitialStatus, Idle
<1>2. Valid = {}
  BY <1>1 DEF Valid, Idle, Satisfying
<1>3. \A s : ~Entered(s)
  BY DEF Init, Entered, Commits
<1>4. Ranks = {0}
  BY <1>3 DEF Ranks
<1>5. ReachedPhase = 0
  BY <1>4, ReachedHighest
<1> QED BY <1>1, <1>2, <1>5 DEF Begun, Results!Init, Valid

\* In every workflow results are accepted over results, and withdrawn with all that rests on
\* them, in the phase reached.
THEOREM LedgerImplementsPhasedResults == Spec => ImplementsPhasedResults
<1>1. Init => TypeOK /\ DependenciesHold /\ Begun /\ Results!Init
  BY TypeOKInit, DependenciesHoldInit, ResultsInit
<1>2. TypeOK /\ DependenciesHold /\ Begun /\ [Next]_vars
        => TypeOK' /\ DependenciesHold' /\ Begun' /\ [Results!Next]_(Results!vars)
  BY TypeOKNext, DependenciesHoldNext, BegunNext, ResultsNext
<1> QED BY <1>1, <1>2, PTL DEF Spec, ImplementsPhasedResults, Results!Spec
-----------------------------------------------------------------------------
(* The order of the phases.                                                *)

\* Only a start enters a stage.
LEMMA EnteredBefore ==
  ASSUME TypeOK, Next, NEW x \in Stages, Entered(x)'
  PROVE  Entered(x) \/ Start(x)
<1>1. PICK events \in SUBSET Event : Transacts(events)
  BY Transactions
<1>2. Commits(x, {"STARTED"})' =
        Commits(x, {"STARTED"}) \cup
          IF Concerns(events, x, {"STARTED"}) THEN {Len(ledger) + 1} ELSE {}
  BY <1>1, CommitsAppended DEF Transacts, TypeOK
<1>3. Concerns(events, x, {"STARTED"}) => Start(x)
  BY <1>1 DEF Transacts, Concerns
<1> QED BY <1>2, <1>3 DEF Entered

\* Whatever rests on a stage that is not complete is pending.
LEMMA WithheldBelow ==
  ASSUME DependenciesHold, AcceptFailed = {}, NEW s \in Stages, status[s] \notin Satisfying
  PROVE  \A x \in Descendants[s] : x # s => status[x] = "PENDING"
<1> DEFINE Astray == {x \in Descendants[s] : x # s /\ status[x] # "PENDING"}
<1> SUFFICES ASSUME Astray # {}
             PROVE  FALSE
  OBVIOUS
<1>1. Stages \subseteq Nat /\ Deps \in [Stages -> SUBSET Stages]
  BY GraphAssumption
<1>2. Astray \in SUBSET Nat
  BY <1>1, DescendantsProperties
<1>3. PICK x \in Astray : \A y \in Astray : x <= y
  BY <1>2, LeastNatural
<1>4. x \in Stages /\ x # s /\ status[x] # "PENDING"
  BY <1>3, DescendantsProperties
<1>5. PICK d \in Deps[x] : d \in Descendants[s]
  BY <1>3, <1>4, DescendantsProperties
<1>6. d \in Nat /\ x \in Nat /\ d < x
  BY <1>1, <1>4, GraphAssumption
<1>7. status[d] \in Satisfying
  BY <1>4 DEF DependenciesHold
<1>8. d # s /\ status[d] # "PENDING"
  BY <1>7 DEF Satisfying
<1>9. x <= d
  BY <1>3, <1>5, <1>8
<1> QED BY <1>6, <1>9

\* Nothing that rests on a stage of a phase lies in an earlier phase.
LEMMA DescendantsNotEarlier ==
  ASSUME PhasesRestOnEarlier, NEW t \in Stages, NEW s \in Descendants[t], Rank[s] # 0
  PROVE  Rank[t] <= Rank[s]
<1>1. /\ s \in Stages /\ s \in Nat /\ t \in Nat
      /\ Rank[s] \in Nat /\ Rank[t] \in Nat
      /\ t <= s
  BY DescendantsProperties, GraphAssumption
<1>2. SUFFICES ASSUME Rank[s] < Rank[t]
               PROVE  FALSE
  BY <1>1
<1>3. t \in Descendants[s]
  BY <1>1, <1>2 DEF PhasesRestOnEarlier, Descendants
<1>4. s <= t
  BY <1>1, <1>3, DescendantsProperties
<1>5. s = t
  BY <1>1, <1>4
<1> QED BY <1>1, <1>2, <1>5

\* What is complete stays so unless a repair withdraws it, and a repair reaches no
\* stage over which a later phase has been entered.
LEMMA PhasesInOrderNext ==
  PhasesRestOnEarlier /\ TypeOK /\ DependenciesHold /\ PhasesInOrder /\ [Next]_vars => PhasesInOrder'
<1> SUFFICES ASSUME PhasesRestOnEarlier, TypeOK, DependenciesHold, PhasesInOrder, [Next]_vars,
                    NEW s \in Stages, NEW later \in Stages,
                    0 < Rank[s], Rank[s] < Rank[later], Entered(later)'
             PROVE  status'[s] \in Satisfying
  BY DEF PhasesInOrder
<1>1. CASE UNCHANGED vars
  <2>1. status' = status /\ Entered(later)
    BY <1>1 DEF vars, Entered, Commits
  <2> QED BY <2>1 DEF PhasesInOrder
<1>2. CASE Next
  <2>1. status \in [Stages -> Status]
    BY DEF TypeOK
  <2>2. status[s] \in Satisfying
    <3>1. CASE Entered(later)
      BY <3>1 DEF PhasesInOrder
    <3>2. CASE Start(later)
      <4>1. status[later] = "READY"
        BY <3>2 DEF Start
      <4>2. later \in Descendants[s] /\ later # s /\ AcceptFailed = {}
        BY GraphAssumption DEF PhasesRestOnEarlier, Descendants
      <4> QED BY <4>1, <4>2, WithheldBelow
    <3> QED BY <1>2, <3>1, <3>2, EnteredBefore
  <2>3. ASSUME NEW x \in Stages, NEW v \in Status, Moved(x, v)
        PROVE  status'[s] \in Satisfying
    BY <2>1, <2>2, <2>3 DEF Moved
  <2>4. ASSUME NEW x \in Stages, NEW v \in Status, Ended(x, v)
        PROVE  status'[s] \in Satisfying
    <3>1. s # x
      BY <2>2, <2>4 DEF Ended, Satisfying
    <3> QED BY <2>1, <2>2, <2>4, <3>1 DEF Ended, Refreshed, Satisfying
  <2>5. ASSUME NEW target \in Stages, NEW trigger \in Stages, NEW p, Retry(target, trigger, p)
        PROVE  status'[s] \in Satisfying
    <3>1. /\ LocalRepair(target, trigger) /\ target < trigger
          /\ status' = [x \in Stages |-> IF x \in Descendants[target] THEN ResetStatus(x, target)
                                         ELSE status[x]]
      BY <2>5 DEF Retry, Transition
    <3>2. CASE s \notin Descendants[target]
      BY <2>2, <3>1, <3>2
    <3>3. CASE s \in Descendants[target]
      <4>1. target # trigger
        BY <3>1, GraphAssumption
      <4>2. Rank[target] # 0
        BY <3>1, <4>1 DEF LocalRepair, SamePhase
      <4>3. Rank[target] <= Rank[s]
        BY <3>3, GraphAssumption, DescendantsNotEarlier
      <4>4. Rank[later] > Rank[target]
        BY <4>3, GraphAssumption
      <4>5. ~Entered(later)
        BY <3>1, <4>2, <4>4 DEF LocalRepair
      <4>6. ~Start(later)
        <5>1. status'[trigger] # "RUNNING"
          BY <2>5, <3>1 DEF Retry, ResetStatus
        <5>2. status[trigger] = "RUNNING"
          BY <2>5 DEF Retry, RetryTouches
        <5>3. Start(later) => status' = [status EXCEPT ![later] = "RUNNING"]
          BY DEF Start, Transition
        <5> QED BY <2>1, <5>1, <5>2, <5>3
      <4> QED BY <1>2, <4>5, <4>6, EnteredBefore
    <3> QED BY <3>2, <3>3
  <2>6. CASE status' = status
    BY <2>2, <2>6
  <2> QED BY <1>2, <2>3, <2>4, <2>5, <2>6, NextSteps
<1> QED BY <1>1, <1>2

\* In every workflow whose stages rest on the earlier phases, a phase is entered only over
\* complete earlier phases, whatever is repaired or opened again.
THEOREM PhasesAlwaysInOrder ==
  ASSUME PhasesRestOnEarlier
  PROVE  Spec => []PhasesInOrder
<1>1. Init => PhasesInOrder
  BY DEF Init, PhasesInOrder, Entered, Commits
<1>2. TypeOK /\ DependenciesHold /\ PhasesInOrder /\ [Next]_vars
        => TypeOK' /\ DependenciesHold' /\ PhasesInOrder'
  BY PhasesRestOnEarlier, TypeOKNext, DependenciesHoldNext, PhasesInOrderNext
<1> QED BY <1>1, <1>2, TypeOKInit, DependenciesHoldInit, PTL DEF Spec
=============================================================================
