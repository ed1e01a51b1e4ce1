----------------------- MODULE DeliveryPipelineProofs -----------------------
(***************************************************************************)
(* Proofs about DeliveryPipeline, for any files and contents, whatever     *)
(* trees workers and their scripts leave, and for any number of turns,     *)
(* strays, repairs and crashes.                                            *)
(*                                                                         *)
(* The results of a stage only change while it is the one being worked on, *)
(* and a stage is pending until all before it have passed (InOrder).  The  *)
(* controller works on that stage alone (AtWork), and findings keep it     *)
(* there until they are judged (FindingsFirst).  So what a stage is        *)
(* accepted with refers to results that stand (Results).                   *)
(***************************************************************************)
EXTENDS DeliveryPipeline, TLAPS

-----------------------------------------------------------------------------
(* The inductive invariant.                                                *)

States == {"PENDING", "READY", "RUNNING", "BLOCKED", "PASS"}

Working(s) == s \in Stages /\ status[s] \in {"READY", "RUNNING"}

\* A stage is pending until all before it have passed.
InOrder == \A s \in Stages : status[s] # "PENDING" => \A r \in 1 .. s - 1 : status[r] = "PASS"

Whats == {"loop", "gate", "ask", "judge", "smoke", "seal", "rebind", "capture", "execute", "recheck"}

\* What the controller does, it does for the stage being worked on.
AtWork ==
  /\ at \in [what : Whats, stage : Stages \cup {None}, why : Reasons \cup {None}]
  /\ at.what = "loop" => at = Loop
  /\ at.what # "loop" => Working(at.stage)
  /\ at.what \in {"smoke", "seal", "rebind"} => at.stage = I
  /\ at.what = "capture" => at.stage = A
  /\ at.what \in {"execute", "recheck"} => at.stage = Q

\* What the captured outputs of the stage being worked on are.
Pending(s) ==
  /\ Working(s)
  /\ s = I => findings.product \in Bundles /\ findings.product.frame = frame
  /\ s = A => findings.product \in Identities
  /\ s = Q => findings.product \in Runs /\ attempt \in Attempts

\* Findings are put to the worker of their stage before anything else is done.
FindingsFirst ==
  /\ at.what = "judge" => findings # None
  /\ findings # None => at.what \in {"loop", "judge"} /\ \E s \in {I, A, Q} : Pending(s)

\* What was accepted refers to what is accepted; findings may be about the run or the check,
\* never about the framework a driver was frozen with.
Results ==
  /\ status[I] = "PASS" => bundle \in Bundles /\ bundle.frame = frame
  /\ status[A] = "PASS" /\ A \notin judged => identity.bundle = bundle
  /\ status[Q] = "PASS" /\ Q \notin judged =>
       report.bundle = bundle /\ report.identity = identity /\ report.ok
  /\ status[R] = "PASS" =>
       review = [frame |-> frame, bundle |-> bundle, identity |-> identity, report |-> report]

\* What is sealed has just passed a smoke.
SealedAfterSmoke == at.what = "seal" => tree \in smokes /\ Holds(frame, tree)

\* A stage at fault has no job, and neither a receipt nor a step under way would spare it one.
Owed ==
  \A s \in owed :
    /\ status[s] # "PASS"
    /\ status[s] # "PENDING" => job = None
    /\ s \in {I, A} => /\ status[s] # "PENDING"
                       /\ prepared = None
                       /\ at.what \in {"loop", "gate", "ask", "judge"}

IInv == TypeOK /\ InOrder /\ AtWork /\ FindingsFirst /\ Results /\ SealedAfterSmoke /\ SmokeCoversSource /\ Owed

-----------------------------------------------------------------------------
(* What happens to the stage rows.                                         *)

USE DEF Stages, F, I, A, Q, R, Doing, Loop, Gate, Ask

\* What is frozen of the tree is a snapshot of it.
LEMMA Taken ==
  ASSUME TypeOK, NEW S \in SUBSET Paths
  PROVE  Take(S) \in Snapshots /\ DOMAIN Take(S) = S /\ Holds(Take(S), tree)
BY DEF TypeOK, Trees, Snapshots, Take, Holds

\* A stage that starts, is blocked or opened again.
LEMMA StageStays ==
  ASSUME TypeOK, InOrder, NEW s \in Stages, status[s] \in {"READY", "RUNNING", "BLOCKED"},
         NEW x \in {"READY", "RUNNING", "BLOCKED"}, status' = [status EXCEPT ![s] = x]
  PROVE  /\ status' \in [Stages -> States] /\ status'[s] = x
         /\ \A r \in Stages \ {s} : status'[r] = status[r]
         /\ InOrder'
BY DEF TypeOK, InOrder, States

\* A stage that is accepted: the next one is ready, or started.
LEMMA StageCommits ==
  ASSUME TypeOK, InOrder, NEW s \in Stages, Working(s), NEW next \in {"READY", "RUNNING"},
         CommitThen(s, next)
  PROVE  /\ status' \in [Stages -> States] /\ status'[s] = "PASS"
         /\ s < 5 => status'[s + 1] = next
         /\ \A r \in Stages : r < s => status[r] = "PASS" /\ status'[r] = "PASS"
         /\ \A r \in Stages : r > s => status[r] = "PENDING"
         /\ \A r \in Stages : r > s + 1 => status'[r] = "PENDING"
         /\ InOrder'
BY DEF TypeOK, InOrder, States, Working, CommitThen

\* A repair blocks who asks, or undoes the target and all that was built on it.
LEMMA StageSentBack ==
  ASSUME TypeOK, InOrder, NEW s \in Stages, NEW t \in Stages, t < s, Working(s),
         NEW debt, SendBack(t, s, debt)
  PROVE  \/ /\ Exhausted(t, s)
            /\ status' \in [Stages -> States] /\ status'[s] = "BLOCKED" 
            /\ \A r \in Stages \ {s} : status'[r] = status[r]
            /\ InOrder'
         \/ /\ status' \in [Stages -> States]
            /\ status'[t] = "READY"
            /\ \A r \in Stages : r < t => status'[r] = "PASS" /\ status[r] = "PASS"
            /\ \A r \in Stages : r > t => status'[r] = "PENDING"
            /\ \A r \in Stages : r < s => status[r] = "PASS"
            /\ \A r \in Stages : r > s => status[r] = "PENDING"
            /\ InOrder'
            /\ job' = None /\ attempt' = None /\ UNCHANGED bundle
            /\ frame' = (IF t = F THEN None ELSE frame)
            /\ identity' = (IF t <= A THEN None ELSE identity)
            /\ report' = (IF t <= Q THEN None ELSE report)
            /\ review' = None
            /\ repairing' = (repairing \ Undone(t)) \cup Opens(t)
            /\ prepared' = (IF t <= A THEN None ELSE prepared)
            /\ judged' = judged \ Undone(t)
            /\ owed' = owed \cup debt
<1>1. CASE Exhausted(t, s)
  BY <1>1 DEF TypeOK, InOrder, States, Working, Exhausted
<1>2. CASE ~Exhausted(t, s)
  BY <1>2, NoneAssumption DEF TypeOK, InOrder, States, Working, SendBack, Undone, Kept, Receipt, Opens
<1> QED BY <1>1, <1>2

\* A smoke covers the source as long as neither the driver nor the framework changes.
LEMMA SmokeStands ==
  ASSUME SmokeCoversSource, bundle' = bundle, smokes \subseteq smokes',
         status'[I] = "PASS" /\ I \notin judged' => frame' = frame /\ status[I] = "PASS" /\ I \notin judged
  PROVE  SmokeCoversSource'
<1> SUFFICES ASSUME status'[I] = "PASS", I \notin judged'
             PROVE  \E t \in smokes' : Holds(bundle'.files, t) /\ Holds(frame', t)
  BY DEF SmokeCoversSource
<1>1. PICK t \in smokes : Holds(bundle.files, t) /\ Holds(frame, t)
  BY DEF SmokeCoversSource
<1>2. t \in smokes' /\ Holds(bundle'.files, t) /\ Holds(frame', t)
  BY <1>1
<1> QED BY <1>2

-----------------------------------------------------------------------------
(* What workers and their scripts may do.                                  *)

\* The trees workers and scripts leave are trees.
LEMMA WorksAreTrees == Works \subseteq Trees
BY TreeAssumption DEF Trees, Values, Paths

\* Submissions are among the answers a job may hold.
LEMMA Submitted ==
  ASSUME NEW s \in Stages
  PROVE  Submissions(s) \subseteq {Pass, Blocker, Run} \cup {Asks(t) : t \in Stages}
BY DEF Submissions

\* A worker's turn leaves a tree.
LEMMA Edits ==
  ASSUME TypeOK, NEW s \in Stages, Edit(s)
  PROVE  tree' \in Trees /\ edits' \in 0 .. MaxEdits
BY WorksAreTrees, TreeAssumption DEF TypeOK, Edit, Edited

\* And so does a script.
LEMMA Strays ==
  ASSUME TypeOK, NEW after \in Works \cup {tree}, Executes(after)
  PROVE  tree' \in Trees /\ strays' \in 0 .. MaxStrays
BY WorksAreTrees, TreeAssumption DEF TypeOK, Executes

-----------------------------------------------------------------------------
(* Steps that several actions take.                                        *)

\* Findings wait while nothing else is done.
LEMMA FindingsStand ==
  ASSUME FindingsFirst, UNCHANGED <<findings, frame, attempt>>,
         at'.what \in {"loop", "judge"} \/ findings = None,
         at'.what = "judge" => findings # None,
         findings # None => UNCHANGED status
  PROVE  FindingsFirst'
<1>1. CASE findings = None
  BY <1>1 DEF FindingsFirst
<1>2. CASE findings # None
  <2>1. PICK s \in {I, A, Q} : Pending(s)
    BY <1>2 DEF FindingsFirst
  <2>2. Pending(s)'
    BY <1>2, <2>1 DEF Pending, Working
  <2> QED BY <1>2, <2>1, <2>2 DEF FindingsFirst
<1> QED BY <1>1, <1>2

\* Sending back, whoever asks for it.
LEMMA SentBack ==
  ASSUME IInv, NEW s \in Stages, NEW t \in Stages, t < s, Working(s), NEW debt,
         SendBack(t, s, debt),
         s \in {I, A} => s \notin owed,
         debt = {} \/ (debt = {t} /\ at' = Loop),
         tree' \in Trees, UNCHANGED <<smokes, edits>>, strays' \in 0 .. MaxStrays
  PROVE  TypeOK' /\ InOrder' /\ Results' /\ SmokeCoversSource' /\ Owed'
<1>1. CASE Exhausted(t, s)
  <2>1. InOrder' /\ status' \in [Stages -> States]
        /\ status'[s] = "BLOCKED" /\ \A r \in Stages \ {s} : status'[r] = status[r]
    BY <1>1, StageSentBack DEF IInv, Exhausted, TypeOK, States, InOrder, Working
  <2>2. TypeOK'
    BY <1>1, <2>1 DEF IInv, TypeOK, States, Exhausted, products, Working
  <2>3. Results'
    BY <1>1, <2>1 DEF IInv, Results, Exhausted, products
  <2>4. SmokeCoversSource'
    BY <1>1, <2>1, SmokeStands DEF IInv, Exhausted, products
  <2>5. Owed'
    BY <1>1, <2>1 DEF IInv, TypeOK, InOrder, Owed, Exhausted, Working
  <2> QED BY <2>1, <2>2, <2>3, <2>4, <2>5
<1>2. CASE ~Exhausted(t, s)
  <2>1. /\ status' \in [Stages -> States]
        /\ status'[t] = "READY"
        /\ \A r \in Stages : r < t => status'[r] = "PASS" /\ status[r] = "PASS"
        /\ \A r \in Stages : r > t => status'[r] = "PENDING"
        /\ \A r \in Stages : r < s => status[r] = "PASS"
        /\ \A r \in Stages : r > s => status[r] = "PENDING"
        /\ InOrder'
        /\ job' = None /\ attempt' = None /\ UNCHANGED bundle
        /\ frame' = (IF t = F THEN None ELSE frame)
        /\ identity' = (IF t <= A THEN None ELSE identity)
        /\ report' = (IF t <= Q THEN None ELSE report)
        /\ review' = None
        /\ repairing' = (repairing \ Undone(t)) \cup Opens(t)
        /\ prepared' = (IF t <= A THEN None ELSE prepared)
        /\ judged' = judged \ Undone(t)
        /\ owed' = owed \cup debt
    BY <1>2, StageSentBack DEF IInv
  <2>2. TypeOK'
    <3>1. /\ status'[F] = "PASS" <=> frame' # None
          /\ status'[A] = "PASS" <=> identity' # None
          /\ status'[Q] = "PASS" <=> report' # None
          /\ status'[R] = "PASS" <=> review' # None
      BY <2>1 DEF IInv, TypeOK
    <3>2. repairing' \subseteq {I, A} /\ judged' \subseteq {I, A, Q} /\ owed' \subseteq Stages
      BY <2>1 DEF IInv, TypeOK, Opens
    <3> QED BY <2>1, <3>1, <3>2 DEF IInv, TypeOK, States
  <2>3. Results'
    BY <2>1 DEF IInv, Results, Undone
  <2>4. SmokeCoversSource'
    BY <2>1, SmokeStands DEF IInv, Undone
  <2>5. Owed'
    BY <2>1 DEF IInv, TypeOK, InOrder, Owed, Working
  <2> QED BY <2>1, <2>2, <2>3, <2>4, <2>5
<1> QED BY <1>1, <1>2

\* A later stage that found the driver changed.
LEMMA DriftedKeeps ==
  ASSUME IInv, NEW s \in {A, Q}, Working(s), Drifted(s), at.what \notin {"loop", "judge"},
         s = A => A \notin owed,
         tree' \in Trees, UNCHANGED <<smokes, edits>>, strays' \in 0 .. MaxStrays
  PROVE  IInv'
<1>1. TypeOK' /\ InOrder' /\ Results' /\ SmokeCoversSource' /\ Owed'
  BY SentBack DEF Drifted
<1>2. AtWork' /\ FindingsFirst' /\ SealedAfterSmoke'
  BY DEF IInv, Drifted, AtWork, FindingsFirst, SealedAfterSmoke, Whats
<1> QED BY <1>1, <1>2 DEF IInv

\* An error of the adapter changes no row and no result.
LEMMA FailKeeps ==
  ASSUME IInv, NEW s \in Stages, Working(s), Fail(s), at.what \notin {"loop", "judge"},
         tree' \in Trees, UNCHANGED <<smokes, judged, owed, edits>>, strays' \in 0 .. MaxStrays
  PROVE  IInv'
<1>1. TypeOK' /\ InOrder' /\ Results'
  BY DEF IInv, TypeOK, InOrder, Results, Fail, ledger, current, products
<1>2. AtWork' /\ SealedAfterSmoke' /\ Owed'
  BY DEF IInv, AtWork, SealedAfterSmoke, Owed, Whats, Working, Fail, ledger, current
<1>3. SmokeCoversSource'
  BY SmokeStands DEF IInv, Fail, ledger, current, products
<1>4. FindingsFirst'
  BY DEF IInv, FindingsFirst, Fail, ledger
<1> QED BY <1>1, <1>2, <1>3, <1>4 DEF IInv

\* A changed driver found in packaging, by the way packaging was entered.
LEMMA ReturnedKeeps ==
  ASSUME IInv, NEW why, at = Doing("capture", A, why), Returned(why),
         tree' \in Trees, UNCHANGED <<smokes, edits>>, strays' \in 0 .. MaxStrays
  PROVE  IInv'
<1>1. Working(A) /\ A \notin owed /\ findings = None /\ why \in Reasons \cup {None}
  BY DEF IInv, AtWork, Owed, FindingsFirst
<1>2. CASE Drifted(A)
  BY <1>1, <1>2, DriftedKeeps
<1>3. CASE Fail(A) /\ UNCHANGED <<judged, owed>>
  BY <1>1, <1>3, FailKeeps
<1>4. CASE Rebind(why)
  <2>1. TypeOK' /\ InOrder' /\ Results' /\ SmokeCoversSource' /\ Owed'
    BY <1>1, <1>4, SentBack DEF Rebind
  <2>2. at'.what = "rebind" => status'[I] = "READY"
    BY <1>1, <1>4, StageSentBack DEF Rebind, Exhausted, IInv
  <2>3. AtWork'
    BY <1>1, <1>4, <2>2 DEF Rebind, IInv, AtWork, Whats, Working
  <2>4. FindingsFirst' /\ SealedAfterSmoke'
    BY <1>1, <1>4 DEF Rebind, FindingsFirst, SealedAfterSmoke
  <2> QED BY <2>1, <2>3, <2>4 DEF IInv
<1> QED BY <1>2, <1>3, <1>4 DEF Returned

-----------------------------------------------------------------------------
(* The steps.                                                              *)

\* The controller takes up a stage: a prepared repair is no way round an owed one.
LEMMA BeginKeeps ==
  ASSUME IInv, NEW s \in Stages, Begin(s)
  PROVE  IInv'
<1>1. Working(s) /\ (status' = status \/ status' = [status EXCEPT ![s] = "RUNNING"])
  BY DEF Begin, Current, Started, Working
<1>2. InOrder' /\ status' \in [Stages -> States]
  BY <1>1, StageStays DEF IInv, TypeOK, States, Working, InOrder
<1>3. \A r \in Stages : r # s => status'[r] = status[r]
  BY <1>1 DEF IInv, TypeOK
<1>4. status'[s] \in {"READY", "RUNNING"}
  BY <1>1 DEF IInv, TypeOK, Working
<1>5. TypeOK' /\ Results'
  BY <1>1, <1>2, <1>3, <1>4 DEF IInv, TypeOK, Results, States, Begin, products, Working
<1>6. AtWork'
  BY <1>4, StageStays DEF IInv, AtWork, Begin, Whats, Reasons, Mechanical, Working
<1>7. FindingsFirst'
  BY FindingsStand DEF IInv, Begin, FindingsFirst, products, Mechanical
<1>8. SmokeCoversSource' /\ SealedAfterSmoke'
  BY <1>3, <1>4, SmokeStands DEF IInv, SealedAfterSmoke, Begin, Mechanical, products
<1>9. Owed'
  BY <1>1, <1>3, <1>4, NoneAssumption
     DEF IInv, TypeOK, Owed, Begin, IsPrepared, Active, Working, Mechanical
<1> QED BY <1>2, <1>5, <1>6, <1>7, <1>8, <1>9 DEF IInv

\* A turn of the worker pays what its stage owes.
LEMMA TurnKeeps ==
  ASSUME IInv, NEW s \in Stages, Turn(s)
  PROVE  IInv'
<1>1. /\ Working(s) /\ status' = [status EXCEPT ![s] = "RUNNING"]
      /\ at.what \in {"gate", "ask"} /\ findings = None
  BY DEF IInv, Turn, AtWork, FindingsFirst, Started
<1>2. /\ InOrder' /\ status' \in [Stages -> States] /\ status'[s] = "RUNNING"
      /\ \A r \in Stages \ {s} : status'[r] = status[r]
  BY <1>1, StageStays DEF IInv, Working
<1>3. TypeOK'
  <2>1. tree' \in Trees /\ edits' \in 0 .. MaxEdits
    BY Edits DEF IInv, Turn
  <2>2. job' \in {Pass, Blocker, Run} \cup {Asks(t) : t \in Stages}
    BY Submitted DEF Turn
  <2>3. attempt' \in Attempts \cup {None}
    BY DEF IInv, TypeOK, Turn, Attempts
  <2> QED BY <1>1, <1>2, <2>1, <2>2, <2>3 DEF IInv, TypeOK, States, Turn, products, Working
<1>4. AtWork' /\ Results' /\ FindingsFirst' /\ SealedAfterSmoke'
  BY <1>1, <1>2 DEF IInv, AtWork, Results, FindingsFirst, SealedAfterSmoke, Turn, products, Whats, Working
<1>5. SmokeCoversSource'
  BY <1>2, SmokeStands DEF IInv, Turn, products
<1>6. Owed'
  BY <1>1, <1>2 DEF IInv, TypeOK, InOrder, Owed, Turn, Working
<1> QED BY <1>2, <1>3, <1>4, <1>5, <1>6 DEF IInv

\* Findings are of the stage that judges them, so its product is.
LEMMA JudgeKeeps ==
  ASSUME IInv, NEW s \in Stages, Judge(s)
  PROVE  IInv'
<1>1. Working(s) /\ s \in {I, A, Q} /\ Pending(s)
  BY DEF IInv, Judge, AtWork, FindingsFirst, InOrder, Pending, Working
<1>2. tree' \in Trees /\ edits' \in 0 .. MaxEdits
  BY Edits DEF IInv, Judge
<1>3. PICK d \in Submissions(s) :
        IF d = Pass /\ tree' = findings.tree
        THEN /\ Commit(s)
             /\ bundle' = IF s = I THEN findings.product ELSE bundle
             /\ identity' = IF s = A THEN findings.product ELSE identity
             /\ report' = IF s = Q THEN findings.product ELSE report
             /\ judged' = judged \cup {s}
             /\ at' = Loop
        ELSE /\ job' = d
             /\ attempt' = IF s = Q THEN [attempt EXCEPT !.answers = FALSE] ELSE attempt
             /\ at' = Gate(s)
             /\ UNCHANGED <<status, repairing, bundle, identity, report, judged>>
  BY DEF Judge
<1>4. CASE d = Pass /\ tree' = findings.tree
  <2>1. /\ CommitThen(s, "READY") /\ at' = Loop /\ judged' = judged \cup {s}
        /\ bundle' = IF s = I THEN findings.product ELSE bundle
        /\ identity' = IF s = A THEN findings.product ELSE identity
        /\ report' = IF s = Q THEN findings.product ELSE report
    BY <1>3, <1>4 DEF Commit
  <2>2. /\ status' \in [Stages -> States] /\ status'[s] = "PASS" /\ InOrder'
        /\ s < 5 => status'[s + 1] = "READY"
        /\ \A r \in Stages : r < s => status[r] = "PASS" /\ status'[r] = "PASS"
        /\ \A r \in Stages : r > s => status[r] = "PENDING"
        /\ \A r \in Stages : r > s + 1 => status'[r] = "PENDING"
    BY <1>1, <2>1, StageCommits DEF IInv
  <2>3. TypeOK'
    BY <1>1, <1>2, <2>1, <2>2, NoneAssumption
       DEF IInv, TypeOK, States, Judge, CommitThen, Pending, Working
  <2>4. Results'
    BY <1>1, <2>1, <2>2 DEF IInv, Results, Judge, Pending
  <2>5. SmokeCoversSource'
    <3>1. CASE s = I
      BY <2>1, <3>1 DEF SmokeCoversSource
    <3>2. CASE s # I
      BY <1>1, <2>1, <2>2, <3>2, SmokeStands DEF IInv, Judge, Working
    <3> QED BY <3>1, <3>2
  <2>6. AtWork' /\ FindingsFirst' /\ SealedAfterSmoke'
    BY <2>1 DEF AtWork, FindingsFirst, SealedAfterSmoke, Whats, Judge
  <2>7. Owed'
    BY <1>1, <2>1, <2>2 DEF IInv, TypeOK, Owed, Judge, CommitThen, Working
  <2> QED BY <2>2, <2>3, <2>4, <2>5, <2>6, <2>7 DEF IInv
<1>5. CASE ~(d = Pass /\ tree' = findings.tree)
  <2>1. /\ job' = d /\ at' = Gate(s)
        /\ attempt' = IF s = Q THEN [attempt EXCEPT !.answers = FALSE] ELSE attempt
        /\ UNCHANGED <<status, repairing, bundle, identity, report, judged>>
    BY <1>3, <1>5
  <2>2. job' \in {Pass, Blocker, Run} \cup {Asks(t) : t \in Stages}
    BY <2>1, Submitted
  <2>3. attempt' \in Attempts \cup {None}
    BY <1>1, <2>1 DEF IInv, TypeOK, Pending, Attempts
  <2>4. TypeOK'
    BY <1>2, <2>1, <2>2, <2>3 DEF IInv, TypeOK, Judge
  <2>5. AtWork' /\ FindingsFirst' /\ SealedAfterSmoke' /\ InOrder'
    BY <1>1, <2>1 DEF IInv, AtWork, FindingsFirst, SealedAfterSmoke, Whats, Judge, Working, InOrder
  <2>6. Results'
    BY <2>1 DEF IInv, Results, Judge
  <2>7. SmokeCoversSource'
    BY <2>1, SmokeStands DEF IInv, Judge
  <2>8. Owed'
    BY <1>1, <2>1 DEF IInv, TypeOK, InOrder, Owed, Judge, Working
  <2> QED BY <2>4, <2>5, <2>6, <2>7, <2>8 DEF IInv
<1> QED BY <1>4, <1>5

\* An honest blocker.
LEMMA BlockedKeeps ==
  ASSUME IInv, NEW s \in Stages, Blocked(s)
  PROVE  IInv'
<1>1. Working(s) /\ at.what = "gate" /\ findings = None
  BY DEF IInv, Blocked, AtWork, FindingsFirst
<1>2. /\ InOrder' /\ status' \in [Stages -> States] /\ status'[s] = "BLOCKED"
      /\ \A r \in Stages \ {s} : status'[r] = status[r]
  BY <1>1, StageStays DEF IInv, Working, Blocked
<1>3. TypeOK' /\ Results'
  BY <1>1, <1>2 DEF IInv, TypeOK, States, Results, Blocked, products, Working
<1>4. AtWork' /\ FindingsFirst' /\ SealedAfterSmoke'
  BY <1>1 DEF AtWork, FindingsFirst, SealedAfterSmoke, Whats, Blocked
<1>5. SmokeCoversSource'
  BY <1>2, SmokeStands DEF IInv, Blocked, products
<1>6. Owed'
  BY <1>1, <1>2 DEF IInv, TypeOK, Owed, Blocked, Working
<1> QED BY <1>2, <1>3, <1>4, <1>5, <1>6 DEF IInv

\* No findings wait while a stage is blocked.
LEMMA ReopenKeeps ==
  ASSUME IInv, NEW s \in Stages, Reopen(s)
  PROVE  IInv'
<1>1. /\ InOrder' /\ status' \in [Stages -> States] /\ status'[s] = "READY"
      /\ \A r \in Stages \ {s} : status'[r] = status[r]
  BY StageStays DEF IInv, Reopen
<1>2. TypeOK' /\ Results'
  BY <1>1 DEF IInv, TypeOK, States, Results, Reopen, products, Receipt
<1>3. findings = None
  BY DEF IInv, InOrder, FindingsFirst, Pending, Working, Reopen
<1>4. AtWork' /\ FindingsFirst' /\ SealedAfterSmoke'
  BY <1>3 DEF AtWork, FindingsFirst, SealedAfterSmoke, Whats, Reopen
<1>5. SmokeCoversSource'
  BY <1>1, SmokeStands DEF IInv, Reopen, products
<1>6. Owed'
  BY <1>1 DEF IInv, TypeOK, Owed, Reopen, Receipt
<1> QED BY <1>1, <1>2, <1>4, <1>5, <1>6 DEF IInv

\* A repair is asked for in a job, so who asks owes nothing.
LEMMA ReworkKeeps ==
  ASSUME IInv, NEW s \in Stages, NEW t \in Stages, Rework(s, t)
  PROVE  IInv'
<1>1. Working(s) /\ at.what = "gate" /\ findings = None
  BY DEF IInv, Rework, AtWork, FindingsFirst
<1>2. s \notin owed
  BY <1>1, NoneAssumption DEF IInv, Owed, Rework, Working
<1>3. TypeOK' /\ InOrder' /\ Results' /\ SmokeCoversSource' /\ Owed'
  BY <1>1, <1>2, SentBack DEF Rework, IInv, TypeOK
<1>4. AtWork' /\ FindingsFirst' /\ SealedAfterSmoke'
  BY <1>1 DEF AtWork, FindingsFirst, SealedAfterSmoke, Whats, Rework
<1> QED BY <1>3, <1>4 DEF IInv

\* A stage without findings is accepted with its product.
LEMMA Committed ==
  ASSUME IInv, NEW s \in Stages, Working(s), NEW next \in {"READY", "RUNNING"}, CommitThen(s, next),
         s \notin owed, findings = None,
         UNCHANGED <<findings, repairs, judged, owed, edits, prepared>>,
         tree' \in Trees, smokes' = smokes, strays' \in 0 .. MaxStrays,
         s = F => frame' \in Snapshots,
         s # F => UNCHANGED frame,
         s = I => bundle' \in Bundles /\ bundle'.frame = frame
                  /\ \E t \in smokes : Holds(bundle'.files, t) /\ Holds(frame, t),
         s # I => UNCHANGED bundle,
         s = A => identity' \in Identities /\ identity'.bundle = bundle,
         s # A => UNCHANGED identity,
         s = Q => report' \in Runs /\ report'.bundle = bundle /\ report'.identity = identity
                  /\ report'.ok,
         s # Q => UNCHANGED report,
         s = R => review' = [frame |-> frame, bundle |-> bundle, identity |-> identity, report |-> report],
         s # R => UNCHANGED review,
         owed \cap {I, A} = {} \/ at' = Loop
  PROVE  TypeOK' /\ InOrder' /\ Results' /\ SmokeCoversSource' /\ Owed'
<1>1. /\ status' \in [Stages -> States] /\ status'[s] = "PASS" /\ InOrder'
      /\ s < 5 => status'[s + 1] = next
      /\ \A r \in Stages : r < s => status[r] = "PASS" /\ status'[r] = "PASS"
      /\ \A r \in Stages : r > s => status[r] = "PENDING"
      /\ \A r \in Stages : r > s + 1 => status'[r] = "PENDING"
  BY StageCommits DEF IInv
<1>2. s = R => review' \in Reviews
  BY <1>1, NoneAssumption DEF IInv, TypeOK, Results, Reviews
<1>3. TypeOK'
  <2>1. /\ status'[F] = "PASS" <=> frame' # None
        /\ status'[A] = "PASS" <=> identity' # None
        /\ status'[Q] = "PASS" <=> report' # None
        /\ status'[R] = "PASS" <=> review' # None
    BY <1>1, <1>2, NoneAssumption DEF IInv, TypeOK, Working
  <2> QED BY <1>1, <1>2, <2>1 DEF IInv, TypeOK, States, CommitThen
<1>4. Results'
  BY <1>1 DEF IInv, Results
<1>5. SmokeCoversSource'
  <2>1. CASE s = I
    BY <2>1 DEF SmokeCoversSource
  <2>2. CASE s # I
    BY <1>1, <2>2, SmokeStands DEF IInv
  <2> QED BY <2>1, <2>2
<1>6. Owed'
  BY <1>1 DEF IInv, TypeOK, Owed, CommitThen
<1> QED BY <1>1, <1>3, <1>4, <1>5, <1>6

\* The framework is frozen, or its worker is asked again.
LEMMA PassFrameworkKeeps ==
  ASSUME IInv, PassFramework
  PROVE  IInv'
<1>1. Working(F) /\ at.what = "gate" /\ findings = None /\ job = Pass /\ tree' = tree
  BY DEF IInv, PassFramework, AtWork, FindingsFirst
<1>2. F \notin owed
  BY <1>1, NoneAssumption DEF IInv, Owed, Working
<1>3. CASE Fail(F)
  BY <1>1, <1>3, FailKeeps DEF PassFramework, IInv, TypeOK
<1>4. CASE ~Fail(F)
  <2>1. frame' = Take(Changed \ DriverFilesOf(bundle)) /\ CommitThen(F, "READY") /\ at' = Loop
        /\ UNCHANGED <<findings, bundle, identity, report, review, prepared, repairs>>
    BY <1>4 DEF PassFramework, Commit
  <2>2. frame' \in Snapshots
    <3>1. Changed \ DriverFilesOf(bundle) \in SUBSET Paths
      BY DEF Changed
    <3> QED BY <2>1, <3>1, Taken DEF IInv
  <2>3. TypeOK' /\ InOrder' /\ Results' /\ SmokeCoversSource' /\ Owed'
    BY <1>1, <1>2, <2>1, <2>2, Committed DEF PassFramework, IInv, TypeOK
  <2>4. AtWork' /\ FindingsFirst' /\ SealedAfterSmoke'
    BY <1>1, <2>1 DEF AtWork, FindingsFirst, SealedAfterSmoke, Whats
  <2> QED BY <2>3, <2>4 DEF IInv
<1> QED BY <1>3, <1>4

\* What a worker passed on goes to the check of its stage.
LEMMA SubmitKeeps ==
  ASSUME IInv, NEW s \in {I, A}, NEW check, Submit(s, check),
         <<s, check>> \in {<<I, "smoke">>, <<A, "capture">>}
  PROVE  IInv'
<1>1. Working(s) /\ at.what = "gate" /\ findings = None /\ job = Pass /\ tree' = tree
  BY DEF IInv, Submit, AtWork, FindingsFirst
<1>2. s \notin owed /\ \A r \in owed : r \notin {I, A}
  BY <1>1, NoneAssumption DEF IInv, TypeOK, InOrder, Owed, Working
<1>3. CASE Fail(s)
  BY <1>1, <1>3, FailKeeps DEF Submit, IInv, TypeOK
<1>4. CASE ~Fail(s)
  <2>1. /\ prepared' \in {tree, prepared}
        /\ at' \in {Doing(check, s, "repair"), Doing(check, s, "turn")}
        /\ UNCHANGED <<current, findings, products, repairs>>
    BY <1>4 DEF Submit
  <2>2. TypeOK' /\ InOrder' /\ Results' /\ FindingsFirst'
    BY <1>1, <2>1 DEF IInv, TypeOK, InOrder, Results, FindingsFirst, Submit, current, products
  <2>3. AtWork' /\ SealedAfterSmoke'
    BY <1>1, <2>1 DEF AtWork, SealedAfterSmoke, Whats, Reasons, Working, current
  <2>4. SmokeCoversSource'
    BY <2>1, SmokeStands DEF IInv, Submit, current, products
  <2>5. Owed'
    BY <1>2, <2>1 DEF IInv, Owed, Submit, current
  <2> QED BY <2>2, <2>3, <2>4, <2>5 DEF IInv
<1> QED BY <1>3, <1>4

\* An execution is accepted, becomes a finding, or sends the work back.
LEMMA PassQemuKeeps ==
  ASSUME IInv, PassQemu
  PROVE  IInv'
<1>1. Working(Q) /\ at.what = "gate" /\ findings = None /\ job = Pass /\ tree' = tree
  BY DEF IInv, PassQemu, AtWork, FindingsFirst
<1>2. Q \notin owed /\ tree' \in Trees /\ strays' \in 0 .. MaxStrays
  BY <1>1, NoneAssumption DEF IInv, TypeOK, Owed, Working, PassQemu
<1>3. CASE attempt = None
  BY <1>1, <1>2, <1>3, FailKeeps DEF PassQemu
<1>4. CASE attempt # None /\ ~DriverUnchanged(tree)
  BY <1>1, <1>2, <1>4, DriftedKeeps DEF PassQemu
<1>5. CASE attempt # None /\ DriverUnchanged(tree)
  <2> DEFINE product == [f \in {"bundle", "identity", "harness", "ok"} |-> attempt[f]]
  <2>1. attempt \in Attempts /\ product = [bundle |-> attempt.bundle, identity |-> attempt.identity,
                                        harness |-> attempt.harness, ok |-> attempt.ok]
    BY <1>5 DEF IInv, TypeOK
  <2>2. product \in Runs
    BY <2>1 DEF Attempts, Runs
  <2>3. at' = Loop /\ UNCHANGED <<frame, bundle, identity, review, prepared, repairs, judged, owed>>
    BY <1>5 DEF PassQemu
  <2>4. CASE attempt.ok /\ UpToDate(attempt)
    <3>1. report' = product /\ CommitThen(Q, "READY") /\ UNCHANGED findings
      BY <1>5, <2>4 DEF PassQemu, Commit
    <3>2. report'.bundle = bundle /\ report'.identity = identity /\ report'.ok
      BY <2>1, <2>4, <3>1 DEF UpToDate
    <3>3. TypeOK' /\ InOrder' /\ Results' /\ SmokeCoversSource' /\ Owed'
      BY <1>1, <1>2, <2>2, <2>3, <3>1, <3>2, Committed DEF PassQemu
    <3>4. AtWork' /\ FindingsFirst' /\ SealedAfterSmoke'
      BY <1>1, <2>3, <3>1 DEF AtWork, FindingsFirst, SealedAfterSmoke, Whats
    <3> QED BY <3>3, <3>4 DEF IInv
  <2>5. CASE ~(attempt.ok /\ UpToDate(attempt))
    <3>1. findings' = [product |-> product, tree |-> tree'] /\ UNCHANGED <<current, report>>
      BY <1>5, <2>5 DEF PassQemu, Findings
    <3>2. TypeOK' /\ InOrder' /\ Results'
      BY <1>1, <2>3, <3>1 DEF IInv, TypeOK, InOrder, Results, PassQemu, current
    <3>3. Pending(Q)'
      BY <1>1, <2>1, <2>2, <3>1 DEF Pending, Working, current
    <3>4. AtWork' /\ FindingsFirst' /\ SealedAfterSmoke'
      BY <2>3, <3>3 DEF AtWork, FindingsFirst, SealedAfterSmoke, Whats
    <3>5. SmokeCoversSource'
      BY <2>3, <3>1, SmokeStands DEF IInv, PassQemu, current
    <3>6. Owed'
      BY <2>3, <3>1 DEF IInv, Owed, current
    <3> QED BY <3>2, <3>4, <3>5, <3>6 DEF IInv
  <2> QED BY <2>4, <2>5
<1> QED BY <1>3, <1>4, <1>5

\* The verdict is stored.
LEMMA PassReviewKeeps ==
  ASSUME IInv, PassReview
  PROVE  IInv'
<1>1. Working(R) /\ at.what = "gate" /\ findings = None /\ job = Pass
  BY DEF IInv, PassReview, AtWork, FindingsFirst
<1>2. R \notin owed
  BY <1>1, NoneAssumption DEF IInv, Owed, Working
<1>3. TypeOK' /\ InOrder' /\ Results' /\ SmokeCoversSource' /\ Owed'
  BY <1>1, <1>2, Committed DEF PassReview, Commit, IInv, TypeOK
<1>4. AtWork' /\ FindingsFirst' /\ SealedAfterSmoke'
  BY <1>1 DEF AtWork, FindingsFirst, SealedAfterSmoke, Whats, PassReview
<1> QED BY <1>3, <1>4 DEF IInv

\* A smoke counts only for the tree it started from.
LEMMA SmokeKeeps ==
  ASSUME IInv, NEW why \in Reasons, Smoke(why)
  PROVE  IInv'
<1>1. Working(I) /\ at.what = "smoke" /\ findings = None
  BY DEF IInv, Smoke, AtWork, FindingsFirst
<1>2. \A r \in owed : r \notin {I, A}
  BY <1>1 DEF IInv, Owed
<1>3. /\ tree' \in Trees /\ strays' \in 0 .. MaxStrays /\ smokes' \subseteq Trees /\ smokes \subseteq smokes'
      /\ at' \in {Loop, Ask(I), Gate(I), Doing("seal", I, why)}
      /\ at'.what = "seal" => Holds(frame, tree) /\ tree' = tree /\ tree \in smokes'
  <2>1. CASE at' \in {Loop, Ask(I), Gate(I)} /\ UNCHANGED <<tree, smokes, strays>>
    BY <2>1 DEF IInv, TypeOK
  <2>2. CASE at' = Doing("seal", I, why) /\ UNCHANGED <<tree, smokes, strays>> /\ tree \in smokes
             /\ Holds(frame, tree)
    BY <2>2 DEF IInv, TypeOK
  <2>3. ASSUME NEW ok \in BOOLEAN, NEW after \in Works \cup {tree}, Executes(after), Holds(frame, tree),
               IF SmokePassed(ok, after)
                 THEN smokes' = smokes \cup {tree} /\ at' = Doing("seal", I, why)
                 ELSE SmokeFailed(why) /\ UNCHANGED smokes
        PROVE  /\ tree' \in Trees /\ strays' \in 0 .. MaxStrays
               /\ smokes' \subseteq Trees /\ smokes \subseteq smokes'
               /\ at' \in {Loop, Ask(I), Gate(I), Doing("seal", I, why)}
               /\ at'.what = "seal" => Holds(frame, tree) /\ tree' = tree /\ tree \in smokes'
    <3>1. tree' \in Trees /\ strays' \in 0 .. MaxStrays /\ tree' = after /\ tree \in Trees /\ smokes \subseteq Trees
      BY <2>3, Strays DEF IInv, TypeOK, Executes
    <3>2. CASE SmokePassed(ok, after)
      BY <2>3, <3>1, <3>2 DEF SmokePassed
    <3>3. CASE ~SmokePassed(ok, after)
      BY <2>3, <3>1, <3>3 DEF SmokeFailed
    <3> QED BY <3>2, <3>3
  <2> QED BY <2>1, <2>2, <2>3 DEF Smoke, SmokeFailed
<1>4. TypeOK' /\ InOrder' /\ Results' /\ FindingsFirst'
  BY <1>1, <1>3 DEF IInv, TypeOK, InOrder, Results, FindingsFirst, Smoke, ledger, current, products
<1>5. AtWork' /\ SealedAfterSmoke'
  BY <1>1, <1>3 DEF AtWork, SealedAfterSmoke, Whats, Reasons, Working, Smoke, ledger, current, products
<1>6. SmokeCoversSource'
  BY <1>3, SmokeStands DEF IInv, Smoke, ledger, current, products
<1>7. Owed'
  BY <1>2 DEF IInv, Owed, Smoke, ledger, current
<1> QED BY <1>4, <1>5, <1>6, <1>7 DEF IInv

\* What has passed its smoke is sealed, or becomes a finding.
LEMMA SealKeeps ==
  ASSUME IInv, NEW why \in Reasons, Seal(why)
  PROVE  IInv'
<1> DEFINE product == [files |-> Take(Changed \ DOMAIN frame), frame |-> frame]
<1>1. Working(I) /\ at.what = "seal" /\ findings = None /\ tree' = tree
  BY DEF IInv, Seal, AtWork, FindingsFirst
<1>2. \A r \in owed : r \notin {I, A}
  BY <1>1 DEF IInv, Owed
<1>3. /\ product \in Bundles /\ product.frame = frame
      /\ tree \in smokes /\ Holds(product.files, tree) /\ Holds(frame, tree)
  <2>1. Changed \ DOMAIN frame \in SUBSET Paths
    BY DEF Changed
  <2>2. frame \in Snapshots
    BY <1>1 DEF IInv, TypeOK, InOrder, Working
  <2> QED BY <1>1, <2>1, <2>2, Taken DEF IInv, Bundles, SealedAfterSmoke
<1>4. UNCHANGED <<frame, identity, report, review, prepared, repairs, smokes, judged, owed, edits, strays>>
  BY DEF Seal
<1>5. CASE DOMAIN product.files = {}
  <2>1. findings' = [product |-> product, tree |-> tree'] /\ at' = Loop /\ UNCHANGED <<current, bundle>>
    BY <1>5 DEF Seal, Findings
  <2>2. TypeOK' /\ InOrder' /\ Results'
    BY <1>1, <1>4, <2>1 DEF IInv, TypeOK, InOrder, Results, current
  <2>3. Pending(I)'
    BY <1>1, <1>3, <1>4, <2>1 DEF Pending, Working, current
  <2>4. AtWork' /\ FindingsFirst' /\ SealedAfterSmoke'
    BY <2>1, <2>3 DEF AtWork, FindingsFirst, SealedAfterSmoke, Whats
  <2>5. SmokeCoversSource'
    BY <1>4, <2>1, SmokeStands DEF IInv, current
  <2>6. Owed'
    BY <1>4, <2>1 DEF IInv, Owed, current
  <2> QED BY <2>2, <2>4, <2>5, <2>6 DEF IInv
<1>6. CASE DOMAIN product.files # {}
  <2>1. PICK next \in {"READY", "RUNNING"} :
          CommitThen(I, next) /\ at' = (IF next = "READY" THEN Loop ELSE Doing("capture", A, why))
    BY <1>6 DEF Seal, Commit
  <2>2. bundle' = product /\ UNCHANGED findings
    BY <1>6 DEF Seal
  <2>3. TypeOK' /\ InOrder' /\ Results' /\ SmokeCoversSource' /\ Owed'
    <3>1. \E t \in smokes : Holds(bundle'.files, t) /\ Holds(frame, t)
      BY <1>3, <2>2
    <3>2. I \notin owed /\ owed \cap {I, A} = {} /\ tree' \in Trees /\ strays' \in 0 .. MaxStrays
      BY <1>1, <1>2, <1>4 DEF IInv, TypeOK
    <3>3. bundle' \in Bundles /\ bundle'.frame = frame
      BY <1>3, <2>2
    <3> HIDE DEF product
    <3> QED BY <1>1, <1>4, <2>1, <2>2, <3>1, <3>2, <3>3, Committed
  <2>4. status'[A] = next
    BY <1>1, <2>1, StageCommits DEF IInv
  <2>5. AtWork' /\ FindingsFirst' /\ SealedAfterSmoke'
    BY <1>1, <2>1, <2>2, <2>4 DEF AtWork, FindingsFirst, SealedAfterSmoke, Whats, Working
  <2> QED BY <2>3, <2>5 DEF IInv
<1> QED BY <1>5, <1>6

\* The driver of the packaging worker is taken up.
LEMMA RebindingKeeps ==
  ASSUME IInv, NEW why \in Reasons, Rebinding(why)
  PROVE  IInv'
<1>1. Working(I) /\ at.what = "rebind" /\ findings = None
  BY DEF IInv, Rebinding, AtWork, FindingsFirst
<1>2. \A r \in owed : r \notin {I, A}
  BY <1>1 DEF IInv, Owed
<1>3. /\ InOrder' /\ status' \in [Stages -> States] /\ status'[I] = "RUNNING"
      /\ \A r \in Stages \ {I} : status'[r] = status[r]
  BY <1>1, StageStays DEF IInv, Rebinding, Started, Working
<1>4. TypeOK' /\ Results'
  BY <1>1, <1>3 DEF IInv, TypeOK, States, Results, Rebinding, products, Working
<1>5. AtWork' /\ FindingsFirst' /\ SealedAfterSmoke'
  BY <1>1, <1>3 DEF AtWork, FindingsFirst, SealedAfterSmoke, Whats, Reasons, Working, Rebinding
<1>6. SmokeCoversSource'
  BY <1>3, SmokeStands DEF IInv, Rebinding, products
<1>7. Owed'
  BY <1>2, <1>3 DEF IInv, TypeOK, Owed, Rebinding
<1> QED BY <1>3, <1>4, <1>5, <1>6, <1>7 DEF IInv

\* The presence check may change what it checks: then the work goes back.
LEMMA PackageKeeps ==
  ASSUME IInv, NEW why \in Reasons, Package(why)
  PROVE  IInv'
<1>1. Working(A) /\ at.what = "capture" /\ findings = None /\ tree \in Trees /\ strays \in 0 .. MaxStrays
  BY DEF IInv, TypeOK, Package, AtWork, FindingsFirst
<1>2. \A r \in owed : r \notin {I, A}
  BY <1>1 DEF IInv, Owed
<1>3. UNCHANGED <<smokes, edits>>
  BY DEF Package
<1>4. CASE Fail(A) /\ UNCHANGED <<tree, judged, owed, strays>>
  BY <1>1, <1>3, <1>4, FailKeeps
<1>5. CASE Returned(why) /\ UNCHANGED <<tree, strays>>
  BY <1>1, <1>3, <1>5, ReturnedKeeps DEF Package
<1>6. ASSUME NEW ok \in BOOLEAN, NEW after \in Works \cup {tree}, Executes(after),
             LET product == [bundle |-> bundle, runtime |-> after.runtime] IN
               IF ~DriverUnchanged(after)
                 THEN Returned(why)
                 ELSE /\ IF Packaged(ok, after)
                           THEN identity' = product /\ Commit(A) /\ UNCHANGED findings
                           ELSE Findings(product) /\ UNCHANGED <<current, identity>>
                      /\ at' = Loop
                      /\ UNCHANGED <<frame, bundle, report, review, prepared, repairs, judged, owed>>
      PROVE  IInv'
  <2> DEFINE product == [bundle |-> bundle, runtime |-> after.runtime]
  <2>1. tree' \in Trees /\ strays' \in 0 .. MaxStrays /\ after \in Trees
    BY <1>6, Strays, WorksAreTrees DEF IInv, TypeOK
  <2>2. product \in Identities
    BY <1>1, <2>1 DEF IInv, InOrder, Results, Working, Identities, Trees
  <2>3. CASE Returned(why)
    BY <1>3, <2>1, <2>3, ReturnedKeeps DEF Package
  <2>4. CASE ~Returned(why)
    <3>1. at' = Loop /\ UNCHANGED <<frame, bundle, report, review, prepared, repairs, judged, owed>>
      BY <1>6, <2>4
    <3>2. CASE Packaged(ok, after)
      <4>1. identity' = product /\ CommitThen(A, "READY") /\ UNCHANGED findings
        BY <1>6, <2>4, <3>2 DEF Commit
      <4>2. TypeOK' /\ InOrder' /\ Results' /\ SmokeCoversSource' /\ Owed'
        BY <1>1, <1>2, <1>3, <2>1, <2>2, <3>1, <4>1, Committed
      <4>3. AtWork' /\ FindingsFirst' /\ SealedAfterSmoke'
        BY <1>1, <3>1, <4>1 DEF AtWork, FindingsFirst, SealedAfterSmoke, Whats
      <4> QED BY <4>2, <4>3 DEF IInv
    <3>3. CASE ~Packaged(ok, after)
      <4>1. findings' = [product |-> product, tree |-> tree'] /\ UNCHANGED <<current, identity>>
        BY <1>6, <2>4, <3>3 DEF Findings
      <4>2. TypeOK' /\ InOrder' /\ Results'
        BY <1>1, <1>3, <2>1, <3>1, <4>1 DEF IInv, TypeOK, InOrder, Results, current
      <4>3. Pending(A)'
        BY <1>1, <2>2, <4>1 DEF Pending, Working, current
      <4>4. AtWork' /\ FindingsFirst' /\ SealedAfterSmoke'
        BY <3>1, <4>3 DEF AtWork, FindingsFirst, SealedAfterSmoke, Whats
      <4>5. SmokeCoversSource'
        BY <1>3, <3>1, <4>1, SmokeStands DEF IInv, current
      <4>6. Owed'
        BY <3>1, <4>1 DEF IInv, Owed, current
      <4> QED BY <4>2, <4>4, <4>5, <4>6 DEF IInv
    <3> QED BY <3>2, <3>3
  <2> QED BY <2>3, <2>4
<1> QED BY <1>4, <1>5, <1>6 DEF Package

\* An execution records the results that stand.
LEMMA ExecuteKeeps ==
  ASSUME IInv, NEW why \in Reasons, Execute(why)
  PROVE  IInv'
<1>1. Working(Q) /\ at.what = "execute" /\ findings = None /\ tree \in Trees /\ strays \in 0 .. MaxStrays
  BY DEF IInv, TypeOK, Execute, AtWork, FindingsFirst
<1>2. \A r \in owed : r \notin {I, A}
  BY <1>1 DEF IInv, Owed
<1>3. UNCHANGED <<smokes, edits>>
  BY DEF Execute
<1>4. CASE Drifted(Q) /\ UNCHANGED <<tree, strays>>
  BY <1>1, <1>3, <1>4, DriftedKeeps
<1>5. CASE at' = Observed(why) /\ UNCHANGED <<tree, ledger, judged, owed, strays>>
  <2>1. TypeOK' /\ InOrder' /\ Results' /\ FindingsFirst'
    BY <1>1, <1>3, <1>5 DEF IInv, TypeOK, InOrder, Results, FindingsFirst, Observed,
              ledger, current, products
  <2>2. AtWork' /\ SealedAfterSmoke' /\ Owed'
    BY <1>1, <1>2, <1>5 DEF IInv, AtWork, SealedAfterSmoke, Owed, Observed, Whats, Working, ledger, current
  <2>3. SmokeCoversSource'
    BY <1>3, <1>5, SmokeStands DEF IInv, ledger, current, products
  <2> QED BY <2>1, <2>2, <2>3 DEF IInv
<1>6. ASSUME NEW ok \in BOOLEAN, NEW after \in Works \cup {tree}, Executes(after),
             attempt' = [bundle |-> bundle, identity |-> identity, harness |-> tree.harness,
                         ok |-> ok /\ after.harness = tree.harness, answers |-> TRUE],
             at' = Doing("recheck", Q, why),
             UNCHANGED <<status, repairing, job, findings, products, prepared, repairs, judged, owed>>
      PROVE  IInv'
  <2>1. tree' \in Trees /\ strays' \in 0 .. MaxStrays
    BY <1>6, Strays DEF IInv
  <2>2. attempt' \in Attempts
    BY <1>1, <1>6, NoneAssumption
       DEF IInv, TypeOK, InOrder, Results, Working, Attempts, Trees
  <2>3. TypeOK' /\ InOrder' /\ Results' /\ FindingsFirst'
    BY <1>1, <1>3, <1>6, <2>1, <2>2 DEF IInv, TypeOK, InOrder, Results, FindingsFirst, products
  <2>4. AtWork' /\ SealedAfterSmoke' /\ Owed'
    BY <1>1, <1>2, <1>6 DEF IInv, AtWork, SealedAfterSmoke, Owed, Whats, Working
  <2>5. SmokeCoversSource'
    BY <1>3, <1>6, SmokeStands DEF IInv, products
  <2> QED BY <2>3, <2>4, <2>5 DEF IInv
<1> QED BY <1>4, <1>5, <1>6 DEF Execute

\* The scripts are looked at once they have run.
LEMMA RecheckKeeps ==
  ASSUME IInv, NEW why \in Reasons, Recheck(why)
  PROVE  IInv'
<1>1. Working(Q) /\ at.what = "recheck" /\ findings = None
  BY DEF IInv, Recheck, AtWork, FindingsFirst
<1>2. tree' \in Trees /\ strays' \in 0 .. MaxStrays /\ UNCHANGED <<smokes, edits>>
  BY DEF IInv, TypeOK, Recheck
<1>3. CASE Drifted(Q)
  BY <1>1, <1>2, <1>3, DriftedKeeps
<1>4. CASE at' = Observed(why) /\ UNCHANGED <<ledger, judged, owed>>
  <2>1. TypeOK' /\ InOrder' /\ Results' /\ FindingsFirst'
    BY <1>1, <1>2, <1>4 DEF IInv, TypeOK, InOrder, Results, FindingsFirst, Observed,
              ledger, current, products
  <2>2. AtWork' /\ SealedAfterSmoke' /\ Owed'
    BY <1>1, <1>4 DEF IInv, AtWork, SealedAfterSmoke, Owed, Observed, Whats, Working, ledger, current
  <2>3. SmokeCoversSource'
    BY <1>2, <1>4, SmokeStands DEF IInv, ledger, current, products
  <2> QED BY <2>1, <2>2, <2>3 DEF IInv
<1> QED BY <1>3, <1>4 DEF Recheck

\* A requested execution is started.
LEMMA OperationKeeps ==
  ASSUME IInv, Operation
  PROVE  IInv'
<1>1. Working(Q) /\ at.what = "gate" /\ findings = None /\ at' = Doing("execute", Q, "operation")
  BY DEF IInv, Operation, AtWork, FindingsFirst
<1>2. TypeOK' /\ InOrder' /\ Results' /\ FindingsFirst'
  BY <1>1 DEF IInv, TypeOK, InOrder, Results, FindingsFirst, Operation, ledger, current, products
<1>3. AtWork' /\ SealedAfterSmoke'
  BY <1>1 DEF AtWork, SealedAfterSmoke, Whats, Reasons, Working, Operation, ledger, current
<1>4. SmokeCoversSource'
  BY SmokeStands DEF IInv, Operation, ledger, current, products
<1>5. Owed'
  BY <1>1, NoneAssumption DEF IInv, TypeOK, Owed, InOrder, Working, Operation, ledger, current
<1> QED BY <1>2, <1>3, <1>4, <1>5 DEF IInv

\* A crash only forgets what was under way.
LEMMA CrashKeeps ==
  ASSUME IInv, Crash
  PROVE  IInv'
<1>1. TypeOK' /\ InOrder' /\ Results'
  BY DEF IInv, TypeOK, InOrder, Results, Crash, ledger, current, products
<1>2. AtWork' /\ SealedAfterSmoke' /\ Owed'
  BY DEF IInv, AtWork, SealedAfterSmoke, Owed, Whats, Crash, ledger, current
<1>3. FindingsFirst'
  BY FindingsStand DEF IInv, Crash, ledger, current, products
<1>4. SmokeCoversSource'
  BY SmokeStands DEF IInv, Crash, ledger, current, products
<1> QED BY <1>1, <1>2, <1>3, <1>4 DEF IInv

\* Every step keeps the invariant.
LEMMA StepKeeps ==
  ASSUME IInv, [Next]_vars
  PROVE  IInv'
<1>1. CASE Next
  BY <1>1, BeginKeeps, TurnKeeps, JudgeKeeps, BlockedKeeps, ReopenKeeps, ReworkKeeps, PassFrameworkKeeps,
     SubmitKeeps, PassQemuKeeps, PassReviewKeeps, SmokeKeeps, SealKeeps, RebindingKeeps, PackageKeeps,
     ExecuteKeeps, RecheckKeeps, OperationKeeps, CrashKeeps
     DEF Next, PassDriver, PassPackage
<1>2. CASE UNCHANGED vars
  <2>1. TypeOK' /\ InOrder' /\ Results' /\ AtWork' /\ SealedAfterSmoke' /\ Owed'
    BY <1>2 DEF IInv, TypeOK, InOrder, Results, AtWork, SealedAfterSmoke, Owed, Working,
                vars, ledger, current, products
  <2>2. FindingsFirst' /\ SmokeCoversSource'
    BY <1>2, FindingsStand, SmokeStands DEF IInv, vars, ledger, current, products, FindingsFirst
  <2> QED BY <2>1, <2>2 DEF IInv
<1> QED BY <1>1, <1>2

\* It holds at first.
LEMMA Starts ==
  ASSUME Init
  PROVE  IInv
<1>1. TypeOK
  BY TreeAssumption DEF Init, TypeOK, Trees, Values
<1>2. AtWork /\ InOrder /\ Results /\ FindingsFirst /\ SealedAfterSmoke /\ SmokeCoversSource /\ Owed
  BY DEF Init, AtWork, InOrder, Results, FindingsFirst, SealedAfterSmoke, SmokeCoversSource, Owed, Whats
<1> QED BY <1>1, <1>2 DEF IInv

\* The inductive invariant always holds.
LEMMA Invariance == Spec => []IInv
BY Starts, StepKeeps, PTL DEF Spec

-----------------------------------------------------------------------------
(* What a stage is accepted on.                                            *)

\* The driver and, up to packaging, the framework are as frozen.
FrozenAt(s, b, t) ==
  /\ Holds(b.files, t)
  /\ {p \in Paths \ DOMAIN frame : t.files[p] # 0} = DOMAIN b.files
  /\ s \in {I, A} => Holds(frame, t)

\* Accepted in this step, and not in spite of findings.
Accepted(s) == status[s] # "PASS" /\ status'[s] = "PASS" /\ s \notin judged'

\* Sending back accepts nothing.
LEMMA SentBackAccepts ==
  ASSUME IInv, NEW s \in Stages, NEW t \in Stages, t < s, Working(s), NEW debt,
         SendBack(t, s, debt), NEW r \in Stages
  PROVE  ~Accepted(r)
BY StageSentBack DEF IInv, TypeOK, Accepted, Exhausted

\* Only three steps accept without findings from the driver to the execution.
LEMMA AcceptingSteps ==
  ASSUME IInv, Next, NEW r \in {I, A, Q}, Accepted(r)
  PROVE  \/ \E why \in Reasons : Seal(why) \/ Package(why)
         \/ PassQemu
<1>1. ASSUME NEW s \in Stages, Begin(s) \/ Turn(s) \/ Blocked(s) \/ Reopen(s)
      PROVE  FALSE
  BY <1>1 DEF IInv, TypeOK, Accepted, Begin, Turn, Blocked, Reopen, Started
<1>2. ASSUME NEW s \in Stages, Judge(s)
      PROVE  FALSE
  BY <1>2 DEF IInv, TypeOK, Accepted, Judge, Commit, CommitThen
<1>3. ASSUME NEW s \in Stages, NEW t \in Stages, Rework(s, t)
      PROVE  FALSE
  BY <1>3, SentBackAccepts DEF Rework, IInv, AtWork
<1>4. PassFramework => FALSE
  BY DEF IInv, TypeOK, Accepted, PassFramework, Fail, ledger, current, Commit, CommitThen
<1>5. PassReview => FALSE
  BY DEF IInv, TypeOK, Accepted, PassReview, Commit, CommitThen
<1>6. PassDriver \/ PassPackage => FALSE
  BY DEF Accepted, PassDriver, PassPackage, Submit, Fail, ledger, current
<1>7. ASSUME NEW why \in Reasons, Smoke(why) \/ Rebinding(why)
      PROVE  FALSE
  BY <1>7 DEF IInv, TypeOK, Accepted, Smoke, Rebinding, Started, ledger, current
<1>8. ASSUME NEW why \in Reasons, Execute(why) \/ Recheck(why)
      PROVE  FALSE
  <2>1. Working(Q)
    BY <1>8 DEF IInv, AtWork, Execute, Recheck
  <2>2. ~Drifted(Q)
    BY <2>1, SentBackAccepts DEF Drifted
  <2>3. status' # status
    BY DEF Accepted
  <2> QED BY <1>8, <2>2, <2>3 DEF Execute, Recheck, ledger, current
<1>9. Operation \/ Crash => FALSE
  BY DEF Accepted, Operation, Crash, ledger, current
<1> QED BY <1>1, <1>2, <1>3, <1>4, <1>5, <1>6, <1>7, <1>8, <1>9 DEF Next

\* The driver is frozen from the very tree that passed its smoke.
LEMMA SealAccepts ==
  ASSUME IInv, NEW why \in Reasons, Seal(why), NEW r \in {I, A, Q}, Accepted(r)
  PROVE  FrozenAt(r, bundle', tree')
<1>1. Working(I) /\ Holds(frame, tree) /\ tree' = tree
  BY DEF IInv, AtWork, SealedAfterSmoke, Seal
<1>2. Changed \ DOMAIN frame \in SUBSET Paths
  BY DEF Changed
<1>3. /\ r = I
      /\ bundle' = [files |-> Take(Changed \ DOMAIN frame), frame |-> frame]
  BY DEF IInv, TypeOK, Accepted, Seal, current, Commit, CommitThen
<1> QED BY <1>1, <1>2, <1>3, Taken DEF IInv, FrozenAt, Changed

\* Packaging looks at the tree its presence check has left.
LEMMA PackageAccepts ==
  ASSUME IInv, NEW why \in Reasons, Package(why), NEW r \in {I, A, Q}, Accepted(r)
  PROVE  FrozenAt(r, bundle', tree')
<1>1. Working(A) /\ bundle.frame = frame
  BY DEF IInv, AtWork, Package, InOrder, Results, Working
<1>2. ~Returned(why)
  BY <1>1, SentBackAccepts DEF Returned, Drifted, Rebind, Fail, Accepted, ledger, current
<1>3. PICK ok \in BOOLEAN, after \in Works \cup {tree} :
         /\ tree' = after /\ DriverUnchanged(after) /\ UNCHANGED bundle
         /\ IF Packaged(ok, after) THEN Commit(A) ELSE UNCHANGED status
  BY <1>2 DEF Package, Executes, Fail, Accepted, ledger, current
<1>4. r = A /\ Holds(frame, after)
  BY <1>3 DEF IInv, TypeOK, Accepted, Commit, CommitThen, Packaged
<1> QED BY <1>1, <1>3, <1>4 DEF FrozenAt, DriverUnchanged

\* An execution is accepted on an unchanged driver only.
LEMMA QemuAccepts ==
  ASSUME IInv, PassQemu, NEW r \in {I, A, Q}, Accepted(r)
  PROVE  FrozenAt(r, bundle', tree')
<1>1. Working(Q) /\ bundle.frame = frame
  BY DEF IInv, AtWork, PassQemu, InOrder, Results, Working
<1>2. ~Fail(Q) /\ ~Drifted(Q)
  BY <1>1, SentBackAccepts DEF Drifted, Fail, Accepted, ledger, current
<1>3. /\ DriverUnchanged(tree) /\ UNCHANGED <<tree, bundle>>
      /\ Commit(Q) \/ UNCHANGED status
  BY <1>2 DEF PassQemu, current
<1>4. r = Q
  BY <1>3 DEF IInv, TypeOK, Accepted, Commit, CommitThen
<1> QED BY <1>1, <1>3, <1>4 DEF FrozenAt, DriverUnchanged

-----------------------------------------------------------------------------
(* The theorems.                                                           *)

\* Whatever workers, their scripts and crashes do, the variables keep their types.
THEOREM TypeCorrect == Spec => []TypeOK
BY Invariance, PTL DEF IInv

\* Whatever was repaired, prepared or run again, the accepted results speak of one another.
THEOREM EvidenceAlwaysChained == Spec => []EvidenceChain
<1>1. IInv => EvidenceChain
  BY DEF IInv, Results, EvidenceChain
<1> QED BY <1>1, Invariance, PTL

\* No driver is accepted without findings whose very source has not passed a functional smoke.
THEOREM SmokeAlwaysCovers == Spec => []SmokeCoversSource
BY Invariance, PTL DEF IInv

\* Whoever changed files since, a stage is accepted without findings on the frozen source only.
THEOREM AlwaysAcceptedOnFrozenSource == Spec => AcceptedOnFrozenSource
<1>1. ASSUME IInv, [Next]_vars
      PROVE  [\A s \in {I, A, Q} :
               status[s] # "PASS" /\ status'[s] = "PASS" /\ s \notin judged' =>
                 /\ Holds(bundle'.files, tree')
                 /\ {p \in Paths \ DOMAIN frame : tree'.files[p] # 0} = DOMAIN bundle'.files
                 /\ s \in {I, A} => Holds(frame, tree')]_vars
  <2>1. ASSUME Next, NEW s \in {I, A, Q}, Accepted(s)
        PROVE  FrozenAt(s, bundle', tree')
    BY <1>1, <2>1, AcceptingSteps, SealAccepts, PackageAccepts, QemuAccepts
  <2> QED BY <1>1, <2>1 DEF Accepted, FrozenAt
<1> QED BY <1>1, Invariance, PTL DEF Spec, AcceptedOnFrozenSource

\* A stage found at fault is worked on before it passes again.
THEOREM FaultsAlwaysWorkedOn == Spec => FaultsAreWorkedOn
<1>1. ASSUME IInv'
      PROVE  [\A s \in owed : status'[s] = "PASS" => status[s] = "PASS" \/ s \notin owed']_vars
  BY <1>1 DEF IInv, Owed
<1> QED BY <1>1, Invariance, PTL DEF FaultsAreWorkedOn
=============================================================================
