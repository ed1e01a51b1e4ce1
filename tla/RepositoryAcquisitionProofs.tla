-------------------- MODULE RepositoryAcquisitionProofs --------------------
(***************************************************************************)
(* Proofs about RepositoryAcquisition, for any roles, URLs, refs and       *)
(* commits, whatever the origins and the supplied baselines have, and for  *)
(* any number of turns, failures, crashes and acts.                        *)
(*                                                                         *)
(* FETCH_HEAD and the receipt of a repository agree but in the middle of a *)
(* fetch (Pinned), which is why a crash can part them; what has been       *)
(* acquired in this attempt is locked and checked out (Acquired); a        *)
(* writable tree does not outlive its baseline (TreesRest).                *)
(*                                                                         *)
(* While nobody else acts (Calm) an attempt finds again what an earlier    *)
(* one with its selection acquired (Settled), so that it comes back to a   *)
(* repository that lost its FETCH_HEAD for another ref (Interrupted) with  *)
(* nothing on the way failing: a download kept keeps its receipt and, but  *)
(* for such a while, its FETCH_HEAD (Lasting).                             *)
(***************************************************************************)
EXTENDS RepositoryAcquisition, SequenceTheorems, TLAPS

-----------------------------------------------------------------------------
(* The inductive invariant.                                                *)

States == {"absent", "partial", "whole", "dirty", "broken"}

Types ==
  /\ status \in {"READY", "RUNNING", "BLOCKED", "PASS"}
  /\ selection \in Selections \cup {None}
  /\ failure \in Causes \cup {None}
  /\ local \in [Refs -> Commits \cup {None}]
  /\ bares \in [Bares -> {None, Damaged} \cup Repository]
  /\ checkouts \in [Checkouts -> States]
  /\ trees \in [Trees -> States]
  /\ locks \subseteq Checkouts
  /\ accepted # None =>
       /\ accepted.roles \in [Roles -> [url : Urls, ref : Refs, commit : Commits]]
       /\ accepted.tree \in {"partial", "whole", "dirty"}
  /\ at \in {"stopped", "worker"} \cup Steps
  /\ resolved \in Seq(Commits)
  /\ seen \in {None, "partial", "whole", "dirty"}
  /\ downloads \in [Bares -> [ref : Refs \cup {None}, kept : BOOLEAN]]
  /\ turns \in Nat /\ faults \in Nat /\ crashes \in Nat /\ acts \in Nat

\* The steps that work on one role, on its repository, on a commit of it; and
\* those after the last role.
Fetching == {"fetch", "origin"}
Fetched == {"receipt", "checkout", "publish"}
OnRole == {"prepare"} \cup Fetching \cup Fetched
AfterRoles == {"target", "observe", "identify", "finalize"}

Progress ==
  /\ at \in Steps => selection \in Selections
  /\ at \notin OnRole \cup AfterRoles => resolved = <<>>
  /\ at \in OnRole => Len(resolved) < Len(Order)
  /\ at \in AfterRoles => Len(resolved) = Len(Order)
  /\ at \in Fetching \cup Fetched => Bare \in Repository
  /\ at \in Fetched => Bare.head \in Commits
  /\ at = "origin" => Role \notin LocalRoles
  /\ at \in {"identify", "finalize"} => seen \in {"partial", "whole", "dirty"}
  /\ at = "observe" => trees[Tree] # "absent"

\* What this attempt has acquired is locked and is there.
Acquired ==
  \A i \in DOMAIN resolved :
    LET p == <<Order[i], selection[Order[i]].url, resolved[i]>>
    IN  p \in locks /\ checkouts[p] \in {"whole", "dirty"}

\* A writable tree does not outlive its baseline.
TreesRest ==
  \A p \in Trees :
    LET state == checkouts[<<"target", p[1], p[2]>>]
    IN  /\ trees[p] # "absent" => state # "absent"
        /\ trees[p] = "broken" => state = "broken"

\* FETCH_HEAD is what the origin has for the ref of the receipt.
Pinned ==
  crashes = 0 =>
    /\ \A b \in Bares :
         LET bare == bares[b]
         IN  /\ b[1] \notin LocalRoles /\ bare # None /\ None \notin {bare.receipt, bare.head}
             /\ ~(at \in {"origin", "receipt"} /\ b = B)
             => bare.head = Served[b[2]][bare.receipt]
    /\ at \in Fetched /\ Role \notin LocalRoles => Bare.head = Served[Url][Ref]
    /\ \A i \in DOMAIN resolved : Order[i] \notin LocalRoles =>
         LET s == selection[Order[i]] IN resolved[i] = Served[s.url][s.ref]

\* Why the worker is to be asked, until it is.
Cause ==
  /\ at # "stopped" => status \in {"READY", "RUNNING"}
  /\ status = "BLOCKED" => failure = None
  /\ selection = None => failure \in {None, "other"}
  /\ failure = "transfer" => at # "worker"
  /\ failure = "refused" =>
       \E r \in Roles \ LocalRoles :
         LET s == selection[r] IN Served[s.url][s.ref] = None \/ s.ref \in FullCommits

Inv == Types /\ Progress /\ Acquired /\ TreesRest /\ Pinned /\ Cause /\ LockedIsWhole /\ PublicRevision

-----------------------------------------------------------------------------
(* Where the controller is.                                                *)

LEMMA Orders ==
  /\ Len(Order) \in Nat /\ DOMAIN Order = 1 .. Len(Order)
  /\ \A i \in DOMAIN Order : Order[i] \in Roles
  /\ \A r \in Roles : \E i \in DOMAIN Order : Order[i] = r
  /\ \A i, j \in DOMAIN Order : Order[i] = Order[j] => i = j
  /\ "source" \in Roles /\ "target" \in Roles /\ Len(Order) > 0
<1>1. Len(Order) \in Nat /\ DOMAIN Order = 1 .. Len(Order)
  BY AcquisitionAssumption, LenProperties
<1>2. /\ \A i \in DOMAIN Order : Order[i] \in Roles
      /\ \A r \in Roles : \E i \in DOMAIN Order : Order[i] = r
  BY DEF Roles
<1>3. "source" \in Roles /\ "target" \in Roles
  BY AcquisitionAssumption
<1> QED BY <1>1, <1>2, <1>3, AcquisitionAssumption

LEMMA Acquiring ==
  ASSUME Types
  PROVE  /\ Len(resolved) \in Nat /\ DOMAIN resolved = 1 .. Len(resolved)
         /\ \A i \in DOMAIN resolved : resolved[i] \in Commits
BY LenProperties, ElementOfSeq DEF Types

\* One more is acquired.
LEMMA OneMore ==
  ASSUME Types, NEW c \in Commits, resolved' = Append(resolved, c)
  PROVE  /\ Len(resolved') = Len(resolved) + 1
         /\ DOMAIN resolved' = DOMAIN resolved \cup {Len(resolved) + 1}
         /\ \A i \in DOMAIN resolved : resolved'[i] = resolved[i]
         /\ resolved'[Len(resolved) + 1] = c
<1>1. resolved \in Seq(Commits)
  BY DEF Types
<1>2. /\ resolved' \in Seq(Commits) /\ Len(resolved') = Len(resolved) + 1
      /\ \A i \in 1 .. Len(resolved) : resolved'[i] = resolved[i]
      /\ resolved'[Len(resolved) + 1] = c
  BY <1>1, AppendProperties
<1>3. /\ Len(resolved) \in Nat /\ DOMAIN resolved = 1 .. Len(resolved)
      /\ DOMAIN resolved' = 1 .. Len(resolved')
  BY <1>1, <1>2, LenProperties
<1> QED BY <1>2, <1>3

\* The role at work is one, and not one that has been acquired.
LEMMA AtRole ==
  ASSUME Types, Progress, at \in OnRole
  PROVE  /\ Role \in Roles /\ Url \in Urls /\ Ref \in Refs
         /\ B \in Bares /\ B[1] = Role /\ B[2] = Url
         /\ selection \in Selections
         /\ Len(resolved) + 1 \in DOMAIN Order
         /\ \A i \in DOMAIN resolved : i \in DOMAIN Order /\ Order[i] # Role
         /\ Bare \in {None, Damaged} \cup Repository
         /\ Bare.head \in Commits => Checkout \in Checkouts
<1>1. Len(resolved) + 1 \in DOMAIN Order /\ \A i \in DOMAIN resolved : i \in DOMAIN Order /\ Order[i] # Role
  <2>1. Len(resolved) < Len(Order)
    BY DEF Progress
  <2>2. /\ Len(resolved) \in Nat /\ DOMAIN resolved = 1 .. Len(resolved)
        /\ Len(Order) \in Nat /\ DOMAIN Order = 1 .. Len(Order)
    BY Orders, Acquiring
  <2>3. Len(resolved) + 1 \in DOMAIN Order
    BY <2>1, <2>2
  <2>4. ASSUME NEW i \in DOMAIN resolved
        PROVE  i \in DOMAIN Order /\ Order[i] # Role
    <3>1. i \in DOMAIN Order /\ i # Len(resolved) + 1
      BY <2>1, <2>2
    <3> QED BY <3>1, <2>3, Orders DEF Role
  <2> QED BY <2>3, <2>4
<1>2. Role \in Roles
  BY <1>1, Orders DEF Role
<1>3. selection \in Selections
  BY DEF Progress, OnRole, Fetching, Fetched, Steps
<1>4. Url \in Urls /\ Ref \in Refs
  BY <1>2, <1>3 DEF Selections, Url, Ref
<1>5. B \in Bares /\ B[1] = Role /\ B[2] = Url
  BY <1>2, <1>4 DEF B, Bares
<1>6. Bare \in {None, Damaged} \cup Repository
  BY <1>5 DEF Types, Bare
<1>7. Bare.head \in Commits => Checkout \in Checkouts
  BY <1>2, <1>4 DEF Checkout, Checkouts
<1> QED BY <1>1, <1>2, <1>3, <1>4, <1>5, <1>6, <1>7

\* After the last role there is a commit for each, locked and checked out.
LEMMA AtEnd ==
  ASSUME Types, Progress, Acquired, at \in AfterRoles
  PROVE  /\ selection \in Selections
         /\ \A r \in Roles :
              /\ \E i \in DOMAIN resolved : Order[i] = r /\ CommitOf(r) = resolved[i]
              /\ CommitOf(r) \in Commits
              /\ selection[r].url \in Urls /\ selection[r].ref \in Refs
              /\ CheckoutOf(r) \in locks /\ checkouts[CheckoutOf(r)] \in {"whole", "dirty"}
         /\ Tree \in Trees
         /\ CheckoutOf("target") = <<"target", Tree[1], Tree[2]>>
<1>1. selection \in Selections
  BY DEF Progress, AfterRoles, Steps
<1>2. DOMAIN resolved = DOMAIN Order
  BY Orders, Acquiring DEF Progress
<1>3. ASSUME NEW r \in Roles
      PROVE  \E i \in DOMAIN resolved : Order[i] = r /\ CommitOf(r) = resolved[i]
  <2>1. \E i \in DOMAIN Order : Order[i] = r
    BY Orders
  <2> QED BY <1>2, <2>1 DEF CommitOf
<1>4. ASSUME NEW r \in Roles
      PROVE  /\ CommitOf(r) \in Commits
             /\ selection[r].url \in Urls /\ selection[r].ref \in Refs
             /\ CheckoutOf(r) \in locks /\ checkouts[CheckoutOf(r)] \in {"whole", "dirty"}
  <2>1. PICK i \in DOMAIN resolved : Order[i] = r /\ CommitOf(r) = resolved[i]
    BY <1>3
  <2>2. CheckoutOf(r) = <<Order[i], selection[Order[i]].url, resolved[i]>>
    BY <2>1 DEF CheckoutOf
  <2>3. selection[r].url \in Urls /\ selection[r].ref \in Refs
    BY <1>1 DEF Selections
  <2> QED BY <2>1, <2>2, <2>3, Acquiring DEF Acquired
<1>5. Tree \in Trees /\ CheckoutOf("target") = <<"target", Tree[1], Tree[2]>>
  BY <1>4, Orders DEF Tree, Trees, CheckoutOf
<1> QED BY <1>1, <1>3, <1>4, <1>5

-----------------------------------------------------------------------------
(* Types.                                                                  *)

LEMMA InitialState == Init => Inv
<1> SUFFICES ASSUME Init PROVE Inv
  OBVIOUS
<1> USE AcquisitionAssumption DEF Init
<1>1. Types
  <2>1. downloads \in [Bares -> [ref : Refs \cup {None}, kept : BOOLEAN]]
    OBVIOUS
  <2>2. checkouts \in [Checkouts -> States] /\ trees \in [Trees -> States]
    BY DEF States
  <2>3. bares \in [Bares -> {None, Damaged} \cup Repository]
    OBVIOUS
  <2> QED BY <2>1, <2>2, <2>3, EmptySeq DEF Types
<1>2. Progress /\ Acquired
  BY DEF Progress, Acquired, OnRole, AfterRoles, Fetching, Fetched, Steps
<1>3. TreesRest
  BY DEF TreesRest
<1>4. Pinned
  BY DEF Pinned, Fetched
<1>5. Cause /\ LockedIsWhole /\ PublicRevision
  BY DEF Cause, Causes, LockedIsWhole, PublicRevision
<1> QED BY <1>1, <1>2, <1>3, <1>4, <1>5 DEF Inv

\* One field of a repository written.
LEMMA BareWritten ==
  ASSUME Types, NEW b \in Bares, NEW bare \in Repository, bares' = [bares EXCEPT ![b] = bare]
  PROVE  bares' \in [Bares -> {None, Damaged} \cup Repository]
BY DEF Types

LEMMA TypesKept ==
  ASSUME Inv, [Next]_vars
  PROVE  Types'
<1> USE AcquisitionAssumption
<1>0. Types /\ Progress /\ Acquired /\ TreesRest
  BY DEF Inv
<1>1. /\ at \in OnRole => /\ B \in Bares /\ Bare \in {None, Damaged} \cup Repository /\ Ref \in Refs
                          /\ Url \in Urls
                          /\ (Bare.head \in Commits => Checkout \in Checkouts)
      /\ at \in AfterRoles => Tree \in Trees
      /\ Served \in [Urls -> [Refs -> Commits \cup {None}]]
      /\ Cached \in [Urls -> [Refs -> Commits \cup {None}]]
  BY <1>0, AtRole, AtEnd
<1>2. at \in Fetching \cup Fetched => Bare \in Repository
  BY <1>0 DEF Progress
<1>3. at \in Fetched => Bare.head \in Commits /\ Checkout \in Checkouts
  BY <1>0, <1>1 DEF Progress, OnRole
<1>f. ASSUME NEW kind \in Causes, Fail(kind)
      PROVE  /\ status' = status /\ selection' = selection /\ accepted' = accepted
             /\ failure' \in Causes /\ at' \in {"stopped", "worker"}
             /\ resolved' \in Seq(Commits) /\ seen' = None
  BY <1>f, EmptySeq DEF Fail
<1>4. CASE UNCHANGED vars
  BY <1>4, <1>0 DEF vars, stage, workspace, bounds, Types
<1>5. CASE Run \/ Select \/ GiveUp
  <2>1. CASE Run
    BY <2>1, <1>0 DEF Run, Types, stage, workspace, bounds, Steps
  <2>2. CASE Select
    BY <2>2, <1>0 DEF Select, Types, stage, workspace, bounds, Steps, Causes
  <2>3. CASE GiveUp
    BY <2>3, <1>0 DEF GiveUp, Types, stage, workspace, bounds
  <2> QED BY <1>5, <2>1, <2>2, <2>3
<1>6. CASE Load
  <2>1. CASE Fail("other")
    BY <2>1, <1>6, <1>0, <1>f DEF Load, Types, workspace, bounds, Causes
  <2>2. CASE ~Fail("other")
    BY <2>2, <1>6, <1>0 DEF Load, Types, stage, workspace, bounds, Steps
  <2> QED BY <2>1, <2>2
<1>7. CASE Prepare
  <2>1. Fresh \in Repository
    BY DEF Fresh, Repository
  <2>2. bares' \in [Bares -> {None, Damaged} \cup Repository]
    BY <1>7, <2>1, <1>0 DEF Prepare, Types
  <2>3. /\ checkouts' \in [Checkouts -> States]
        /\ trees' \in [Trees -> States]
    BY <1>7, <1>0 DEF Prepare, Types, Unlinked, States
  <2> QED BY <1>7, <2>2, <2>3, <1>0 DEF Prepare, Types, stage, bounds, Steps
<1>8. CASE Reuse \/ ReuseImport
  BY <1>8, <1>0 DEF Reuse, ReuseImport, Types, stage, workspace, bounds, Steps
<1>9. CASE Seed
  <2>1. Cached[Url][Ref] \in Commits \cup {None} /\ Bare \in Repository /\ B \in Bares
    BY <1>9, <1>1, <1>2 DEF Seed, OnRole, Fetching
  <2>2. /\ [Bare EXCEPT !.head = Cached[Url][Ref], !.seeded = TRUE] \in Repository
        /\ [Bare EXCEPT !.head = None] \in Repository
    BY <2>1 DEF Repository
  <2>3. \/ UNCHANGED <<bares, faults>>
        \/ /\ UNCHANGED faults
           /\ bares' = [bares EXCEPT ![B] = [Bare EXCEPT !.head = Cached[Url][Ref], !.seeded = TRUE]]
        \/ faults' = faults + 1 /\ bares' = [bares EXCEPT ![B] = [Bare EXCEPT !.head = None]]
    <3>1. CASE UNCHANGED <<bares, faults>>
      BY <3>1
    <3>2. CASE bares' = [bares EXCEPT ![B].head = Cached[Url][Ref], ![B].seeded = TRUE] /\ UNCHANGED faults
      BY <3>2, <2>1, <1>0 DEF Bare, Types
    <3>3. CASE bares' = [bares EXCEPT ![B].head = None] /\ faults' = faults + 1
      BY <3>3 DEF Bare
    <3> QED BY <1>9, <3>1, <3>2, <3>3 DEF Seed
  <2>4. bares' \in [Bares -> {None, Damaged} \cup Repository] /\ faults' \in Nat
    <3>1. CASE UNCHANGED <<bares, faults>>
      BY <3>1, <1>0 DEF Types
    <3>2. CASE ~UNCHANGED <<bares, faults>>
      <4>1. PICK bare \in Repository : bares' = [bares EXCEPT ![B] = bare]
        BY <2>2, <2>3, <3>2
      <4>2. faults' \in Nat
        BY <2>3, <1>0 DEF Types
      <4> QED BY <4>1, <4>2, <2>1, <1>0, BareWritten
    <3> QED BY <3>1, <3>2
  <2> QED BY <1>9, <2>4, <1>0 DEF Seed, Types, stage, Steps
<1>10. CASE Download \/ DownloadFails
  <2>1. /\ at \in OnRole /\ at \in Fetching
        /\ Served[Url][Ref] \in Commits \cup {None} /\ Bare \in Repository /\ B \in Bares /\ Ref \in Refs
    BY <1>10, <1>1, <1>2 DEF Download, DownloadFails, OnRole, Fetching
  <2>2. \A head \in Commits \cup {None} : [Bare EXCEPT !.head = head] \in Repository
    BY <2>1 DEF Repository
  <2>3. PICK head \in Commits \cup {None} : bares' = [bares EXCEPT ![B] = [Bare EXCEPT !.head = head]]
    BY <1>10, <2>1 DEF Download, DownloadFails, Bare
  <2>4. bares' \in [Bares -> {None, Damaged} \cup Repository]
    BY <2>1, <2>2, <2>3, <1>0, BareWritten
  <2>5. downloads' \in [Bares -> [ref : Refs \cup {None}, kept : BOOLEAN]]
    <3>1. downloads' = [downloads EXCEPT ![B] = [ref |-> Ref, kept |-> FALSE]]
      BY <1>10 DEF Download, DownloadFails
    <3> QED BY <3>1, <2>1, <1>0 DEF Types
  <2>6. CASE Download
    BY <2>6, <2>4, <2>5, <1>0 DEF Download, Types, stage, bounds, Steps
  <2>7. CASE DownloadFails
    <3>1. PICK kind \in Causes : Fail(kind)
      BY <2>7 DEF DownloadFails, Causes
    <3>2. faults' \in Nat
      BY <2>7, <1>0 DEF DownloadFails, Types
    <3> QED BY <2>7, <3>1, <3>2, <2>4, <2>5, <1>0, <1>f DEF DownloadFails, Types
  <2> QED BY <1>10, <2>6, <2>7
<1>11. CASE Import
  <2>1. /\ at \in OnRole /\ at \in Fetching
        /\ local[Ref] \in Commits \cup {None} /\ Bare \in Repository /\ B \in Bares
    BY <1>11, <1>0, <1>1, <1>2 DEF Import, OnRole, Fetching, Types
  <2>2. \A head \in Commits \cup {None} : [Bare EXCEPT !.head = head] \in Repository
    BY <2>1 DEF Repository
  <2>3. PICK head \in Commits \cup {None} : bares' = [bares EXCEPT ![B] = [Bare EXCEPT !.head = head]]
    BY <1>11, <2>1 DEF Import, Bare
  <2>4. bares' \in [Bares -> {None, Damaged} \cup Repository]
    BY <2>1, <2>2, <2>3, <1>0, BareWritten
  <2>5. CASE Fail("transfer")
    <3>1. faults' \in Nat
      BY <1>11, <1>0 DEF Import, Types
    <3> QED BY <1>11, <2>4, <2>5, <3>1, <1>0, <1>f DEF Import, Types, Causes
  <2>6. CASE ~Fail("transfer")
    BY <1>11, <2>4, <2>6, <1>0 DEF Import, Types, stage, Steps
  <2> QED BY <2>5, <2>6
<1>12. CASE NotInLocal
  BY <1>12, <1>0, <1>f DEF NotInLocal, Types, workspace, bounds, Causes
<1>13. CASE WriteReceipt
  <2>1. Bare \in Repository /\ B \in Bares /\ Ref \in Refs /\ Bare.head \in Commits
    BY <1>13, <1>1, <1>2, <1>3 DEF WriteReceipt, OnRole, Fetched
  <2>2. [Bare EXCEPT !.imported = Bare.head] \in Repository /\ [Bare EXCEPT !.receipt = Ref] \in Repository
    BY <2>1 DEF Repository
  <2>3. PICK bare \in Repository : bares' = [bares EXCEPT ![B] = bare]
    BY <1>13, <2>2 DEF WriteReceipt, Bare
  <2>4. bares' \in [Bares -> {None, Damaged} \cup Repository]
    BY <2>1, <2>3, <1>0, BareWritten
  <2>5. downloads' \in [Bares -> [ref : Refs \cup {None}, kept : BOOLEAN]]
    <3> DEFINE Row == [ref : Refs \cup {None}, kept : BOOLEAN]
    <3>1. downloads \in [Bares -> Row] /\ downloads[B] \in Row
      BY <2>1, <1>0 DEF Types
    <3>2. [downloads[B] EXCEPT !.kept = TRUE] \in Row
      BY <3>1
    <3>3. \/ downloads' = downloads
          \/ downloads' = [downloads EXCEPT ![B] = [downloads[B] EXCEPT !.kept = TRUE]]
      BY <1>13 DEF WriteReceipt
    <3> HIDE DEF Row
    <3>4. downloads' \in [Bares -> Row]
      BY <3>1, <3>2, <3>3
    <3> QED BY <3>4 DEF Row
  <2> QED BY <1>13, <2>4, <2>5, <1>0 DEF WriteReceipt, Types, stage, bounds, Steps
<1>14. CASE CheckOut
  <2>1. checkouts' \in [Checkouts -> States]
    BY <1>14, <1>0 DEF CheckOut, Types, States
  <2>2. CASE Fail("other")
    BY <1>14, <2>1, <2>2, <1>0, <1>f DEF CheckOut, Types, bounds, Causes
  <2>3. CASE ~Fail("other")
    BY <1>14, <2>1, <2>3, <1>0 DEF CheckOut, Types, stage, bounds, Steps
  <2> QED BY <2>2, <2>3
<1>15. CASE Publish
  <2>1. Checkout \in Checkouts /\ Bare.head \in Commits
    BY <1>15, <1>3 DEF Publish, Fetched
  <2>2. locks' \subseteq Checkouts
    BY <1>15, <2>1, <1>0 DEF Publish, Lock, Types
  <2>3. CASE Fail("other")
    BY <1>15, <2>2, <2>3, <1>0, <1>f DEF Publish, Types, bounds, Causes
  <2>4. CASE ~Fail("other")
    <3>1. resolved' \in Seq(Commits)
      <4>1. resolved' = Append(resolved, Bare.head)
        BY <1>15, <2>4 DEF Publish
      <4> QED BY <4>1, <2>1, <1>0, AppendProperties DEF Types
    <3> QED BY <1>15, <2>2, <2>4, <3>1, <1>0 DEF Publish, Types, stage, bounds, Steps
  <2> QED BY <2>3, <2>4
<1>16. CASE CreateTarget
  <2>1. trees' \in [Trees -> States]
    BY <1>16, <1>0 DEF CreateTarget, Types, States
  <2> QED BY <1>16, <2>1, <1>0 DEF CreateTarget, Types, stage, bounds, Steps
<1>17. CASE Observe
  <2>1. trees[Tree] \in {"partial", "whole", "dirty"}
    <3>1. /\ Tree \in Trees /\ CheckoutOf("target") = <<"target", Tree[1], Tree[2]>>
          /\ checkouts[CheckoutOf("target")] \in {"whole", "dirty"}
      BY <1>17, <1>0, AtEnd, Orders DEF Observe, AfterRoles
    <3>2. trees[Tree] \in States /\ trees[Tree] # "absent" /\ trees[Tree] # "broken"
      BY <1>17, <3>1, <1>0 DEF Observe, Types, Progress, TreesRest
    <3> QED BY <3>2 DEF States
  <2> QED BY <1>17, <2>1, <1>0 DEF Observe, Types, stage, workspace, bounds, Steps
<1>18. CASE Identify
  <2>1. CASE Fail("other")
    BY <2>1, <1>18, <1>0, <1>f DEF Identify, Types, workspace, bounds, Causes
  <2>2. CASE ~Fail("other")
    BY <2>2, <1>18, <1>0 DEF Identify, Types, stage, workspace, bounds, Steps
  <2> QED BY <2>1, <2>2
<1>19. CASE Finalize
  <2>1. CASE Fail("other")
    BY <2>1, <1>19, <1>0, <1>f DEF Finalize, Types, workspace, bounds, Causes
  <2>2. CASE ~Fail("other")
    <3>1. Manifest.roles \in [Roles -> [url : Urls, ref : Refs, commit : Commits]]
      BY <1>19, <1>0, AtEnd DEF Finalize, AfterRoles, Manifest, Revision
    <3>2. Manifest.tree \in {"partial", "whole", "dirty"}
      BY <1>19, <1>0 DEF Finalize, Manifest, Progress
    <3>3. accepted' = Manifest /\ UNCHANGED <<selection, failure>> /\ status' = "PASS"
          /\ at' = "stopped" /\ resolved' = <<>> /\ seen' = None
      BY <1>19, <2>2 DEF Finalize
    <3>4. accepted'.roles = Manifest.roles /\ accepted'.tree = Manifest.tree
      BY <3>3
    <3> QED BY <1>19, <3>1, <3>2, <3>3, <3>4, <1>0, EmptySeq DEF Finalize, Types, workspace, bounds
  <2> QED BY <2>1, <2>2
<1>20. CASE Diagnose \/ Reopen
  <2>1. CASE Diagnose
    BY <2>1, <1>0 DEF Diagnose, Types, workspace, Causes
  <2>2. CASE Reopen
    BY <2>2, <1>0 DEF Reopen, Types, workspace
  <2> QED BY <1>20, <2>1, <2>2
<1>21. CASE Crash
  <2>1. /\ bares' \in [Bares -> {None, Damaged} \cup Repository]
        /\ checkouts' \in [Checkouts -> States] /\ trees' \in [Trees -> States]
        /\ downloads' \in [Bares -> [ref : Refs \cup {None}, kept : BOOLEAN]]
    <3>1. CASE UNCHANGED <<bares, checkouts, trees, downloads>>
      BY <3>1, <1>0 DEF Types
    <3>2. CASE at = "origin" /\ UNCHANGED <<checkouts, trees>> /\ ~UNCHANGED <<bares, checkouts, trees, downloads>>
      <4>1. Served[Url][Ref] \in Commits \cup {None} /\ Bare \in Repository /\ B \in Bares /\ Ref \in Refs
        BY <3>2, <1>1, <1>2 DEF OnRole, Fetching
      <4>2. \A head \in Commits \cup {None} : [Bare EXCEPT !.head = head] \in Repository
        BY <4>1 DEF Repository
      <4>3. PICK head \in Commits \cup {None} : bares' = [bares EXCEPT ![B] = [Bare EXCEPT !.head = head]]
        BY <1>21, <3>2, <4>1 DEF Crash, CutShort, Bare
      <4>4. downloads' = [downloads EXCEPT ![B] = [ref |-> Ref, kept |-> FALSE]]
        BY <1>21, <3>2 DEF Crash, CutShort
      <4>5. downloads' \in [Bares -> [ref : Refs \cup {None}, kept : BOOLEAN]]
        BY <4>1, <4>4, <1>0 DEF Types
      <4> QED BY <3>2, <4>1, <4>2, <4>3, <4>5, <1>0, BareWritten DEF Types
    <3>3. CASE at \in {"checkout", "target"} /\ UNCHANGED <<bares, downloads>>
      BY <1>21, <3>3, <1>0 DEF Crash, CutShort, Types, States
    <3> QED BY <1>21, <3>1, <3>2, <3>3 DEF Crash, CutShort
  <2> QED BY <1>21, <2>1, <1>0, EmptySeq DEF Crash, Types, stage
<1>22. CASE Disturb
  <2>1. /\ local' \in [Refs -> Commits \cup {None}]
        /\ bares' \in [Bares -> {None, Damaged} \cup Repository]
        /\ checkouts' \in [Checkouts -> States] /\ trees' \in [Trees -> States]
    <3>1. \/ UNCHANGED <<local, bares, trees>> /\ \E p : checkouts' = [checkouts EXCEPT ![p] = "dirty"]
          \/ UNCHANGED <<local, bares, checkouts>> /\ \E p : trees' = [trees EXCEPT ![p] = "dirty"]
          \/ UNCHANGED <<local, checkouts, trees>> /\ \E b : bares' = [bares EXCEPT ![b] = Damaged]
          \/ /\ UNCHANGED <<bares, checkouts, trees>>
             /\ \E r, c : c \in Commits \cup {None} /\ local' = [local EXCEPT ![r] = c]
      BY <1>22 DEF Disturb
    <3>2. CASE UNCHANGED <<local, bares, trees>> /\ \E p : checkouts' = [checkouts EXCEPT ![p] = "dirty"]
      BY <3>2, <1>0 DEF Types, States
    <3>3. CASE UNCHANGED <<local, bares, checkouts>> /\ \E p : trees' = [trees EXCEPT ![p] = "dirty"]
      BY <3>3, <1>0 DEF Types, States
    <3>4. CASE UNCHANGED <<local, checkouts, trees>> /\ \E b : bares' = [bares EXCEPT ![b] = Damaged]
      BY <3>4, <1>0 DEF Types
    <3>5. CASE /\ UNCHANGED <<bares, checkouts, trees>>
               /\ \E r, c : c \in Commits \cup {None} /\ local' = [local EXCEPT ![r] = c]
      <4>1. PICK r, c : c \in Commits \cup {None} /\ local' = [local EXCEPT ![r] = c]
        BY <3>5
      <4>2. local' \in [Refs -> Commits \cup {None}]
        BY <4>1, <1>0 DEF Types
      <4> QED BY <3>5, <4>2, <1>0 DEF Types
    <3> QED BY <3>1, <3>2, <3>3, <3>4, <3>5
  <2> QED BY <1>22, <2>1, <1>0 DEF Disturb, Types, stage
<1> QED BY <1>4, <1>5, <1>6, <1>7, <1>8, <1>9, <1>10, <1>11, <1>12, <1>13, <1>14, <1>15, <1>16,
           <1>17, <1>18, <1>19, <1>20, <1>21, <1>22 DEF Next, Controller

-----------------------------------------------------------------------------
(* What the steps do to checkouts, trees and locks.                        *)

LEMMA RoleStays ==
  ASSUME UNCHANGED <<resolved, selection>>
  PROVE  /\ Role' = Role /\ Url' = Url /\ Ref' = Ref /\ B' = B
         /\ \A r : CommitOf(r)' = CommitOf(r) /\ CheckoutOf(r)' = CheckoutOf(r)
         /\ Tree' = Tree
<1>1. Role' = Role
  BY DEF Role
<1>2. Url' = Url /\ Ref' = Ref
  BY <1>1 DEF Url, Ref
<1>3. B' = B
  BY <1>1, <1>2 DEF B
<1>4. \A r : CommitOf(r)' = CommitOf(r)
  BY DEF CommitOf
<1> QED BY <1>1, <1>2, <1>3, <1>4 DEF CheckoutOf, Tree

\* A checkout is made, written to, or loses its repository.
CheckoutMoves(p) ==
  \/ checkouts'[p] = checkouts[p]
  \/ checkouts[p] = "absent" /\ checkouts'[p] \in {"whole", "partial"}
  \/ checkouts[p] = "whole" /\ checkouts'[p] = "dirty"
  \/ /\ checkouts[p] # "absent" /\ checkouts'[p] = "broken"
     /\ Prepare /\ Bare = Damaged /\ B = <<p[1], p[2]>>

LEMMA CheckoutsMove ==
  ASSUME Inv, [Next]_vars
  PROVE  \A p \in Checkouts : CheckoutMoves(p)
<1> USE DEF CheckoutMoves
<1>0. checkouts \in [Checkouts -> States]
  BY DEF Inv, Types
<1>1. CASE UNCHANGED checkouts
  BY <1>1
<1>2. CASE Prepare
  <2>1. CASE Bare = Damaged
    <3>1. checkouts' = Unlinked(checkouts, {B[1]} \X {B[2]} \X Commits)
      BY <1>2, <2>1 DEF Prepare
    <3>2. /\ at \in OnRole /\ B[1] = Role /\ B[2] = Url /\ B = <<Role, Url>>
      BY <1>2, AtRole DEF Prepare, OnRole, Inv, B
    <3>3. ASSUME NEW p \in Checkouts PROVE CheckoutMoves(p)
      <4>1. checkouts'[p] = IF p \in {B[1]} \X {B[2]} \X Commits /\ checkouts[p] # "absent"
                            THEN "broken" ELSE checkouts[p]
        BY <3>1, <1>0 DEF Unlinked
      <4>2. p \in {B[1]} \X {B[2]} \X Commits => B = <<p[1], p[2]>>
        BY <3>2
      <4> QED BY <1>2, <2>1, <4>1, <4>2
    <3> QED BY <3>3
  <2>2. CASE Bare # Damaged
    BY <1>1, <1>2, <2>2 DEF Prepare
  <2> QED BY <2>1, <2>2
<1>3. CASE CheckOut
  BY <1>3, <1>0 DEF CheckOut
<1>4. CASE Crash
  BY <1>4, <1>0 DEF Crash, CutShort
<1>5. CASE Disturb
  <2>1. UNCHANGED checkouts \/ \E p \in Checkouts : checkouts[p] = "whole" /\ checkouts' = [checkouts EXCEPT ![p] = "dirty"]
    BY <1>5 DEF Disturb
  <2> QED BY <1>1, <2>1, <1>0
<1>6. UNCHANGED checkouts \/ Prepare \/ CheckOut \/ Crash \/ Disturb
  BY DEF Next, Controller, vars, workspace, Run, Select, GiveUp, Load, Reuse, Seed, Download,
    DownloadFails, ReuseImport, Import, NotInLocal, WriteReceipt, Publish, CreateTarget, Observe,
    Identify, Finalize, Diagnose, Reopen
<1> QED BY <1>1, <1>2, <1>3, <1>4, <1>5, <1>6

TreeMoves(p) ==
  \/ trees'[p] = trees[p]
  \/ trees[p] = "absent" /\ trees'[p] \in {"whole", "partial"} /\ at = "target" /\ p = Tree
  \/ trees[p] = "whole" /\ trees'[p] = "dirty"
  \/ /\ trees[p] # "absent" /\ trees'[p] = "broken"
     /\ Prepare /\ Bare = Damaged /\ B = <<"target", p[1]>>

LEMMA TreesMove ==
  ASSUME Inv, [Next]_vars
  PROVE  \A p \in Trees : TreeMoves(p)
<1> USE DEF TreeMoves
<1>0. trees \in [Trees -> States]
  BY DEF Inv, Types
<1>1. CASE UNCHANGED trees
  BY <1>1
<1>2. CASE Prepare
  <2>1. CASE Bare = Damaged
    <3>1. trees' = Unlinked(trees, {p \in Trees : <<"target", p[1]>> = B})
      BY <1>2, <2>1 DEF Prepare
    <3>2. ASSUME NEW p \in Trees PROVE TreeMoves(p)
      BY <1>2, <2>1, <3>1, <1>0 DEF Unlinked
    <3> QED BY <3>2
  <2>2. CASE Bare # Damaged
    BY <1>1, <1>2, <2>2 DEF Prepare
  <2> QED BY <2>1, <2>2
<1>3. CASE CreateTarget
  BY <1>3, <1>0 DEF CreateTarget
<1>4. CASE Crash
  BY <1>4, <1>0 DEF Crash, CutShort
<1>5. CASE Disturb
  <2>1. UNCHANGED trees \/ \E p \in Trees : trees[p] = "whole" /\ trees' = [trees EXCEPT ![p] = "dirty"]
    BY <1>5 DEF Disturb
  <2> QED BY <1>1, <2>1, <1>0
<1>6. UNCHANGED trees \/ Prepare \/ CreateTarget \/ Crash \/ Disturb
  BY DEF Next, Controller, vars, workspace, Run, Select, GiveUp, Load, Reuse, Seed, Download,
    DownloadFails, ReuseImport, Import, NotInLocal, WriteReceipt, CheckOut, Publish, Observe,
    Identify, Finalize, Diagnose, Reopen
<1> QED BY <1>1, <1>2, <1>3, <1>4, <1>5, <1>6

\* Only a whole checkout is locked.
LEMMA LocksGrow ==
  ASSUME Inv, [Next]_vars
  PROVE  /\ locks \subseteq locks'
         /\ \A p \in locks' \ locks : p \in Checkouts /\ UNCHANGED checkouts /\ checkouts[p] = "whole"
<1>1. CASE Publish
  <2>1. Checkout \in Checkouts
    BY <1>1, AtRole DEF Publish, Inv, Progress, OnRole, Fetched
  <2> QED BY <1>1, <2>1 DEF Publish, Lock
<1>2. UNCHANGED locks \/ Publish
  BY DEF Next, Controller, vars, workspace, Run, Select, GiveUp, Load, Prepare, Reuse, Seed, Download,
    DownloadFails, ReuseImport, Import, NotInLocal, WriteReceipt, CheckOut, CreateTarget, Observe,
    Identify, Finalize, Diagnose, Reopen, Crash, Disturb
<1> QED BY <1>1, <1>2

LEMMA TreesRestKept ==
  ASSUME Inv, [Next]_vars
  PROVE  TreesRest'
<1> SUFFICES ASSUME NEW p \in Trees
             PROVE  LET state == checkouts'[<<"target", p[1], p[2]>>]
                    IN  /\ trees'[p] # "absent" => state # "absent"
                        /\ trees'[p] = "broken" => state = "broken"
  BY DEF TreesRest
<1> DEFINE q == <<"target", p[1], p[2]>>
<1>0. Types /\ Progress /\ Acquired /\ TreesRest
  BY DEF Inv
<1>1. q \in Checkouts
  BY Orders DEF Checkouts, Trees
<1>2. CheckoutMoves(q) /\ TreeMoves(p)
  BY <1>1, CheckoutsMove, TreesMove
<1>3. /\ trees[p] # "absent" => checkouts[q] # "absent"
      /\ trees[p] = "broken" => checkouts[q] = "broken"
  BY <1>0 DEF TreesRest
<1>4. at = "target" /\ p = Tree => checkouts[q] # "absent"
  BY <1>0, AtEnd, Orders DEF AfterRoles
<1>5. q[1] = "target" /\ q[2] = p[1]
  OBVIOUS
<1>6. Prepare /\ Bare = Damaged /\ B = <<"target", p[1]>> /\ checkouts[q] # "absent" => checkouts'[q] = "broken"
  <2> SUFFICES ASSUME Prepare, Bare = Damaged, B = <<"target", p[1]>>, checkouts[q] # "absent"
               PROVE  checkouts'[q] = "broken"
    OBVIOUS
  <2>1. q \in {B[1]} \X {B[2]} \X Commits
    BY DEF Trees
  <2>2. checkouts \in [Checkouts -> States]
    BY <1>0 DEF Types
  <2> QED BY <2>1, <2>2, <1>1 DEF Prepare, Unlinked
<1>7. checkouts'[q] # "absent" \/ checkouts[q] = "absent"
  BY <1>2 DEF CheckoutMoves
<1> HIDE DEF q
<1> QED BY <1>2, <1>3, <1>4, <1>6, <1>7 DEF CheckoutMoves, TreeMoves, q

-----------------------------------------------------------------------------
(* From role to role.                                                      *)

Resting == /\ resolved' = <<>>
           /\ \/ at' \in {"stopped", "worker"}
              \/ at' = "load" /\ selection' \in Selections

\* The end of an attempt, and its beginning.
LEMMA Rests ==
  ASSUME Inv, [Next]_vars,
         \/ Run \/ Select \/ GiveUp \/ Finalize \/ Crash \/ Diagnose \/ Reopen
         \/ \E kind \in Causes : Fail(kind)
  PROVE  Resting
<1>0. Types /\ Progress
  BY DEF Inv
<1>1. CASE \E kind \in Causes : Fail(kind)
  BY <1>1 DEF Fail, Resting
<1>2. CASE Run
  BY <1>2, <1>0 DEF Run, stage, Types, Progress, OnRole, AfterRoles, Fetching, Fetched, Resting
<1>3. CASE Select \/ GiveUp
  BY <1>3, <1>0 DEF Select, GiveUp, Progress, OnRole, AfterRoles, Fetching, Fetched, Resting
<1>4. CASE Finalize
  BY <1>1, <1>4 DEF Finalize, Resting, Causes
<1>5. CASE Crash
  BY <1>5 DEF Crash, Resting
<1>6. CASE Diagnose \/ Reopen
  BY <1>6, <1>0 DEF Diagnose, Reopen, Progress, OnRole, AfterRoles, Fetching, Fetched, Resting
<1> QED BY <1>1, <1>2, <1>3, <1>4, <1>5, <1>6

\* What has been acquired stays, is added to by a publication, or is given up.
LEMMA Advances ==
  ASSUME Inv, [Next]_vars
  PROVE  Resting \/ UNCHANGED <<resolved, selection>> \/ (Publish /\ ~Fail("other"))
<1>1. CASE \/ Run \/ Select \/ GiveUp \/ Finalize \/ Crash \/ Diagnose \/ Reopen
           \/ \E kind \in Causes : Fail(kind)
  BY <1>1, Rests
<1>2. DownloadFails => \E kind \in Causes : Fail(kind)
  BY DEF DownloadFails, Causes
<1>3. CASE \/ Prepare \/ Reuse \/ ReuseImport \/ Seed \/ Download \/ WriteReceipt \/ CreateTarget
           \/ Observe \/ Disturb \/ UNCHANGED vars
  BY <1>3 DEF Prepare, Reuse, ReuseImport, Seed, Download, WriteReceipt, CreateTarget, Observe,
    Disturb, vars, stage
<1>4. CASE (Load \/ CheckOut \/ Identify) /\ ~Fail("other")
  BY <1>4 DEF Load, CheckOut, Identify, stage
<1>5. CASE Import /\ ~Fail("transfer")
  BY <1>5 DEF Import, stage
<1> QED BY <1>1, <1>2, <1>3, <1>4, <1>5 DEF Next, Controller, NotInLocal, Causes

LEMMA ProgressAtRest ==
  ASSUME Resting
  PROVE  Progress' /\ Acquired'
BY DEF Resting, Progress, Acquired, OnRole, AfterRoles, Fetching, Fetched, Steps

LEMMA ProgressKept ==
  ASSUME Inv, [Next]_vars, Types'
  PROVE  Progress'
<1> USE AcquisitionAssumption DEF OnRole, AfterRoles, Fetching, Fetched
<1>0. Types /\ Progress /\ Acquired
  BY DEF Inv
<1>1. CASE Resting
  BY <1>1, ProgressAtRest
<1>2. Len(resolved) \in Nat /\ Len(Order) \in Nat /\ Len(Order) > 0
  BY <1>0, Acquiring, Orders
<1>3. at \in OnRole => B \in Bares /\ bares \in [Bares -> {None, Damaged} \cup Repository]
  BY <1>0, AtRole DEF Types
<1>4. UNCHANGED <<resolved, selection>> => Role' = Role /\ B' = B /\ Bare' = bares'[B] /\ Tree' = Tree
  BY RoleStays DEF Bare
<1>5. CASE Load /\ ~Fail("other")
  <2>1. UNCHANGED <<resolved, selection>> /\ at = "load" /\ at' = "prepare" /\ resolved = <<>> /\ Len(resolved) = 0
    BY <1>5, <1>0, EmptySeq DEF Load, stage, Progress
  <2> QED BY <2>1, <1>2, <1>0 DEF Progress, Steps
<1>6. CASE Prepare
  <2>1. UNCHANGED <<resolved, selection>> /\ at = "prepare" /\ at' = "fetch"
    BY <1>6 DEF Prepare, stage
  <2>2. Bare' \in Repository
    <3>1. bares' = [bares EXCEPT ![B] = IF bares[B] \in {None, Damaged} THEN Fresh ELSE bares[B]]
      BY <1>6 DEF Prepare
    <3>2. Fresh \in Repository
      BY DEF Fresh, Repository
    <3> QED BY <3>1, <3>2, <2>1, <1>3, <1>4
  <2> QED BY <2>1, <2>2, <1>0 DEF Progress, Steps
<1>7. CASE Reuse \/ ReuseImport
  <2>1. UNCHANGED <<resolved, selection, bares>> /\ at = "fetch" /\ at' = "checkout"
    BY <1>7 DEF Reuse, ReuseImport, stage, workspace
  <2>2. Bare.head \in Commits
    <3>1. Bare \in Repository /\ Ref \in Refs
      BY <2>1, <1>0, AtRole DEF Progress
    <3>2. CASE Reuse
      BY <3>1, <3>2 DEF Reuse, Received, Repository
    <3>3. CASE ReuseImport
      BY <3>1, <3>3, <1>0 DEF ReuseImport, Types
    <3> QED BY <1>7, <3>2, <3>3
  <2> QED BY <2>1, <2>2, <1>0, <1>4 DEF Progress, Steps, Bare
<1>8. CASE Seed
  <2>1. UNCHANGED <<resolved, selection>> /\ at = "fetch" /\ at' = "origin" /\ Role \notin LocalRoles
    BY <1>8 DEF Seed, stage
  <2>2. Bare \in Repository /\ Cached[Url][Ref] \in Commits \cup {None}
    BY <2>1, <1>0, AtRole DEF Progress
  <2>3. Bare' \in Repository
    <3>1. /\ [Bare EXCEPT !.head = Cached[Url][Ref], !.seeded = TRUE] \in Repository
          /\ [Bare EXCEPT !.head = None] \in Repository
      BY <2>2 DEF Repository
    <3>2. CASE bares' = [bares EXCEPT ![B].head = Cached[Url][Ref], ![B].seeded = TRUE]
      BY <3>1, <3>2, <2>1, <1>3, <1>4 DEF Bare
    <3>3. CASE bares' = [bares EXCEPT ![B].head = None]
      BY <3>1, <3>3, <2>1, <1>3, <1>4 DEF Bare
    <3>4. CASE UNCHANGED bares
      BY <3>4, <2>1, <2>2, <1>4 DEF Bare
    <3> QED BY <1>8, <3>2, <3>3, <3>4 DEF Seed
  <2> QED BY <2>1, <2>3, <1>0, <1>4 DEF Progress, Steps
<1>9. CASE Download \/ (Import /\ ~Fail("transfer"))
  <2>1. UNCHANGED <<resolved, selection>> /\ at \in {"fetch", "origin"} /\ at' = "receipt"
    BY <1>9 DEF Download, Import, stage
  <2>2. PICK head \in Commits : bares' = [bares EXCEPT ![B].head = head]
    <3>1. CASE Download
      <4>1. Served[Url][Ref] \in Commits
        BY <3>1, <2>1, <1>0, AtRole DEF Download
      <4> QED BY <3>1, <4>1 DEF Download
    <3>2. CASE Import /\ ~Fail("transfer")
      <4>1. local[Ref] \in Commits
        BY <3>2, <2>1, <1>0, AtRole DEF Import, Types
      <4> QED BY <3>2, <4>1 DEF Import
    <3> QED BY <1>9, <3>1, <3>2
  <2>3. Bare \in Repository
    BY <2>1, <1>0 DEF Progress
  <2>4. [Bare EXCEPT !.head = head] \in Repository /\ [Bare EXCEPT !.head = head].head = head
    BY <2>3 DEF Repository
  <2>5. Bare' = [Bare EXCEPT !.head = head]
    BY <2>1, <2>2, <1>3, <1>4 DEF Bare
  <2> QED BY <2>1, <2>4, <2>5, <1>0, <1>4 DEF Progress, Steps
<1>10. CASE WriteReceipt
  <2>1. UNCHANGED <<resolved, selection>> /\ at = "receipt" /\ at' = "checkout"
    BY <1>10 DEF WriteReceipt, stage
  <2>2. Bare \in Repository /\ Bare.head \in Commits /\ Ref \in Refs
    BY <2>1, <1>0, AtRole DEF Progress
  <2>3. Bare' = [Bare EXCEPT !.imported = Bare.head] \/ Bare' = [Bare EXCEPT !.receipt = Ref]
    BY <1>10, <2>1, <1>3, <1>4 DEF WriteReceipt, Bare
  <2>4. Bare' \in Repository /\ Bare'.head \in Commits
    BY <2>2, <2>3 DEF Repository
  <2> QED BY <2>1, <2>4, <1>0, <1>4 DEF Progress, Steps
<1>11. CASE CheckOut /\ ~Fail("other")
  <2>1. UNCHANGED <<resolved, selection, bares>> /\ at = "checkout" /\ at' = "publish"
    BY <1>11 DEF CheckOut, stage
  <2> QED BY <2>1, <1>0, <1>4 DEF Progress, Steps, Bare
<1>12. CASE Publish /\ ~Fail("other")
  <2>1. /\ UNCHANGED selection /\ at = "publish"
        /\ resolved' = Append(resolved, Bare.head)
        /\ at' = IF Len(resolved') = Len(Order) THEN "target" ELSE "prepare"
    BY <1>12 DEF Publish, stage
  <2>2. Len(resolved') = Len(resolved) + 1
    BY <2>1, <1>0, OneMore DEF Progress, Fetched
  <2> QED BY <2>1, <2>2, <1>0, <1>2 DEF Progress, Steps
<1>13. CASE CreateTarget
  <2>1. UNCHANGED <<resolved, selection>> /\ at = "target" /\ at' = "observe"
    BY <1>13 DEF CreateTarget, stage
  <2>2. trees'[Tree] # "absent"
    BY <1>13, <2>1, <1>0, AtEnd DEF CreateTarget, Types
  <2> QED BY <2>1, <2>2, <1>0, <1>4 DEF Progress, Steps
<1>14. CASE Observe
  <2>1. UNCHANGED <<resolved, selection>> /\ at = "observe" /\ at' = "identify" /\ seen' = trees[Tree]
    BY <1>14 DEF Observe, stage
  <2>2. trees[Tree] \in States /\ trees[Tree] # "absent" /\ trees[Tree] # "broken"
    <3>1. /\ Tree \in Trees /\ CheckoutOf("target") = <<"target", Tree[1], Tree[2]>>
          /\ checkouts[CheckoutOf("target")] \in {"whole", "dirty"}
      BY <2>1, <1>0, AtEnd, Orders
    <3> QED BY <3>1, <2>1, <1>0 DEF Types, Progress, Inv, TreesRest
  <2> QED BY <2>1, <2>2, <1>0 DEF Progress, Steps, States
<1>15. CASE Identify /\ ~Fail("other")
  <2>1. UNCHANGED <<resolved, selection, seen>> /\ at = "identify" /\ at' = "finalize"
    BY <1>15 DEF Identify, stage
  <2> QED BY <2>1, <1>0 DEF Progress, Steps
<1>16. CASE Disturb \/ UNCHANGED vars
  <2>1. UNCHANGED <<at, resolved, selection, seen>>
    BY <1>16 DEF Disturb, vars, stage
  <2>2. at \in OnRole => UNCHANGED bares
    BY <1>16 DEF Disturb, vars, workspace
  <2>3. at = "observe" => trees'[Tree] # "absent"
    <3>1. at = "observe" => Tree \in Trees /\ trees[Tree] # "absent"
      BY <1>0, AtEnd DEF Progress
    <3>2. \A p \in Trees : TreeMoves(p)
      BY TreesMove
    <3> QED BY <3>1, <3>2 DEF TreeMoves
  <2> QED BY <2>1, <2>2, <2>3, <1>0, <1>4 DEF Progress, Steps, Bare
<1>17. CASE \/ Run \/ Select \/ GiveUp \/ Finalize \/ Crash \/ Diagnose \/ Reopen
            \/ \E kind \in Causes : Fail(kind)
  BY <1>1, <1>17, Rests
<1>18. DownloadFails => \E kind \in Causes : Fail(kind)
  BY DEF DownloadFails, Causes
<1> QED BY <1>5, <1>6, <1>7, <1>8, <1>9, <1>10, <1>11, <1>12, <1>13, <1>14, <1>15, <1>16, <1>17, <1>18
        DEF Next, Controller, NotInLocal, Causes

LEMMA AcquiredKept ==
  ASSUME Inv, [Next]_vars
  PROVE  Acquired'
<1>0. Types /\ Progress /\ Acquired
  BY DEF Inv
<1>1. CASE Resting
  BY <1>1, ProgressAtRest
<1>2. ASSUME ~Resting, NEW p \in Checkouts, p \in locks, checkouts[p] \in {"whole", "dirty"},
             Prepare => <<p[1], p[2]>> # B
      PROVE  p \in locks' /\ checkouts'[p] \in {"whole", "dirty"}
  BY <1>2, LocksGrow, CheckoutsMove DEF CheckoutMoves
<1>3. \A i \in DOMAIN resolved :
        LET p == <<Order[i], selection[Order[i]].url, resolved[i]>>
        IN  p \in Checkouts /\ p \in locks /\ checkouts[p] \in {"whole", "dirty"}
  BY <1>0 DEF Acquired, Types
<1>4. Prepare => \A i \in DOMAIN resolved : Order[i] # B[1]
  BY <1>0, AtRole DEF Prepare, OnRole
<1>5. CASE ~Resting /\ UNCHANGED <<resolved, selection>>
  <2> SUFFICES ASSUME NEW i \in DOMAIN resolved
               PROVE  LET p == <<Order[i], selection[Order[i]].url, resolved[i]>>
                      IN  p \in locks' /\ checkouts'[p] \in {"whole", "dirty"}
    BY <1>5 DEF Acquired
  <2> DEFINE p == <<Order[i], selection[Order[i]].url, resolved[i]>>
  <2>1. Prepare => <<p[1], p[2]>> # B
    BY <1>4
  <2>2. p \in Checkouts /\ p \in locks /\ checkouts[p] \in {"whole", "dirty"}
    BY <1>3
  <2> HIDE DEF p
  <2>3. p \in locks' /\ checkouts'[p] \in {"whole", "dirty"}
    BY <1>2, <1>5, <2>1, <2>2
  <2> QED BY <2>3 DEF p
<1>6. CASE Publish /\ ~Fail("other")
  <2>1. /\ UNCHANGED <<selection, checkouts>> /\ at = "publish"
        /\ resolved' = Append(resolved, Bare.head)
        /\ locks' = locks \cup {Checkout} /\ checkouts[Checkout] = "whole"
    BY <1>6 DEF Publish, stage, Lock
  <2>2. /\ DOMAIN resolved' = DOMAIN resolved \cup {Len(resolved) + 1}
        /\ \A i \in DOMAIN resolved : resolved'[i] = resolved[i]
        /\ resolved'[Len(resolved) + 1] = Bare.head
    BY <2>1, <1>0, OneMore DEF Progress, Fetched
  <2>3. Checkout = <<Order[Len(resolved) + 1], selection[Order[Len(resolved) + 1]].url, Bare.head>>
    BY DEF Checkout, Role, Url
  <2> QED BY <2>1, <2>2, <2>3, <1>0 DEF Acquired
<1> QED BY <1>1, <1>5, <1>6, Advances

-----------------------------------------------------------------------------
(* What is locked and accepted.                                            *)

\* Accepted is what this attempt acquired.
LEMMA AcceptedFromEnd ==
  ASSUME Inv, [Next]_vars
  PROVE  UNCHANGED accepted \/ (Finalize /\ accepted' = Manifest /\ BundleStands)
BY DEF Next, Controller, vars, stage, Fail, Run, Select, GiveUp, Load, Prepare, Reuse, Seed, Download,
    DownloadFails, ReuseImport, Import, NotInLocal, WriteReceipt, CheckOut, Publish, CreateTarget, Observe,
    Identify, Finalize, Diagnose, Reopen, Crash, Disturb

LEMMA LockedKept ==
  ASSUME Inv, [Next]_vars
  PROVE  LockedIsWhole'
<1>0. LockedIsWhole /\ Types /\ Progress /\ Acquired
  BY DEF Inv
<1>1. \A p \in locks' : checkouts'[p] \notin {"absent", "partial"}
  <2> SUFFICES ASSUME NEW p \in locks' PROVE checkouts'[p] \notin {"absent", "partial"}
    OBVIOUS
  <2>1. CASE p \in locks
    <3>1. p \in Checkouts /\ checkouts[p] \notin {"absent", "partial"}
      BY <2>1, <1>0 DEF Types, LockedIsWhole
    <3> QED BY <3>1, CheckoutsMove DEF CheckoutMoves
  <2>2. CASE p \notin locks
    BY <2>2, LocksGrow
  <2> QED BY <2>1, <2>2
<1>2. accepted' # None => \A r \in Roles : <<r, accepted'.roles[r].url, accepted'.roles[r].commit>> \in locks'
  <2>1. CASE UNCHANGED accepted
    BY <2>1, <1>0, LocksGrow DEF LockedIsWhole
  <2>2. CASE Finalize /\ accepted' = Manifest
    <3> SUFFICES ASSUME NEW r \in Roles
                 PROVE  <<r, accepted'.roles[r].url, accepted'.roles[r].commit>> \in locks
      BY LocksGrow
    <3>1. CheckoutOf(r) \in locks
      BY <2>2, <1>0, AtEnd DEF Finalize, AfterRoles
    <3>2. accepted'.roles[r].url = selection[r].url /\ accepted'.roles[r].commit = CommitOf(r)
      BY <2>2 DEF Manifest, Revision
    <3> QED BY <3>1, <3>2 DEF CheckoutOf
  <2> QED BY <2>1, <2>2, AcceptedFromEnd
<1> QED BY <1>1, <1>2 DEF LockedIsWhole

-----------------------------------------------------------------------------
(* FETCH_HEAD and its receipt.                                             *)

\* But for a crash, a repository of a public role stays as it is, loses one of
\* the two, is in the middle of a fetch, or is given the receipt of its head.
LEMMA BaresMove ==
  ASSUME Inv, [Next]_vars, ~Crash, NEW b \in Bares, b[1] \notin LocalRoles
  PROVE  \/ bares'[b] = bares[b] /\ ~(at \in {"origin", "receipt"} /\ b = B)
         \/ None \in {bares'[b].receipt, bares'[b].head}
         \/ at' \in {"origin", "receipt"} /\ b = B'
         \/ /\ WriteReceipt /\ b = B
            /\ bares'[b].receipt = Ref /\ bares'[b].head = Bare.head
<1> USE DEF OnRole, Fetching, Fetched
<1>0. Types /\ Progress /\ bares \in [Bares -> {None, Damaged} \cup Repository]
  BY DEF Inv, Types
<1>1. at \in OnRole => B \in Bares /\ B[1] = Role
  BY <1>0, AtRole
<1>2. CASE UNCHANGED bares /\ at \notin {"origin", "receipt"}
  BY <1>2
<1>3. CASE Prepare
  <2>1. bares' = [bares EXCEPT ![B] = IF bares[B] \in {None, Damaged} THEN Fresh ELSE bares[B]] /\ at = "prepare"
    BY <1>3 DEF Prepare
  <2>2. bares'[b] = bares[b] \/ bares'[b] = Fresh
    BY <2>1, <1>0
  <2>3. Fresh.head = None
    BY DEF Fresh
  <2> QED BY <2>1, <2>2, <2>3
<1>4. CASE Seed
  <2>1. UNCHANGED <<resolved, selection>> /\ at = "fetch" /\ at' = "origin"
    BY <1>4 DEF Seed, stage
  <2>2. b # B => bares'[b] = bares[b]
    BY <1>4, <1>0 DEF Seed
  <2> QED BY <2>1, <2>2, RoleStays
<1>5. CASE Download
  <2>1. UNCHANGED <<resolved, selection>> /\ at = "origin" /\ at' = "receipt"
    BY <1>5 DEF Download, stage
  <2>2. b # B => bares'[b] = bares[b]
    BY <1>5, <1>0 DEF Download
  <2> QED BY <2>1, <2>2, RoleStays
<1>6. CASE DownloadFails
  <2>1. at = "origin" /\ bares' = [bares EXCEPT ![B] = [Bare EXCEPT !.head = None]]
    BY <1>6 DEF DownloadFails, Bare
  <2>2. [Bare EXCEPT !.head = None].head = None
    BY <2>1, <1>0 DEF Progress, Repository
  <2> QED BY <2>1, <2>2, <1>0
<1>7. CASE Import
  <2>1. at = "fetch" /\ Role \in LocalRoles
    BY <1>7 DEF Import
  <2>2. b # B
    BY <2>1, <1>1
  <2>3. bares'[b] = bares[b]
    BY <1>7, <2>2, <1>0 DEF Import
  <2> QED BY <2>1, <2>3
<1>8. CASE WriteReceipt
  <2>1. at = "receipt" /\ Bare \in Repository
    BY <1>8, <1>0 DEF WriteReceipt, Progress
  <2>2. CASE b = B
    <3>1. bares' = [bares EXCEPT ![B] = [Bare EXCEPT !.receipt = Ref]]
      BY <1>8, <2>2, <2>1, <1>1 DEF WriteReceipt, Bare
    <3>2. bares'[b] = [Bare EXCEPT !.receipt = Ref]
      BY <3>1, <2>2, <1>0
    <3> QED BY <1>8, <2>1, <2>2, <3>2 DEF Repository
  <2>3. CASE b # B
    BY <1>8, <2>3, <1>0 DEF WriteReceipt
  <2> QED BY <2>2, <2>3
<1>9. CASE Disturb
  <2>1. UNCHANGED <<at, resolved, selection>>
    BY <1>9 DEF Disturb, stage
  <2>2. CASE UNCHANGED bares
    BY <2>1, <2>2, RoleStays
  <2>3. CASE ~UNCHANGED bares
    <3>1. at \notin {"origin", "receipt"} /\ (bares'[b] = bares[b] \/ bares'[b] = Damaged)
      BY <1>9, <2>3, <1>0 DEF Disturb
    <3>2. Damaged.head = None
      BY DEF Damaged, Fresh
    <3> QED BY <3>1, <3>2
  <2> QED BY <2>2, <2>3
<1>10. CASE UNCHANGED vars
  <2>1. UNCHANGED <<bares, at, resolved, selection>>
    BY <1>10 DEF vars, stage, workspace
  <2> QED BY <2>1, RoleStays
<1>11. CASE Run \/ Select \/ GiveUp \/ Load \/ Reuse \/ ReuseImport \/ NotInLocal
  <2>1. UNCHANGED bares /\ at \notin {"origin", "receipt"}
    BY <1>11 DEF Run, Select, GiveUp, Load, Reuse, ReuseImport, NotInLocal, workspace
  <2> QED BY <2>1, <1>2
<1>12. CASE \/ CheckOut \/ Publish \/ CreateTarget \/ Observe \/ Identify \/ Finalize \/ Diagnose
            \/ Reopen
  <2>1. UNCHANGED bares /\ at \notin {"origin", "receipt"}
    BY <1>12 DEF CheckOut, Publish, CreateTarget, Observe, Identify, Finalize, Diagnose, Reopen, workspace
  <2> QED BY <2>1, <1>2
<1> QED BY <1>3, <1>4, <1>5, <1>6, <1>7, <1>8, <1>9, <1>10, <1>11, <1>12 DEF Next, Controller

LEMMA PinnedKept ==
  ASSUME Inv, [Next]_vars, Types'
  PROVE  Pinned'
<1> USE AcquisitionAssumption DEF OnRole, Fetching, Fetched
<1>0. Types /\ Progress /\ Acquired /\ Pinned
  BY DEF Inv
<1> SUFFICES ASSUME crashes' = 0 PROVE Pinned'
  BY DEF Pinned
<1>1. crashes = 0 /\ ~Crash
  <2>1. ~Crash
    BY <1>0 DEF Crash, Types
  <2>2. UNCHANGED crashes \/ Crash
    BY DEF Next, Controller, vars, bounds, Run, Select, GiveUp, Load, Prepare, Reuse, Seed, Download,
      DownloadFails, ReuseImport, Import, NotInLocal, WriteReceipt, CheckOut, Publish, CreateTarget,
      Observe, Identify, Finalize, Diagnose, Reopen, Disturb
  <2> QED BY <2>1, <2>2
<1>2. at \in OnRole => B \in Bares /\ B[1] = Role /\ B[2] = Url /\ Bare = bares[B] /\ Ref \in Refs
  BY <1>0, AtRole DEF Bare
<1>3. ASSUME NEW b \in Bares, b[1] \notin LocalRoles, bares'[b] # None,
             None \notin {bares'[b].receipt, bares'[b].head},
             ~(at' \in {"origin", "receipt"} /\ b = B')
      PROVE  bares'[b].head = Served[b[2]][bares'[b].receipt]
  <2>1. CASE bares'[b] = bares[b] /\ ~(at \in {"origin", "receipt"} /\ b = B)
    BY <1>3, <2>1, <1>0, <1>1 DEF Pinned
  <2>2. CASE WriteReceipt /\ b = B /\ bares'[b].receipt = Ref /\ bares'[b].head = Bare.head
    <3>1. at = "receipt" /\ Role \notin LocalRoles
      BY <1>3, <2>2, <1>2 DEF WriteReceipt
    <3> QED BY <2>2, <3>1, <1>0, <1>1, <1>2 DEF Pinned
  <2> QED BY <1>1, <1>3, <2>1, <2>2, BaresMove
<1>4. ASSUME at' \in Fetched, Role' \notin LocalRoles
      PROVE  Bare'.head = Served'[Url'][Ref']
  <2>1. UNCHANGED <<resolved, selection>> =>
          Role' = Role /\ Url' = Url /\ Ref' = Ref /\ Bare' = bares'[B]
    BY RoleStays DEF Bare
  <2>2. CASE Reuse
    <3>1. UNCHANGED <<resolved, selection, bares>> /\ at = "fetch" /\ Role \notin LocalRoles
      BY <2>2 DEF Reuse, stage, workspace
    <3>2. Bare # None /\ None \notin {Bare.receipt, Bare.head} /\ Bare.receipt = Ref
      BY <2>2, <3>1, <1>0, <1>2 DEF Reuse, Received, Progress
    <3>3. Bare.head = Served[Url][Ref]
      BY <3>1, <3>2, <1>0, <1>1, <1>2 DEF Pinned
    <3> QED BY <2>1, <3>1, <3>3, <1>2
  <2>3. CASE ReuseImport \/ Import
    <3>1. Role \in LocalRoles
      BY <2>3 DEF ReuseImport, Import
    <3>2. UNCHANGED <<resolved, selection>>
      BY <2>3, <1>4 DEF ReuseImport, Import, stage, Fail
    <3> QED BY <2>1, <3>1, <3>2, <1>4
  <2>4. CASE Download
    <3>1. UNCHANGED <<resolved, selection>> /\ at = "origin" /\ bares' = [bares EXCEPT ![B] = [Bare EXCEPT !.head = Served[Url][Ref]]]
      BY <2>4 DEF Download, stage, Bare
    <3>2. Bare \in Repository
      BY <3>1, <1>0 DEF Progress
    <3>3. [Bare EXCEPT !.head = Served[Url][Ref]].head = Served[Url][Ref]
      BY <3>2 DEF Repository
    <3> QED BY <2>1, <3>1, <3>3, <1>0, <1>2 DEF Types
  <2>5. CASE WriteReceipt
    <3>1. UNCHANGED <<resolved, selection>> /\ at = "receipt"
      BY <2>5 DEF WriteReceipt, stage
    <3>2. bares' = [bares EXCEPT ![B] = [Bare EXCEPT !.receipt = Ref]] /\ Role \notin LocalRoles
      BY <2>1, <2>5, <3>1, <1>4 DEF WriteReceipt, Bare
    <3>3. Bare \in Repository
      BY <3>1, <1>0 DEF Progress
    <3>4. [Bare EXCEPT !.receipt = Ref].head = Bare.head
      BY <3>3 DEF Repository
    <3>5. Bare'.head = Bare.head
      BY <2>1, <3>1, <3>2, <3>4, <1>0, <1>2 DEF Types
    <3> QED BY <2>1, <3>1, <3>2, <3>5, <1>0, <1>1 DEF Pinned
  <2>6. CASE UNCHANGED <<resolved, selection, bares>> /\ at \in Fetched
    BY <2>1, <2>6, <1>0, <1>1, <1>2, <1>4 DEF Pinned
  <2>7. \/ Reuse \/ ReuseImport \/ Import \/ Download \/ WriteReceipt
        \/ UNCHANGED <<resolved, selection, bares>> /\ at \in Fetched
    <3>1. CASE Disturb \/ UNCHANGED vars
      <4>1. UNCHANGED <<resolved, selection, at>>
        BY <3>1 DEF Disturb, vars, stage
      <4>2. at \in Fetched => UNCHANGED bares
        BY <3>1 DEF Disturb, vars, workspace
      <4> QED BY <4>1, <4>2, <1>4
    <3>2. CASE CheckOut
      BY <3>2, <1>4 DEF CheckOut, stage, Fail
    <3>3. CASE Publish
      BY <3>3, <1>4 DEF Publish, Fail
    <3>4. CASE Run \/ Select \/ GiveUp \/ Load \/ Prepare \/ Seed \/ DownloadFails \/ NotInLocal
      BY <3>4, <1>4, <1>0 DEF Run, Select, GiveUp, Load, Prepare, Seed, DownloadFails, NotInLocal, Fail
    <3>5. CASE CreateTarget \/ Observe \/ Identify \/ Finalize \/ Diagnose \/ Reopen
      BY <3>5, <1>4 DEF CreateTarget, Observe, Identify, Finalize, Diagnose, Reopen, Fail
    <3> QED BY <1>1, <3>1, <3>2, <3>3, <3>4, <3>5 DEF Next, Controller
  <2> QED BY <2>2, <2>3, <2>4, <2>5, <2>6, <2>7
<1>5. ASSUME NEW i \in DOMAIN resolved', Order[i] \notin LocalRoles
      PROVE  resolved'[i] = Served[selection'[Order[i]].url][selection'[Order[i]].ref]
  <2>1. CASE UNCHANGED <<resolved, selection>>
    BY <1>5, <2>1, <1>0, <1>1 DEF Pinned
  <2>2. CASE resolved' = <<>>
    BY <1>5, <2>2
  <2>3. CASE Publish /\ ~Fail("other")
    <3>1. /\ UNCHANGED selection /\ at = "publish"
          /\ resolved' = Append(resolved, Bare.head)
      BY <2>3 DEF Publish, stage
    <3>2. /\ DOMAIN resolved' = DOMAIN resolved \cup {Len(resolved) + 1}
          /\ \A j \in DOMAIN resolved : resolved'[j] = resolved[j]
          /\ resolved'[Len(resolved) + 1] = Bare.head
      BY <3>1, <1>0, OneMore DEF Progress
    <3>3. Role \notin LocalRoles => Bare.head = Served[Url][Ref]
      BY <3>1, <1>0, <1>1 DEF Pinned
    <3> QED BY <1>5, <3>1, <3>2, <3>3, <1>0, <1>1 DEF Pinned, Role, Url, Ref
  <2> QED BY <2>1, <2>2, <2>3, Advances DEF Resting
<1> QED BY <1>3, <1>4, <1>5 DEF Pinned

LEMMA PublicRevisionKept ==
  ASSUME Inv, [Next]_vars
  PROVE  PublicRevision'
<1>0. Types /\ Progress /\ Acquired /\ Pinned /\ PublicRevision
  BY DEF Inv
<1>1. crashes' = 0 => crashes = 0
  <2>1. CASE Crash
    BY <2>1, <1>0 DEF Crash, Types
  <2>2. UNCHANGED crashes \/ Crash
    BY DEF Next, Controller, vars, bounds, Run, Select, GiveUp, Load, Prepare, Reuse, Seed, Download,
      DownloadFails, ReuseImport, Import, NotInLocal, WriteReceipt, CheckOut, Publish, CreateTarget,
      Observe, Identify, Finalize, Diagnose, Reopen, Disturb
  <2> QED BY <2>1, <2>2
<1>2. CASE UNCHANGED accepted
  BY <1>0, <1>1, <1>2 DEF PublicRevision
<1>3. CASE Finalize /\ accepted' = Manifest
  <2> SUFFICES ASSUME crashes = 0, NEW r \in Roles \ LocalRoles
               PROVE  accepted'.roles[r].commit = Served[accepted'.roles[r].url][accepted'.roles[r].ref]
    BY <1>1 DEF PublicRevision
  <2>1. PICK i \in DOMAIN resolved : Order[i] = r /\ CommitOf(r) = resolved[i]
    BY <1>3, <1>0, AtEnd DEF Finalize, AfterRoles
  <2>2. resolved[i] = Served[selection[r].url][selection[r].ref]
    BY <2>1, <1>0 DEF Pinned
  <2>3. /\ accepted'.roles[r].url = selection[r].url /\ accepted'.roles[r].ref = selection[r].ref
        /\ accepted'.roles[r].commit = CommitOf(r)
    BY <1>3 DEF Manifest, Revision
  <2> QED BY <2>1, <2>2, <2>3
<1> QED BY <1>2, <1>3, AcceptedFromEnd

-----------------------------------------------------------------------------
(* Why the worker is asked.                                                *)

LEMMA CauseKept ==
  ASSUME Inv, [Next]_vars
  PROVE  Cause'
<1> USE AcquisitionAssumption DEF Causes
<1>0. Types /\ Progress /\ Cause
  BY DEF Inv
<1>1. CASE Run
  BY <1>1, <1>0 DEF Run, stage, Cause, Asked, Types, Steps
<1>2. CASE Select
  BY <1>2, <1>0 DEF Select, Cause, Types
<1>3. CASE GiveUp
  BY <1>3, <1>0 DEF GiveUp, Cause
<1>4. ASSUME NEW kind \in Causes, Fail(kind), at \in Steps,
             kind = "refused" => at = "origin" /\ (Served[Url][Ref] = None \/ Ref \in FullCommits)
      PROVE  Cause'
  <2>1. UNCHANGED <<status, selection>> /\ failure' = kind /\ selection # None
    BY <1>4, <1>0 DEF Fail, Progress
  <2>2. status \in {"READY", "RUNNING"}
    BY <1>4, <1>0 DEF Cause, Steps
  <2>3. failure' = "transfer" => at' # "worker"
    BY <1>4 DEF Fail, Resumable
  <2>4. failure' = "refused" =>
          \E r \in Roles \ LocalRoles :
            LET s == selection[r] IN Served[s.url][s.ref] = None \/ s.ref \in FullCommits
    <3> SUFFICES ASSUME kind = "refused"
                 PROVE  \E r \in Roles \ LocalRoles :
                          LET s == selection[r] IN Served[s.url][s.ref] = None \/ s.ref \in FullCommits
      BY <2>1
    <3>1. Role \in Roles \ LocalRoles
      BY <1>4, <1>0, AtRole DEF Progress, OnRole, Fetching
    <3> QED BY <1>4, <3>1 DEF Url, Ref
  <2> QED BY <2>1, <2>2, <2>3, <2>4 DEF Cause
<1>5. CASE DownloadFails
  BY <1>4, <1>5 DEF DownloadFails, Refused, Steps
<1>6. CASE (Load \/ NotInLocal \/ CheckOut \/ Publish \/ Identify \/ Finalize) /\ Fail("other")
  BY <1>4, <1>6 DEF Load, NotInLocal, CheckOut, Publish, Identify, Finalize, Steps
<1>7. CASE Import /\ Fail("transfer")
  BY <1>4, <1>7 DEF Import, Steps
<1>8. ASSUME UNCHANGED <<status, selection, failure>>, at \in Steps, at' \in Steps
      PROVE  Cause'
  BY <1>8, <1>0 DEF Cause, Steps
<1>9. CASE (Load \/ CheckOut \/ Publish \/ Identify) /\ ~Fail("other")
  BY <1>8, <1>9 DEF Load, CheckOut, Publish, Identify, stage, Steps
<1>10. CASE Finalize /\ ~Fail("other")
  BY <1>10, <1>0 DEF Finalize, Cause
<1>11. CASE Import /\ ~Fail("transfer")
  BY <1>8, <1>11 DEF Import, stage, Steps
<1>12. CASE \/ Prepare \/ Reuse \/ Seed \/ Download \/ ReuseImport \/ WriteReceipt \/ CreateTarget
            \/ Observe
  BY <1>8, <1>12 DEF Prepare, Reuse, Seed, Download, ReuseImport, WriteReceipt, CreateTarget, Observe,
    stage, Steps
<1>13. CASE Diagnose
  BY <1>13, <1>0 DEF Diagnose, Cause
<1>14. CASE Reopen
  BY <1>14, <1>0 DEF Reopen, Cause
<1>15. CASE Crash
  BY <1>15, <1>0 DEF Crash, stage, Cause
<1>16. CASE Disturb \/ UNCHANGED vars
  <2>1. UNCHANGED <<status, selection, failure, at>>
    BY <1>16 DEF Disturb, vars, stage
  <2> QED BY <2>1, <1>0 DEF Cause
<1> QED BY <1>1, <1>2, <1>3, <1>5, <1>6, <1>7, <1>9, <1>10, <1>11, <1>12, <1>13, <1>14, <1>15, <1>16
        DEF Next, Controller, NotInLocal

-----------------------------------------------------------------------------
(* Downloads that are kept, while nobody else acts.                        *)

\* An attempt finds again what an earlier one with the same selection acquired.
Settled(i) ==
  LET r == Order[i]
      s == selection[r]
      bare == bares[<<r, s.url>>]
  IN  /\ bare \in Repository /\ bare.head \in Commits
      /\ IF r \in LocalRoles
         THEN bare.imported = bare.head /\ local[s.ref] = bare.head
         ELSE bare.receipt = s.ref
      /\ checkouts[<<r, s.url, bare.head>>] = "whole"

\* The selection has another ref for this repository than the one downloaded, and
\* every role before its own (the k-th) will be found settled.
Awaited(b, k) ==
  /\ Order[k] = b[1]
  /\ selection \in Selections
  /\ selection[b[1]].url = b[2] /\ selection[b[1]].ref # downloads[b].ref
  /\ \A r \in Roles : Fixed(selection[r])
  /\ \A i \in 1 .. k - 1 : Settled(i)

\* The attempt, or the one resumed next, has not passed that role and goes there.
Ahead(b, k) ==
  /\ Len(resolved) < k
  /\ failure \in {None, "transfer"}
  /\ at \in {"stopped", "load", "prepare", "fetch", "origin", "checkout", "publish"}
  /\ at = "origin" => b = B
  /\ at \in {"checkout", "publish"} => Len(resolved) + 1 < k

\* FETCH_HEAD was lost to a supplied baseline that could not be imported, which
\* happens on the way to a download of another ref only.
Interrupted(b) == \E k \in DOMAIN Order : Awaited(b, k) /\ Ahead(b, k)

\* What is being acquired was selected, and no error of it is known.
Unrefuted ==
  /\ at \in OnRole \cup {"load"} => failure \in {None, "transfer"}
  /\ at \in OnRole => \A r \in Roles : Fixed(selection[r])

\* What is known of the repository at work.
AtHand ==
  /\ at = "receipt" => IF Role \in LocalRoles THEN Bare.head = local[Ref]
                                            ELSE downloads[B] = [ref |-> Ref, kept |-> FALSE]
  /\ at \in {"checkout", "publish"} =>
       IF Role \in LocalRoles THEN Bare.imported = Bare.head /\ local[Ref] = Bare.head
                              ELSE Bare.receipt = Ref
  /\ at = "origin" => Bare.receipt # Ref \/ ~downloads[B].kept

\* A download that was kept has its receipt, and its FETCH_HEAD but for a while.
Lasting(b) ==
  downloads[b].kept =>
    /\ bares[b] \in Repository /\ bares[b].receipt = downloads[b].ref
    /\ bares[b].head = None => Interrupted(b)

NoneDamaged == \A b \in Bares : bares[b] # Damaged

\* The invariant, until the first act of the operator or of another process.
Calm ==
  /\ NoneDamaged
  /\ Unrefuted
  /\ \A i \in DOMAIN resolved : Settled(i)
  /\ AtHand
  /\ \A b \in Bares : b[1] \notin LocalRoles => Lasting(b)

Undisturbed == acts = 0 => Calm

\* An act is counted for good.
LEMMA Undisturbing ==
  ASSUME Types, [Next]_vars, acts' = 0
  PROVE  acts = 0 /\ ~Disturb /\ ~Diagnose /\ ~Reopen /\ UNCHANGED local
<1>1. ~Disturb /\ ~Diagnose /\ ~Reopen
  BY DEF Disturb, Diagnose, Reopen, Types
<1>2. UNCHANGED <<acts, local>>
  BY <1>1 DEF Next, Controller, vars, bounds, workspace, Run, Select, GiveUp, Load, Prepare, Reuse, Seed,
    Download, DownloadFails, ReuseImport, Import, NotInLocal, WriteReceipt, CheckOut, Publish,
    CreateTarget, Observe, Identify, Finalize, Crash
<1> QED BY <1>1, <1>2

LEMMA InitiallyUndisturbed == Init => Undisturbed
<1> SUFFICES ASSUME Init PROVE Calm
  BY DEF Undisturbed
<1>1. None # Damaged
  BY DamagedAssumption
<1> QED BY <1>1 DEF Init, Calm, NoneDamaged, Unrefuted, AtHand, Lasting, OnRole, Fetching, Fetched

\* A checkout that is whole stays it, while no repository is moved away.
LEMMA WholeStays ==
  ASSUME Inv, [Next]_vars, acts' = 0, NoneDamaged
  PROVE  \A p \in Checkouts : checkouts[p] = "whole" => checkouts'[p] = "whole"
<1>0. checkouts \in [Checkouts -> States]
  BY DEF Inv, Types
<1>1. ~Disturb
  BY Undisturbing DEF Inv
<1>2. CASE Prepare
  <2>1. Bare # Damaged
    BY <1>2, AtRole DEF NoneDamaged, Inv, Prepare, OnRole, Bare
  <2> QED BY <1>2, <2>1 DEF Prepare
<1>3. CASE CheckOut \/ Crash
  BY <1>3, <1>0 DEF CheckOut, Crash, CutShort
<1>4. UNCHANGED checkouts \/ Prepare \/ CheckOut \/ Crash
  BY <1>1 DEF Next, Controller, vars, workspace, Run, Select, GiveUp, Load, Reuse, Seed, Download,
    DownloadFails, ReuseImport, Import, NotInLocal, WriteReceipt, Publish, CreateTarget, Observe,
    Identify, Finalize, Diagnose, Reopen
<1> QED BY <1>2, <1>3, <1>4

\* What is settled stays it as long as its own repository is not written.
LEMMA SettledStays ==
  ASSUME Inv, [Next]_vars, acts' = 0, NoneDamaged,
         NEW i \in DOMAIN Order, selection \in Selections, UNCHANGED selection, Settled(i),
         bares'[<<Order[i], selection[Order[i]].url>>] = bares[<<Order[i], selection[Order[i]].url>>]
  PROVE  Settled(i)'
<1> DEFINE r == Order[i]
           s == selection[r]
           bare == bares[<<r, s.url>>]
           p == <<r, s.url, bare.head>>
<1>1. r \in Roles /\ s.url \in Urls
  BY Orders DEF Selections
<1>2. p \in Checkouts
  BY <1>1 DEF Settled, Checkouts
<1>3. checkouts'[p] = "whole"
  BY <1>2, WholeStays DEF Settled
<1>4. UNCHANGED local
  BY Undisturbing DEF Inv
<1> QED BY <1>3, <1>4 DEF Settled

\* So do the roles before the one awaited.
LEMMA AwaitedStays ==
  ASSUME Inv, [Next]_vars, acts' = 0, NoneDamaged, UNCHANGED selection,
         NEW b, NEW k \in DOMAIN Order, Awaited(b, k), downloads'[b] = downloads[b],
         \A i \in 1 .. k - 1 :
           LET p == <<Order[i], selection[Order[i]].url>> IN bares'[p] = bares[p]
  PROVE  Awaited(b, k)'
<1>1. ASSUME NEW i \in 1 .. k - 1
      PROVE  Settled(i)'
  <2>1. i \in DOMAIN Order
    BY Orders
  <2>2. Settled(i) /\ selection \in Selections
    BY DEF Awaited
  <2> QED BY <2>1, <2>2, SettledStays
<1>2. (\A r \in Roles : Fixed(selection[r]))'
  BY DEF Awaited, Fixed
<1> QED BY <1>1, <1>2 DEF Awaited

\* The role at work is not past the one awaited, or is it, or was found settled.
LEMMA RolesBefore ==
  ASSUME Inv, at \in OnRole, NEW b \in Bares, NEW k \in DOMAIN Order, Awaited(b, k), Len(resolved) < k
  PROVE  /\ B = b <=> Len(resolved) + 1 = k
         /\ Len(resolved) + 1 # k =>
              /\ Len(resolved) + 1 < k
              /\ Role # b[1]
              /\ Settled(Len(resolved) + 1)
         /\ Len(resolved) + 1 = k =>
              /\ \A i \in 1 .. k - 1 : Order[i] # Role
              /\ Role = b[1] /\ Ref # downloads[b].ref
<1> DEFINE j == Len(resolved) + 1
<1>1. j \in DOMAIN Order /\ k \in Nat /\ j \in Nat /\ j <= k /\ DOMAIN Order = 1 .. Len(Order) /\ Len(Order) \in Nat
  BY Orders, Acquiring, AtRole DEF Inv
<1>2. Role = Order[j]
  BY DEF Role
<1>3. b = <<b[1], b[2]>>
  BY DEF Bares
<1>4. j = k => B = b /\ Role = b[1] /\ Ref # downloads[b].ref
  BY <1>2, <1>3 DEF Awaited, B, Url, Ref
<1>5. j # k => Role # b[1]
  BY <1>1, <1>2, Orders DEF Awaited
<1>6. B = b => Role = b[1]
  BY DEF B
<1>7. j # k => j < k /\ j \in 1 .. k - 1
  BY <1>1
<1>8. j # k => Settled(j)
  BY <1>7 DEF Awaited
<1>9. j = k => \A i \in 1 .. k - 1 : Order[i] # Role
  BY <1>1, <1>2, Orders
<1> QED BY <1>4, <1>5, <1>6, <1>7, <1>8, <1>9

\* The role at work is settled when it is before the one awaited.
LEMMA SettledAtWork ==
  ASSUME Settled(Len(resolved) + 1)
  PROVE  /\ Bare \in Repository /\ Bare.head \in Commits /\ Bare.head # None
         /\ IF Role \in LocalRoles THEN Bare.imported = Bare.head /\ local[Ref] = Bare.head
                                   ELSE Bare.receipt = Ref
         /\ checkouts[Checkout] = "whole"
BY AcquisitionAssumption DEF Settled, Bare, B, Role, Url, Ref, Checkout

\* What a step does to a repository that a download was kept of.
LEMMA KeptMoves ==
  ASSUME Inv, [Next]_vars, acts' = 0, Calm, NEW b \in Bares, b[1] \notin LocalRoles, downloads[b].kept
  PROVE  \/ /\ downloads'[b] = downloads[b]
            /\ bares'[b] \in Repository /\ bares'[b].receipt = bares[b].receipt
            /\ bares'[b].head = bares[b].head \/ (Seed /\ b = B)
         \/ at = "origin" /\ b = B /\ downloads'[b] = [ref |-> Ref, kept |-> FALSE]
<1> USE DEF OnRole, Fetching, Fetched
<1>0. /\ Types /\ Progress /\ bares \in [Bares -> {None, Damaged} \cup Repository]
      /\ downloads \in [Bares -> [ref : Refs \cup {None}, kept : BOOLEAN]]
  BY DEF Inv, Types
<1>1. at \in OnRole => B \in Bares /\ B[1] = Role
  BY <1>0, AtRole
<1>2. bares[b] \in Repository /\ bares[b] # Damaged /\ bares[b] # None
  BY AcquisitionAssumption DEF Calm, NoneDamaged, Lasting
<1>3. CASE UNCHANGED <<bares, downloads>>
  BY <1>2, <1>3
<1>4. CASE Prepare
  <2>1. bares' = [bares EXCEPT ![B] = IF bares[B] \in {None, Damaged} THEN Fresh ELSE bares[B]] /\ UNCHANGED downloads
    BY <1>4 DEF Prepare
  <2>2. bares'[b] = bares[b]
    BY <2>1, <1>0, <1>2
  <2> QED BY <2>1, <2>2, <1>2
<1>5. CASE Seed
  <2>1. at = "fetch" /\ UNCHANGED downloads
    BY <1>5 DEF Seed
  <2>2. CASE b # B
    BY <1>5, <2>1, <2>2, <1>0, <1>2 DEF Seed
  <2>3. CASE b = B
    <3>1. Bare \in Repository /\ Cached[Url][Ref] \in Commits \cup {None}
      BY <2>1, <1>0, AtRole, AcquisitionAssumption DEF Progress
    <3>2. \/ bares' = bares
          \/ bares' = [bares EXCEPT ![B] = [Bare EXCEPT !.head = Cached[Url][Ref], !.seeded = TRUE]]
          \/ bares' = [bares EXCEPT ![B] = [Bare EXCEPT !.head = None]]
      <4>1. CASE bares' = [bares EXCEPT ![B].head = Cached[Url][Ref], ![B].seeded = TRUE]
        BY <4>1, <2>1, <1>0, <1>1 DEF Bare
      <4>2. CASE bares' = [bares EXCEPT ![B].head = None]
        BY <4>2 DEF Bare
      <4> QED BY <1>5, <4>1, <4>2 DEF Seed
    <3>3. /\ [Bare EXCEPT !.head = Cached[Url][Ref], !.seeded = TRUE] \in Repository
          /\ [Bare EXCEPT !.head = None] \in Repository
          /\ [Bare EXCEPT !.head = Cached[Url][Ref], !.seeded = TRUE].receipt = Bare.receipt
          /\ [Bare EXCEPT !.head = None].receipt = Bare.receipt
      BY <3>1 DEF Repository
    <3>4. bares'[b] \in Repository /\ bares'[b].receipt = Bare.receipt
      BY <3>2, <3>3, <3>1, <2>3, <1>0 DEF Bare
    <3> QED BY <1>5, <2>1, <2>3, <3>4 DEF Bare
  <2> QED BY <2>2, <2>3
<1>6. CASE Download \/ DownloadFails
  <2>1. /\ at = "origin" /\ downloads' = [downloads EXCEPT ![B] = [ref |-> Ref, kept |-> FALSE]]
        /\ \E h : bares' = [bares EXCEPT ![B] = h]
    BY <1>6 DEF Download, DownloadFails
  <2> QED BY <2>1, <1>0, <1>1, <1>2
<1>7. CASE Import
  <2>1. b # B
    BY <1>7, <1>1 DEF Import
  <2> QED BY <1>7, <2>1, <1>0, <1>2 DEF Import
<1>8. CASE WriteReceipt
  <2>1. at = "receipt"
    BY <1>8 DEF WriteReceipt
  <2>2. b # B
    <3>1. Role \notin LocalRoles => ~downloads[B].kept
      BY <2>1 DEF Calm, AtHand
    <3> QED BY <2>1, <3>1, <1>1
  <2> QED BY <1>8, <2>2, <1>0, <1>2 DEF WriteReceipt
<1>9. CASE Crash
  <2>1. CASE /\ at = "origin" /\ downloads' = [downloads EXCEPT ![B] = [ref |-> Ref, kept |-> FALSE]]
             /\ \E h : bares' = [bares EXCEPT ![B] = h]
    BY <2>1, <1>0, <1>1, <1>2
  <2> QED BY <1>3, <1>9, <2>1 DEF Crash, CutShort
<1>10. ~Disturb
  BY <1>0, Undisturbing
<1> QED BY <1>3, <1>4, <1>5, <1>6, <1>7, <1>8, <1>9, <1>10
        DEF Next, Controller, vars, workspace, Run, Select, GiveUp, Load, Reuse, ReuseImport, NotInLocal, CheckOut,
          Publish, CreateTarget, Observe, Identify, Finalize, Diagnose, Reopen

\* A repository that is one is not made anew.
LEMMA BareStays ==
  ASSUME Inv, Calm, NEW p \in Bares, bares[p] \in Repository, Prepare
  PROVE  bares'[p] = bares[p]
<1>1. bares' = [bares EXCEPT ![B] = IF bares[B] \in {None, Damaged} THEN Fresh ELSE bares[B]]
  BY DEF Prepare
<1>2. bares[p] # None /\ bares[p] # Damaged /\ bares \in [Bares -> {None, Damaged} \cup Repository]
  BY AcquisitionAssumption DEF Inv, Types, Calm, NoneDamaged
<1> QED BY <1>1, <1>2

\* Whoever waits for a download to be looked for again waits on, or has it.
LEMMA InterruptedStays ==
  ASSUME Inv, [Next]_vars, acts' = 0, Calm, NEW b \in Bares, b[1] \notin LocalRoles,
         bares[b].head = None, Interrupted(b), downloads[b].kept, downloads'[b] = downloads[b]
  PROVE  Interrupted(b)'
<1> USE DEF OnRole, Fetching, Fetched
<1>0. /\ Types /\ Progress /\ NoneDamaged
      /\ bares \in [Bares -> {None, Damaged} \cup Repository]
  BY DEF Inv, Types, Calm
<1>1. PICK k \in DOMAIN Order : Awaited(b, k) /\ Ahead(b, k)
  BY DEF Interrupted
<1>2. /\ k \in 1 .. Len(Order) /\ Len(Order) \in Nat
      /\ Len(resolved) \in Nat /\ 0 < k
      /\ selection \in Selections /\ selection # None
  BY <1>0, <1>1, Orders, Acquiring, AcquisitionAssumption DEF Awaited
<1>3. at \in OnRole =>
        /\ B \in Bares /\ B[1] = Role
        /\ B = b <=> Len(resolved) + 1 = k
        /\ Len(resolved) + 1 # k =>
             /\ Len(resolved) + 1 < k
             /\ Role # b[1]
             /\ Settled(Len(resolved) + 1)
        /\ Len(resolved) + 1 = k => \A i \in 1 .. k - 1 : Order[i] # Role
        /\ Len(resolved) + 1 = k => Role = b[1] /\ Ref # downloads[b].ref
  BY <1>0, <1>1, AtRole, RolesBefore DEF Ahead
<1>4. Len(resolved) + 1 # k /\ at \in OnRole =>
        /\ Bare \in Repository /\ Bare.head \in Commits /\ Bare.head # None
        /\ IF Role \in LocalRoles THEN Bare.imported = Bare.head /\ local[Ref] = Bare.head
                                  ELSE Bare.receipt = Ref
        /\ checkouts[Checkout] = "whole"
  BY <1>3, SettledAtWork
<1>5. \A i \in 1 .. k - 1 :
        LET p == <<Order[i], selection[Order[i]].url>> IN p \in Bares /\ bares[p] \in Repository
  <2> SUFFICES ASSUME NEW i \in 1 .. k - 1
               PROVE  LET p == <<Order[i], selection[Order[i]].url>> IN p \in Bares /\ bares[p] \in Repository
    OBVIOUS
  <2>1. i \in DOMAIN Order
    BY <1>2, Orders
  <2>2. Order[i] \in Roles /\ selection[Order[i]].url \in Urls
    BY <2>1, <1>2, Orders DEF Selections
  <2>3. Settled(i)
    BY <1>1 DEF Awaited
  <2> QED BY <2>2, <2>3 DEF Settled, Bares
<1> DEFINE Others == \A i \in 1 .. k - 1 :
                       LET p == <<Order[i], selection[Order[i]].url>> IN bares'[p] = bares[p]
<1>6. ASSUME UNCHANGED selection, Others, Ahead(b, k)'
      PROVE  Interrupted(b)'
  <2>1. Awaited(b, k)'
    BY <1>6, <1>0, <1>1, AwaitedStays
  <2> QED BY <2>1, <1>6 DEF Interrupted
<1>7. UNCHANGED bares => Others
  OBVIOUS
<1> HIDE DEF Others
<1>8. CASE UNCHANGED vars
  <2>1. UNCHANGED <<bares, selection, resolved, failure, at>>
    BY <1>8 DEF vars, workspace, stage
  <2>2. Ahead(b, k)'
    BY <2>1, <1>1, RoleStays DEF Ahead
  <2> QED BY <2>1, <2>2, <1>6, <1>7
<1>9. CASE Run
  <2>1. UNCHANGED <<bares, selection, resolved, failure>> /\ at' = "load"
    BY <1>9, <1>1, <1>2 DEF Run, Asked, Ahead, workspace, stage
  <2>2. Ahead(b, k)'
    BY <2>1, <1>1 DEF Ahead
  <2> QED BY <2>1, <2>2, <1>6, <1>7
<1>10. CASE Load
  <2>1. UNCHANGED <<bares, selection, resolved, failure>> /\ at' = "prepare"
    BY <1>10, <1>1 DEF Load, Awaited, workspace, stage
  <2>2. Ahead(b, k)'
    BY <2>1, <1>1 DEF Ahead
  <2> QED BY <2>1, <2>2, <1>6, <1>7
<1>11. CASE Prepare
  <2>1. UNCHANGED <<selection, resolved, failure>> /\ at' = "fetch"
    BY <1>11 DEF Prepare, stage
  <2>2. Ahead(b, k)'
    BY <2>1, <1>1 DEF Ahead
  <2>3. Others
    BY <1>5, <1>11, BareStays DEF Others
  <2> QED BY <2>1, <2>2, <2>3, <1>6
<1>12. CASE Reuse \/ ReuseImport
  <2>1. UNCHANGED <<bares, selection, resolved, failure>> /\ at = "fetch" /\ at' = "checkout"
    BY <1>12 DEF Reuse, ReuseImport, workspace, stage
  <2>2. Len(resolved) + 1 # k
    <3>1. CASE Reuse
      BY <3>1, <2>1, <1>3 DEF Reuse, Received, Bare
    <3>2. CASE ReuseImport
      BY <3>2, <2>1, <1>3 DEF ReuseImport
    <3> QED BY <1>12, <3>1, <3>2
  <2>3. Ahead(b, k)'
    BY <2>1, <2>2, <1>1, <1>3 DEF Ahead
  <2> QED BY <2>1, <2>3, <1>6, <1>7
<1>13. CASE Seed
  <2>1. UNCHANGED <<selection, resolved, failure>> /\ at = "fetch" /\ at' = "origin" /\ ~Received /\ Role \notin LocalRoles
    BY <1>13 DEF Seed, stage
  <2>2. Len(resolved) + 1 = k
    BY <2>1, <1>4 DEF Received
  <2>3. B' = b
    BY <2>1, <2>2, <1>3, RoleStays
  <2>4. Ahead(b, k)'
    BY <2>1, <2>3, <1>1 DEF Ahead
  <2>5. Others
    <3>1. \A p \in Bares : p # B => bares'[p] = bares[p]
      BY <1>13, <1>0 DEF Seed
    <3>2. \A i \in 1 .. k - 1 : <<Order[i], selection[Order[i]].url>> # B
      BY <2>1, <2>2, <1>3
    <3> QED BY <3>1, <3>2, <1>5 DEF Others
  <2> QED BY <2>1, <2>4, <2>5, <1>6
<1>14. CASE Download \/ DownloadFails
  <2>1. at = "origin" /\ downloads' = [downloads EXCEPT ![B] = [ref |-> Ref, kept |-> FALSE]]
    BY <1>14 DEF Download, DownloadFails
  <2>2. B = b
    BY <2>1, <1>1 DEF Ahead
  <2>3. downloads'[b] = [ref |-> Ref, kept |-> FALSE]
    BY <2>1, <2>2, <1>0 DEF Types
  <2> QED BY <2>3
<1>15. ~Import /\ ~NotInLocal
  BY <1>1, <1>3, <1>4 DEF Import, NotInLocal, Ahead
<1>16. CASE CheckOut
  <2>1. at = "checkout" /\ Len(resolved) + 1 < k
    BY <1>16, <1>1 DEF CheckOut, Ahead
  <2>2. checkouts[Checkout] = "whole"
    BY <2>1, <1>2, <1>4
  <2>3. UNCHANGED <<bares, selection, resolved, failure>> /\ at' = "publish"
    BY <1>16, <2>2 DEF CheckOut, stage
  <2>4. Ahead(b, k)'
    BY <2>1, <2>3, <1>1 DEF Ahead
  <2> QED BY <2>3, <2>4, <1>6, <1>7
<1>17. CASE Publish
  <2>1. at = "publish" /\ Len(resolved) + 1 < k
    BY <1>17, <1>1 DEF Publish, Ahead
  <2>2. checkouts[Checkout] = "whole" /\ Bare.head \in Commits
    BY <2>1, <1>2, <1>4
  <2>3. /\ UNCHANGED <<bares, selection, failure>>
        /\ resolved' = Append(resolved, Bare.head)
        /\ at' = IF Len(resolved') = Len(Order) THEN "target" ELSE "prepare"
    BY <1>17, <2>2 DEF Publish, stage
  <2>4. Len(resolved') = Len(resolved) + 1
    BY <2>2, <2>3, <1>0, OneMore
  <2>5. at' = "prepare"
    BY <2>1, <2>3, <2>4, <1>2
  <2>6. Ahead(b, k)'
    BY <2>1, <2>3, <2>4, <2>5, <1>1 DEF Ahead
  <2> QED BY <2>3, <2>6, <1>6, <1>7
<1>18. CASE Crash
  <2>1. UNCHANGED bares
    <3>1. CASE at = "origin" /\ downloads' = [downloads EXCEPT ![B] = [ref |-> Ref, kept |-> FALSE]]
      <4>1. B = b
        BY <3>1, <1>1 DEF Ahead
      <4>2. downloads'[b] = [ref |-> Ref, kept |-> FALSE]
        BY <3>1, <4>1, <1>0 DEF Types
      <4> QED BY <4>2
    <3> QED BY <1>18, <3>1 DEF Crash, CutShort
  <2>2. UNCHANGED <<selection, failure>> /\ at' = "stopped" /\ Len(resolved') = 0
    BY <1>18, EmptySeq DEF Crash, stage
  <2>3. Ahead(b, k)'
    BY <2>2, <1>1, <1>2 DEF Ahead
  <2> QED BY <2>1, <2>2, <2>3, <1>6, <1>7
<1>19. /\ ~Select /\ ~GiveUp /\ ~WriteReceipt /\ ~CreateTarget /\ ~Observe /\ ~Identify /\ ~Finalize
  BY <1>1 DEF Ahead, Select, GiveUp, WriteReceipt, CreateTarget, Observe, Identify, Finalize
<1>20. ~Disturb /\ ~Diagnose /\ ~Reopen
  BY <1>0, Undisturbing
<1> QED BY <1>8, <1>9, <1>10, <1>11, <1>12, <1>13, <1>14, <1>15, <1>16, <1>17, <1>18, <1>19, <1>20
        DEF Next, Controller

\* Only the repository at work is written, and it stays one.
LEMMA BaresAtWork ==
  ASSUME Inv, [Next]_vars, acts' = 0, NEW p \in Bares
  PROVE  bares'[p] = bares[p] \/ (at \in OnRole /\ p = B /\ bares'[p] \in Repository)
<1> USE DEF OnRole, Fetching, Fetched
<1>0. Types /\ Progress /\ bares \in [Bares -> {None, Damaged} \cup Repository]
  BY DEF Inv, Types
<1>1. at \in OnRole => /\ B \in Bares
                       /\ Served[Url][Ref] \in Commits \cup {None}
                       /\ Cached[Url][Ref] \in Commits \cup {None}
                       /\ local[Ref] \in Commits \cup {None}
                       /\ Ref \in Refs
  BY <1>0, AtRole, AcquisitionAssumption DEF Types
<1>2. at \in Fetching \cup Fetched => Bare \in Repository
  BY <1>0 DEF Progress
<1>3. ASSUME NEW bare \in Repository, at \in OnRole, bares' = [bares EXCEPT ![B] = bare]
      PROVE  bares'[p] = bares[p] \/ (p = B /\ bares'[p] \in Repository)
  BY <1>0, <1>3
<1>4. ASSUME NEW head \in Commits \cup {None}, at \in Fetching \cup Fetched,
             bares' = [bares EXCEPT ![B].head = head]
      PROVE  bares'[p] = bares[p] \/ (p = B /\ bares'[p] \in Repository)
  <2>1. [Bare EXCEPT !.head = head] \in Repository
    BY <1>2, <1>4 DEF Repository
  <2>2. bares' = [bares EXCEPT ![B] = [Bare EXCEPT !.head = head]]
    BY <1>4 DEF Bare
  <2> QED BY <2>1, <2>2, <1>3, <1>4
<1>5. CASE Prepare
  <2>1. bares' = [bares EXCEPT ![B] = IF bares[B] \in {None, Damaged} THEN Fresh ELSE bares[B]] /\ at = "prepare"
    BY <1>5 DEF Prepare
  <2>2. Fresh \in Repository
    BY DEF Fresh, Repository
  <2> QED BY <2>1, <2>2, <1>0
<1>6. CASE Seed
  <2>1. at = "fetch"
    BY <1>6 DEF Seed
  <2>2. CASE bares' = [bares EXCEPT ![B].head = Cached[Url][Ref], ![B].seeded = TRUE]
    <3>1. [Bare EXCEPT !.head = Cached[Url][Ref], !.seeded = TRUE] \in Repository
      BY <2>1, <1>1, <1>2 DEF Repository
    <3>2. bares' = [bares EXCEPT ![B] = [Bare EXCEPT !.head = Cached[Url][Ref], !.seeded = TRUE]]
      BY <2>1, <2>2, <1>0, <1>1 DEF Bare
    <3> QED BY <2>1, <3>1, <3>2, <1>3
  <2>3. CASE bares' = [bares EXCEPT ![B].head = None]
    BY <2>1, <2>3, <1>4
  <2> QED BY <1>6, <2>2, <2>3 DEF Seed
<1>7. CASE Download \/ DownloadFails
  BY <1>1, <1>4, <1>7 DEF Download, DownloadFails
<1>8. CASE Import
  BY <1>1, <1>4, <1>8 DEF Import
<1>9. CASE WriteReceipt
  <2>1. at = "receipt" /\ Bare.head \in Commits
    BY <1>9, <1>0 DEF WriteReceipt, Progress
  <2>2. [Bare EXCEPT !.imported = Bare.head] \in Repository /\ [Bare EXCEPT !.receipt = Ref] \in Repository
    BY <2>1, <1>1, <1>2 DEF Repository
  <2>3. \/ bares' = [bares EXCEPT ![B] = [Bare EXCEPT !.imported = Bare.head]]
        \/ bares' = [bares EXCEPT ![B] = [Bare EXCEPT !.receipt = Ref]]
    BY <1>9 DEF WriteReceipt, Bare
  <2> QED BY <2>1, <2>2, <2>3, <1>3
<1>10. CASE Crash
  <2>1. CASE at = "origin" /\ \E h \in {None, Served[Url][Ref]} : bares' = [bares EXCEPT ![B].head = h]
    BY <2>1, <1>1, <1>4
  <2> QED BY <1>10, <2>1 DEF Crash, CutShort
<1>11. ~Disturb
  BY <1>0, Undisturbing
<1> QED BY <1>5, <1>6, <1>7, <1>8, <1>9, <1>10, <1>11
        DEF Next, Controller, vars, workspace, Run, Select, GiveUp, Load, Reuse, ReuseImport, NotInLocal,
          CheckOut, Publish, CreateTarget, Observe, Identify, Finalize, Diagnose, Reopen

LEMMA NoneDamagedKept ==
  ASSUME Inv, [Next]_vars, acts' = 0, NoneDamaged
  PROVE  NoneDamaged'
BY BaresAtWork, DamagedAssumption DEF NoneDamaged

LEMMA UnrefutedKept ==
  ASSUME Inv, [Next]_vars, acts' = 0, Unrefuted
  PROVE  Unrefuted'
<1> USE DEF Unrefuted, OnRole, Fetching, Fetched
<1>0. Types /\ Progress
  BY DEF Inv
<1>1. CASE Run
  BY <1>1 DEF Run, Asked, stage
<1>2. CASE Select
  BY <1>2 DEF Select
<1>3. CASE Load
  <2>1. CASE Fail("other")
    BY <2>1 DEF Fail, Resumable
  <2>2. CASE ~Fail("other")
    <3>1. UNCHANGED <<selection, failure>> /\ at = "load" /\ \A r \in Roles : Fixed(selection[r])
      BY <1>3, <2>2 DEF Load, stage
    <3> QED BY <3>1 DEF Fixed
  <2> QED BY <2>1, <2>2
<1>4. CASE UNCHANGED <<selection, failure>> /\ at \in OnRole
  BY <1>4 DEF Fixed
<1>5. CASE UNCHANGED <<selection, failure, at>>
  BY <1>5 DEF Fixed
<1>6. CASE at' \notin OnRole \cup {"load"}
  BY <1>6
<1>7. \A kind \in Causes : Fail(kind) => at' \notin OnRole \cup {"load"}
  BY DEF Fail
<1>8. DownloadFails => \E kind \in Causes : Fail(kind)
  BY DEF DownloadFails, Causes
<1>9. CASE ((CheckOut \/ Publish) /\ ~Fail("other")) \/ (Import /\ ~Fail("transfer"))
  BY <1>4, <1>9 DEF CheckOut, Publish, Import, stage
<1>10. CASE Prepare \/ Reuse \/ ReuseImport \/ Seed \/ Download \/ WriteReceipt
  BY <1>4, <1>10 DEF Prepare, Reuse, ReuseImport, Seed, Download, WriteReceipt, stage
<1>11. CASE GiveUp \/ CreateTarget \/ Observe \/ ((Identify \/ Finalize) /\ ~Fail("other")) \/ Crash
  BY <1>6, <1>11 DEF GiveUp, CreateTarget, Observe, Identify, Finalize, Crash
<1>12. CASE UNCHANGED vars
  BY <1>5, <1>12 DEF vars, stage
<1>13. ~Disturb /\ ~Diagnose /\ ~Reopen
  BY <1>0, Undisturbing
<1> QED BY <1>1, <1>2, <1>3, <1>6, <1>7, <1>8, <1>9, <1>10, <1>11, <1>12, <1>13
        DEF Next, Controller, NotInLocal, Causes

LEMMA SettledKept ==
  ASSUME Inv, [Next]_vars, acts' = 0, Calm
  PROVE  \A i \in DOMAIN resolved' : Settled(i)'
<1>0. Types /\ Progress /\ NoneDamaged
  BY DEF Inv, Calm
<1>1. CASE Resting
  BY <1>1 DEF Resting
<1>2. ASSUME UNCHANGED selection, NEW i \in DOMAIN resolved
      PROVE  Settled(i)'
  <2>1. at \in OnRole \cup AfterRoles
    BY <1>2, <1>0 DEF Progress
  <2>2. selection \in Selections
    BY <2>1, <1>0 DEF Progress, OnRole, AfterRoles, Fetching, Fetched, Steps
  <2>3. i \in DOMAIN Order
    BY <2>1, <1>0, AtRole, Acquiring, Orders DEF Progress
  <2> DEFINE p == <<Order[i], selection[Order[i]].url>>
  <2>4. p \in Bares
    BY <2>2, <2>3, Orders DEF Selections, Bares
  <2>5. at \in OnRole => p # B
    BY <1>0, AtRole
  <2> HIDE DEF p
  <2>6. bares'[p] = bares[p]
    BY <2>4, <2>5, BaresAtWork
  <2> QED BY <2>2, <2>3, <2>6, <1>0, <1>2, SettledStays DEF p, Calm
<1>3. CASE UNCHANGED <<resolved, selection>>
  BY <1>2, <1>3
<1>4. CASE Publish /\ ~Fail("other")
  <2>1. /\ UNCHANGED <<selection, bares, checkouts>> /\ at = "publish"
        /\ resolved' = Append(resolved, Bare.head) /\ checkouts[Checkout] = "whole"
    BY <1>4 DEF Publish, stage
  <2>2. DOMAIN resolved' = DOMAIN resolved \cup {Len(resolved) + 1}
    BY <2>1, <1>0, OneMore DEF Progress, Fetched
  <2>3. Bare \in Repository /\ Bare.head \in Commits
    BY <2>1, <1>0 DEF Progress, Fetched
  <2>4. IF Role \in LocalRoles THEN Bare.imported = Bare.head /\ local[Ref] = Bare.head
                               ELSE Bare.receipt = Ref
    BY <2>1 DEF Calm, AtHand
  <2>5. Settled(Len(resolved) + 1)
    BY <2>1, <2>3, <2>4 DEF Settled, Bare, B, Role, Url, Ref, Checkout
  <2>6. UNCHANGED local
    BY <1>0, Undisturbing
  <2>7. ASSUME NEW i, i = Len(resolved) + 1
        PROVE  Settled(i)'
    <3>1. Settled(i)
      BY <2>5, <2>7
    <3> QED BY <2>1, <2>6, <3>1 DEF Settled
  <2> QED BY <1>2, <2>1, <2>2, <2>7
<1> QED BY <1>1, <1>3, <1>4, Advances

LEMMA AtHandKept ==
  ASSUME Inv, [Next]_vars, acts' = 0, Calm
  PROVE  AtHand'
<1> USE DEF OnRole, Fetching, Fetched
<1>0. /\ Types /\ Progress /\ AtHand /\ bares \in [Bares -> {None, Damaged} \cup Repository]
      /\ downloads \in [Bares -> [ref : Refs \cup {None}, kept : BOOLEAN]]
  BY DEF Inv, Types, Calm
<1>1. at \in OnRole => B \in Bares /\ B[1] = Role
  BY <1>0, AtRole
<1>2. UNCHANGED local
  BY <1>0, Undisturbing
<1>3. ASSUME UNCHANGED <<resolved, selection>>
      PROVE  Role' = Role /\ Ref' = Ref /\ B' = B /\ Bare' = bares'[B]
  BY <1>3, RoleStays DEF Bare
<1>4. at \in Fetching \cup Fetched => Bare \in Repository
  BY <1>0 DEF Progress
<1>5. CASE Reuse \/ ReuseImport
  <2>1. UNCHANGED <<resolved, selection, bares>> /\ at = "fetch" /\ at' = "checkout"
    BY <1>5 DEF Reuse, ReuseImport, workspace, stage
  <2>2. IF Role \in LocalRoles THEN Bare.imported = Bare.head /\ local[Ref] = Bare.head
                               ELSE Bare.receipt = Ref
    BY <1>5 DEF Reuse, Received, ReuseImport
  <2>3. Bare' = Bare
    BY <2>1, <1>3 DEF Bare
  <2> QED BY <2>1, <2>2, <2>3, <1>2, <1>3 DEF AtHand
<1>6. CASE Seed
  <2>1. /\ UNCHANGED <<resolved, selection, downloads>> /\ at = "fetch" /\ at' = "origin"
        /\ ~Received /\ B \in Bares /\ B[1] = Role /\ Role \notin LocalRoles
    BY <1>1, <1>6 DEF Seed, stage
  <2> SUFFICES ASSUME downloads[B].kept PROVE bares'[B].receipt # Ref
    BY <2>1, <1>3 DEF AtHand
  <2>2. Lasting(B)
    BY <2>1 DEF Calm
  <2>3. Bare.receipt # Ref
    <3>1. CASE Bare.head # None
      BY <3>1, <2>1 DEF Received
    <3>2. CASE Bare.head = None
      <4>1. Interrupted(B) /\ Bare.receipt = downloads[B].ref
        BY <3>2, <2>2 DEF Lasting, Bare
      <4>2. PICK k \in DOMAIN Order : Awaited(B, k) /\ Len(resolved) < k
        BY <4>1 DEF Interrupted, Ahead
      <4>3. Ref # downloads[B].ref
        BY <2>1, <4>2, RolesBefore
      <4> QED BY <4>1, <4>3
    <3> QED BY <3>1, <3>2
  <2>4. bares'[B].receipt = Bare.receipt
    <3>1. at # "origin"
      BY <2>1
    <3> QED BY <2>1, <3>1, KeptMoves DEF Bare
  <2> QED BY <2>3, <2>4
<1>7. CASE Download
  <2>1. /\ UNCHANGED <<resolved, selection>> /\ at = "origin" /\ at' = "receipt" /\ Role \notin LocalRoles
        /\ downloads' = [downloads EXCEPT ![B] = [ref |-> Ref, kept |-> FALSE]]
    BY <1>7, <1>0 DEF Download, stage, Progress
  <2>2. downloads'[B] = [ref |-> Ref, kept |-> FALSE]
    BY <2>1, <1>0, <1>1
  <2> QED BY <2>1, <2>2, <1>3 DEF AtHand
<1>8. CASE Import /\ ~Fail("transfer")
  <2>1. /\ UNCHANGED <<resolved, selection>> /\ at = "fetch" /\ at' = "receipt" /\ Role \in LocalRoles
        /\ bares' = [bares EXCEPT ![B] = [Bare EXCEPT !.head = local[Ref]]]
    BY <1>8 DEF Import, stage, Bare
  <2>2. [Bare EXCEPT !.head = local[Ref]].head = local[Ref]
    BY <2>1, <1>4 DEF Repository
  <2>3. Bare'.head = local[Ref]
    BY <2>1, <2>2, <1>0, <1>1, <1>3
  <2> QED BY <2>1, <2>3, <1>2, <1>3 DEF AtHand
<1>9. CASE WriteReceipt
  <2>1. UNCHANGED <<resolved, selection>> /\ at = "receipt" /\ at' = "checkout"
    BY <1>9 DEF WriteReceipt, stage
  <2>2. CASE Role \in LocalRoles
    <3>1. bares' = [bares EXCEPT ![B] = [Bare EXCEPT !.imported = Bare.head]] /\ Bare.head = local[Ref]
      BY <1>9, <2>1, <2>2, <1>0 DEF WriteReceipt, Bare, AtHand
    <3>2. /\ [Bare EXCEPT !.imported = Bare.head].imported = Bare.head
          /\ [Bare EXCEPT !.imported = Bare.head].head = Bare.head
      BY <2>1, <1>4 DEF Repository
    <3>3. Bare'.imported = Bare.head /\ Bare'.head = Bare.head
      BY <2>1, <3>1, <3>2, <1>0, <1>1, <1>3
    <3> QED BY <2>1, <2>2, <3>1, <3>3, <1>2, <1>3 DEF AtHand
  <2>3. CASE Role \notin LocalRoles
    <3>1. bares' = [bares EXCEPT ![B] = [Bare EXCEPT !.receipt = Ref]]
      BY <1>9, <2>3 DEF WriteReceipt, Bare
    <3>2. [Bare EXCEPT !.receipt = Ref].receipt = Ref
      BY <2>1, <1>4 DEF Repository
    <3>3. Bare'.receipt = Ref
      BY <2>1, <3>1, <3>2, <1>0, <1>1, <1>3
    <3> QED BY <2>1, <2>3, <3>3, <1>3 DEF AtHand
  <2> QED BY <2>2, <2>3
<1>10. CASE CheckOut /\ ~Fail("other")
  <2>1. UNCHANGED <<resolved, selection, bares>> /\ at = "checkout" /\ at' = "publish"
    BY <1>10 DEF CheckOut, stage
  <2>2. Bare' = Bare
    BY <2>1, <1>3 DEF Bare
  <2> QED BY <2>1, <2>2, <1>0, <1>2, <1>3 DEF AtHand
<1>11. CASE UNCHANGED vars
  <2>1. UNCHANGED <<resolved, selection, bares, downloads, at>>
    BY <1>11 DEF vars, stage, workspace
  <2>2. Bare' = Bare
    BY <2>1, <1>3 DEF Bare
  <2> QED BY <2>1, <2>2, <1>0, <1>2, <1>3 DEF AtHand
<1>12. CASE at' \notin {"origin", "receipt", "checkout", "publish"}
  BY <1>12 DEF AtHand
<1>13. \A kind \in Causes : Fail(kind) => at' \notin {"origin", "receipt", "checkout", "publish"}
  BY DEF Fail
<1>14. DownloadFails => \E kind \in Causes : Fail(kind)
  BY DEF DownloadFails, Causes
<1>15. CASE Publish /\ ~Fail("other")
  BY <1>12, <1>15 DEF Publish
<1>16. CASE Run \/ Select \/ GiveUp \/ Load \/ Prepare
  <2>1. ~(Select /\ at' = "worker") => at' \notin {"origin", "receipt", "checkout", "publish"}
    BY <1>16 DEF Run, Select, GiveUp, Load, Prepare, Fail
  <2> QED BY <1>12, <2>1
<1>17. CASE CreateTarget \/ Observe \/ ((Identify \/ Finalize) /\ ~Fail("other")) \/ Crash
  BY <1>12, <1>17 DEF CreateTarget, Observe, Identify, Finalize, Crash
<1>18. ~Disturb /\ ~Diagnose /\ ~Reopen
  BY <1>0, Undisturbing
<1> QED BY <1>5, <1>6, <1>7, <1>8, <1>9, <1>10, <1>11, <1>12, <1>13, <1>14, <1>15, <1>16, <1>17, <1>18
        DEF Next, Controller, NotInLocal, Causes

LEMMA LastingKept ==
  ASSUME Inv, [Next]_vars, acts' = 0, Calm, NEW b \in Bares, b[1] \notin LocalRoles
  PROVE  Lasting(b)'
<1> USE DEF OnRole, Fetching, Fetched
<1>0. /\ Types /\ Progress /\ bares \in [Bares -> {None, Damaged} \cup Repository]
      /\ downloads \in [Bares -> [ref : Refs \cup {None}, kept : BOOLEAN]]
  BY DEF Inv, Types
<1>1. at \in OnRole => B \in Bares /\ B[1] = Role
  BY <1>0, AtRole
<1> SUFFICES ASSUME downloads'[b].kept
             PROVE  /\ bares'[b] \in Repository /\ bares'[b].receipt = downloads'[b].ref
                    /\ bares'[b].head = None => Interrupted(b)'
  BY DEF Lasting
<1>2. CASE downloads[b].kept
  <2>1. Lasting(b)
    BY DEF Calm
  <2>2. /\ downloads'[b] = downloads[b]
        /\ bares'[b] \in Repository /\ bares'[b].receipt = bares[b].receipt
        /\ bares'[b].head = bares[b].head \/ (Seed /\ b = B)
    BY <1>2, KeptMoves
  <2>3. CASE bares[b].head = None
    BY <1>2, <2>1, <2>2, <2>3, InterruptedStays DEF Lasting
  <2>4. CASE bares[b].head # None /\ Seed /\ b = B
    <3>1. /\ at = "fetch" /\ at' = "origin" /\ UNCHANGED <<selection, resolved, failure>>
          /\ B' = b
      BY <2>4, RoleStays DEF Seed, stage
    <3>k. PICK k : k = Len(resolved) + 1
      OBVIOUS
    <3>2. /\ k \in DOMAIN Order /\ k \in 1 .. Len(Order) /\ Order[k] = b[1] /\ Len(resolved) \in Nat
          /\ selection \in Selections /\ selection[b[1]].url = b[2]
      BY <2>4, <3>1, <3>k, <1>0, AtRole, Acquiring, Orders DEF Role, Url
    <3>3. selection[b[1]].ref # downloads[b].ref
      <4>1. Bare.receipt # Ref
        BY <2>4, <3>1 DEF Seed, Received, Bare
      <4>2. Ref = selection[b[1]].ref
        BY <2>4, <3>1, <1>1 DEF Ref
      <4> QED BY <4>1, <4>2, <1>2, <2>1, <2>4 DEF Lasting, Bare
    <3>4. \A r \in Roles : Fixed(selection[r])
      BY <3>1 DEF Calm, Unrefuted
    <3>5. failure \in {None, "transfer"}
      BY <3>1 DEF Calm, Unrefuted
    <3>6. \A i \in 1 .. k - 1 : i \in DOMAIN resolved
      BY <3>2, <3>k, <1>0, Acquiring
    <3>7. \A i \in 1 .. k - 1 : Settled(i)
      BY <3>6 DEF Calm
    <3>8. Awaited(b, k)
      BY <3>2, <3>3, <3>4, <3>7 DEF Awaited
    <3>9. k \in Nat /\ Len(resolved) < k
      BY <3>2, <3>k
    <3>10. ASSUME NEW i \in 1 .. k - 1
           PROVE  LET p == <<Order[i], selection[Order[i]].url>> IN bares'[p] = bares[p]
      <4>1. i \in DOMAIN resolved
        BY <3>6
      <4>2. i \in DOMAIN Order /\ Order[i] # Role
        BY <4>1, <3>1, <1>0, AtRole
      <4>3. Order[i] \in Roles /\ selection[Order[i]].url \in Urls
        BY <3>2, <4>2, Orders DEF Selections
      <4> QED BY <4>2, <4>3, <3>1, <1>1, BaresAtWork DEF Bares
    <3>11. NoneDamaged
      BY DEF Calm
    <3>12. Awaited(b, k)'
      BY <3>1, <3>2, <3>8, <3>10, <3>11, <2>2, AwaitedStays
    <3>13. Ahead(b, k)'
      BY <3>1, <3>5, <3>9 DEF Ahead
    <3> QED BY <2>1, <2>2, <1>2, <3>2, <3>12, <3>13 DEF Interrupted, Lasting
  <2> QED BY <1>2, <2>1, <2>2, <2>3, <2>4 DEF Lasting
<1>3. CASE ~downloads[b].kept
  <2>1. WriteReceipt /\ Role \notin LocalRoles /\ b = B
    <3>1. CASE UNCHANGED downloads
      BY <3>1, <1>3
    <3>2. CASE at \in OnRole /\ downloads' = [downloads EXCEPT ![B] = [ref |-> Ref, kept |-> FALSE]]
      BY <3>2, <1>0, <1>1, <1>3
    <3>3. CASE WriteReceipt
      BY <3>3, <1>0, <1>1, <1>3 DEF WriteReceipt
    <3>4. ~Disturb
      BY <1>0, Undisturbing
    <3>5. \/ UNCHANGED downloads \/ WriteReceipt
          \/ at \in OnRole /\ downloads' = [downloads EXCEPT ![B] = [ref |-> Ref, kept |-> FALSE]]
      BY <3>4 DEF Next, Controller, vars, workspace, Run, Select, GiveUp, Load, Prepare, Reuse, Seed,
        Download, DownloadFails, ReuseImport, Import, NotInLocal, CheckOut, Publish, CreateTarget,
        Observe, Identify, Finalize, Crash, CutShort, Diagnose, Reopen
    <3> QED BY <3>1, <3>2, <3>3, <3>5
  <2>2. at = "receipt" /\ Bare \in Repository /\ Bare.head \in Commits /\ Ref \in Refs /\ B \in Bares
    BY <2>1, <1>0, AtRole DEF WriteReceipt, Progress
  <2>3. downloads[B] = [ref |-> Ref, kept |-> FALSE]
    BY <2>1, <2>2 DEF Calm, AtHand
  <2>4. /\ bares' = [bares EXCEPT ![B] = [Bare EXCEPT !.receipt = Ref]]
        /\ downloads' = [downloads EXCEPT ![B].kept = TRUE]
    BY <2>1 DEF WriteReceipt, Bare
  <2>5. downloads'[b].ref = Ref
    BY <2>1, <2>2, <2>3, <2>4, <1>0
  <2>6. /\ [Bare EXCEPT !.receipt = Ref] \in Repository
        /\ [Bare EXCEPT !.receipt = Ref].receipt = Ref
        /\ [Bare EXCEPT !.receipt = Ref].head = Bare.head
    BY <2>2 DEF Repository
  <2>7. bares'[b] = [Bare EXCEPT !.receipt = Ref]
    BY <2>1, <2>2, <2>4, <1>0
  <2> QED BY <2>2, <2>5, <2>6, <2>7, AcquisitionAssumption
<1> QED BY <1>2, <1>3

LEMMA CalmKept ==
  ASSUME Inv, [Next]_vars, acts' = 0, Calm
  PROVE  Calm'
<1>1. NoneDamaged /\ Unrefuted
  BY DEF Calm
<1>2. NoneDamaged'
  BY <1>1, NoneDamagedKept
<1>3. Unrefuted'
  BY <1>1, UnrefutedKept
<1>4. (\A i \in DOMAIN resolved : Settled(i))'
  BY SettledKept
<1>5. AtHand'
  BY AtHandKept
<1>6. (\A b \in Bares : b[1] \notin LocalRoles => Lasting(b))'
  BY LastingKept
<1> QED BY <1>2, <1>3, <1>4, <1>5, <1>6 DEF Calm

-----------------------------------------------------------------------------
(* The theorems.                                                           *)

LEMMA InvIsKept == Inv /\ [Next]_vars => Inv'
<1> SUFFICES ASSUME Inv, [Next]_vars PROVE Inv'
  OBVIOUS
<1>1. Types'
  BY TypesKept
<1>2. Progress' /\ Acquired' /\ TreesRest' /\ Pinned' /\ Cause'
  BY <1>1, ProgressKept, AcquiredKept, TreesRestKept, PinnedKept, CauseKept
<1>3. LockedIsWhole' /\ PublicRevision'
  BY LockedKept, PublicRevisionKept
<1> QED BY <1>1, <1>2, <1>3 DEF Inv

LEMMA InvAlways == Spec => []Inv
<1>1. Init => Inv
  BY InitialState
<1>2. Inv /\ [Next]_vars => Inv'
  BY InvIsKept
<1> QED BY <1>1, <1>2, PTL DEF Spec

LEMMA UndisturbedAlways == Spec => [](Inv /\ Undisturbed)
<1>1. Init => Inv /\ Undisturbed
  BY InitialState, InitiallyUndisturbed
<1>2. Inv /\ Undisturbed /\ [Next]_vars => Inv' /\ Undisturbed'
  <2> SUFFICES ASSUME Inv, Undisturbed, [Next]_vars PROVE Inv' /\ Undisturbed'
    OBVIOUS
  <2>1. Inv'
    BY InvIsKept
  <2>2. ASSUME acts' = 0 PROVE Calm'
    <3>1. acts = 0
      BY <2>2, Undisturbing DEF Inv
    <3> QED BY <2>2, <3>1, CalmKept DEF Undisturbed
  <2> QED BY <2>1, <2>2 DEF Undisturbed
<1> QED BY <1>1, <1>2, PTL DEF Spec

LEMMA InvHasTypes == Inv => TypeOK
<1> SUFFICES ASSUME Inv PROVE TypeOK
  OBVIOUS
<1>1. Types /\ Progress
  BY DEF Inv
<1>2. Len(resolved) <= Len(Order)
  <2>1. Len(resolved) \in Nat /\ Len(Order) \in Nat
    BY <1>1, Acquiring, Orders
  <2>2. CASE at \in OnRole \cup AfterRoles
    BY <2>1, <2>2, <1>1 DEF Progress
  <2>3. CASE at \notin OnRole \cup AfterRoles
    <3>1. Len(resolved) = 0
      BY <2>3, <1>1, EmptySeq DEF Progress
    <3> QED BY <2>1, <3>1
  <2> QED BY <2>2, <2>3
<1>3. resolved # <<>> => at \in Steps \ {"load"}
  BY <1>1 DEF Progress, OnRole, AfterRoles, Fetching, Fetched, Steps
<1> QED BY <1>1, <1>2, <1>3 DEF Types, TypeOK, States

\* The tables, the manifest and what the controller goes by are what they are
\* taken for: no tree is observed that is not there, or whose repository is gone.
THEOREM TypeCorrect == Spec => []TypeOK
BY InvAlways, InvHasTypes, PTL

\* No partial checkout is locked or accepted, with any number of crashes.
THEOREM LockedAlwaysWhole == Spec => []LockedIsWhole
<1>1. Inv => LockedIsWhole
  BY DEF Inv
<1> QED BY <1>1, InvAlways, PTL

\* Without a crash the commits accepted are those the origins have for the refs
\* selected, whatever the supplied baselines have and whatever failed before.
THEOREM RevisionAlwaysPublic == Spec => []PublicRevision
<1>1. Inv => PublicRevision
  BY DEF Inv
<1> QED BY <1>1, InvAlways, PTL

\* A turn is paid for only for an error of the selection, or for the operator.
THEOREM AlwaysPaidForCause == Spec => PaidForCause
<1>1. ASSUME Inv, [Next]_vars, turns' # turns
      PROVE  /\ failure # "transfer"
             /\ failure = "refused" =>
                  \E r \in Roles \ LocalRoles :
                    LET s == selection[r] IN Served[s.url][s.ref] = None \/ s.ref \in FullCommits
  <2>1. Select \/ GiveUp
    BY <1>1 DEF Next, Controller, vars, bounds, Run, Load, Prepare, Reuse, Seed, Download, DownloadFails,
      ReuseImport, Import, NotInLocal, WriteReceipt, CheckOut, Publish, CreateTarget, Observe, Identify,
      Finalize, Diagnose, Crash, Disturb, Reopen
  <2>2. at = "worker"
    BY <2>1 DEF Select, GiveUp
  <2> QED BY <1>1, <2>2 DEF Inv, Cause
<1>2. Inv /\ [Next]_vars =>
        [turns' # turns =>
           /\ failure # "transfer"
           /\ failure = "refused" =>
                \E r \in Roles \ LocalRoles :
                  LET s == selection[r] IN Served[s.url][s.ref] = None \/ s.ref \in FullCommits]_vars
  BY <1>1
<1> QED BY <1>2, InvAlways, PTL DEF Spec, PaidForCause

\* What has been downloaded is downloaded again only after another ref was, or
\* after someone spoiled the repository.
THEOREM DownloadAlwaysKept == Spec => DownloadKept
<1>1. ASSUME Inv, Undisturbed, [Next]_vars, NEW b \in Bares,
             downloads'[b] # downloads[b], downloads[b].kept, acts = 0
      PROVE  downloads'[b].ref # downloads[b].ref
  <2>1. Calm /\ Types /\ Progress
    BY <1>1 DEF Undisturbed, Inv
  <2>2. ~WriteReceipt
    <3> SUFFICES ASSUME WriteReceipt PROVE FALSE
      OBVIOUS
    <3>1. at = "receipt" /\ Role \notin LocalRoles /\ downloads' = [downloads EXCEPT ![B].kept = TRUE]
      BY <1>1 DEF WriteReceipt
    <3>2. downloads[B] = [ref |-> Ref, kept |-> FALSE] /\ B \in Bares
      BY <2>1, <3>1, AtRole DEF Calm, AtHand, OnRole, Fetched
    <3> QED BY <1>1, <2>1, <3>1, <3>2 DEF Types
  <2>3. at = "origin" /\ downloads' = [downloads EXCEPT ![B] = [ref |-> Ref, kept |-> FALSE]]
    BY <1>1, <2>2 DEF Next, Controller, vars, workspace, Run, Select, GiveUp, Load, Prepare, Reuse, Seed,
      Download, DownloadFails, ReuseImport, Import, NotInLocal, CheckOut, Publish, CreateTarget,
      Observe, Identify, Finalize, Crash, CutShort, Diagnose, Reopen, Disturb
  <2>4. B \in Bares /\ B[1] = Role /\ Role \notin LocalRoles
    BY <2>1, <2>3, AtRole DEF OnRole, Fetching, Progress
  <2>5. b = B /\ downloads'[b].ref = Ref
    BY <1>1, <2>1, <2>3, <2>4 DEF Types
  <2>6. Lasting(b) /\ Bare.receipt # Ref
    BY <1>1, <2>1, <2>3, <2>4, <2>5 DEF Calm, AtHand
  <2> QED BY <1>1, <2>5, <2>6 DEF Lasting, Bare
<1>2. Inv /\ Undisturbed /\ [Next]_vars =>
        [\A b \in Bares :
           downloads'[b] # downloads[b] /\ downloads[b].kept =>
             downloads'[b].ref # downloads[b].ref \/ acts > 0]_vars
  <2> SUFFICES ASSUME Inv, Undisturbed, [Next]_vars, NEW b \in Bares,
                      downloads'[b] # downloads[b], downloads[b].kept, ~(acts > 0)
               PROVE  downloads'[b].ref # downloads[b].ref
    OBVIOUS
  <2>1. acts = 0
    BY DEF Inv, Types
  <2> QED BY <1>1, <2>1
<1> QED BY <1>2, UndisturbedAlways, PTL DEF Spec, DownloadKept
=============================================================================
