----------------------- MODULE RepositoryAcquisition -----------------------
(***************************************************************************)
(* The stage repository_acquisition: the worker selects a repository and a *)
(* revision for each role, and the controller downloads, checks out, locks *)
(* and accepts them (acquisition/repository.py, baseline.py,               *)
(* repository_storage.py, target_worktree.py, git_execution.py,            *)
(* repository_validation.py, revision_proposal.py, port.py).               *)
(*                                                                         *)
(* A step is one Git command or one durable write, so that the controller  *)
(* can crash, and others can touch the workspace, between any two.  A bare *)
(* repository is known by its role and URL, a checkout by its commit too;  *)
(* no attempt removes what an earlier one left.  A crash leaves a Git      *)
(* command undone, done, or done in part.                                  *)
(*                                                                         *)
(* Command records are reduced to the receipts kept for later attempts.    *)
(* The recovery protocol (RecoveryController) is that of developer-        *)
(* evidence, reduced to: what fails for another reason than a transfer is  *)
(* put to the worker, who selects again.  It cannot let a bundle pass with *)
(* its findings: the report that says so is taken for its selection.  The  *)
(* branch of the writable tree, named by its base commit, is left out.     *)
(***************************************************************************)
EXTENDS Naturals, Sequences

CONSTANTS
  Order,       \* the roles, in the order they are acquired
  Urls, Refs, Commits,
  None,        \* no such thing
  Floating,    \* refs that are neither a release tag nor a full commit
  FullCommits, \* refs that are full commits
  Served,      \* Served[u][r]: the commit origin u has for ref r
  Cached,      \* Cached[u][r]: the commit a supplied baseline of u has for r
  LocalRoles,  \* roles with a repository of the user's own
  Owned,       \* Owned[r]: what ref r names there at first
  Portable,    \* commits with the source entry of the envelope
  MaxTurns,    \* bound: turns of the worker
  MaxFaults,   \* bound: fetches and imports that fail though the ref is there
  MaxCrashes,  \* bound: crashes of the controller
  MaxActs      \* bound: acts of the operator and of processes left behind

Roles == {Order[i] : i \in DOMAIN Order}

Selections == [Roles -> [url : Urls, ref : Refs]]

\* FETCH_HEAD and the receipts of a bare repository.
Repository == [head : Commits \cup {None}, receipt : Refs \cup {None},
               seeded : BOOLEAN, imported : Commits \cup {None}]

Causes == {"transfer", "refused", "other", "operator"}

ASSUME AcquisitionAssumption ==
  /\ Order \in Seq({"source", "target", "qemu"})
  /\ {"source", "target"} \subseteq Roles
  /\ \A i, j \in DOMAIN Order : Order[i] = Order[j] => i = j
  /\ None \notin Commits \cup Refs \cup Causes
  /\ None \notin Selections /\ None \notin Repository
  /\ Floating \subseteq Refs /\ FullCommits \subseteq Refs \ Floating
  /\ Served \in [Urls -> [Refs -> Commits \cup {None}]]
  /\ Cached \in [Urls -> [Refs -> Commits \cup {None}]]
  /\ LocalRoles \subseteq Roles
  /\ Owned \in [Refs -> Commits \cup {None}]
  /\ Portable \subseteq Commits

VARIABLES
  status,     \* the stage row
  selection,  \* the latest selection of the attempt: a URL and a ref for each role
  failure,    \* how the latest acquisition of this selection failed
  local,      \* local[r]: what r names in the user's own repositories
  bares,      \* the managed bare repositories
  checkouts,  \* state of the frozen checkout of a role, URL and commit
  trees,      \* state of the writable tree of a URL and commit
  locks,      \* the repository locks published
  accepted,   \* the manifest
  at,         \* what the controller does
  resolved,   \* the commits of the roles acquired so far
  seen,       \* what was observed of the writable tree
  downloads,  \* the latest download of each bare repository
  turns, faults, crashes, acts

workspace == <<local, bares, checkouts, trees, locks, downloads>>
stage == <<status, selection, failure, accepted>>
bounds == <<turns, faults, crashes, acts>>
vars == <<stage, workspace, at, resolved, seen, bounds>>

-----------------------------------------------------------------------------
(* Places.                                                                 *)

Bares == Roles \X Urls

Checkouts == Roles \X Urls \X Commits

Trees == Urls \X Commits

\* A repository just initialised: no FETCH_HEAD and no receipts.
Fresh == [head |-> None, receipt |-> None, seeded |-> FALSE, imported |-> None]

\* Someone pointed its origin elsewhere, or it is no repository any more.
Damaged == [Fresh EXCEPT !.receipt = "damaged"]

\* Which is told from a usable one.
ASSUME DamagedAssumption == Damaged \notin Repository \cup {None}

Role == Order[Len(resolved) + 1]

Url == selection[Role].url

Ref == selection[Role].ref

B == <<Role, Url>>

Bare == bares[B]

Checkout == <<Role, Url, Bare.head>>

CommitOf(r) == resolved[CHOOSE i \in DOMAIN Order : Order[i] = r]

CheckoutOf(r) == <<r, selection[r].url, CommitOf(r)>>

Tree == <<selection["target"].url, CommitOf("target")>>

Steps == {"load", "prepare", "fetch", "origin", "receipt", "checkout", "publish",
          "target", "observe", "identify", "finalize"}

-----------------------------------------------------------------------------
(* The port controller and its worker.                                     *)

\* Errors that are not put to the worker.
Resumable(kind) == kind = "transfer"

\* Mutant: any failed acquisition is put to the worker.
FailToWorker(kind) ==
  /\ failure' = kind
  /\ at' = "worker"
  /\ resolved' = <<>>
  /\ seen' = None
  /\ UNCHANGED <<status, selection, accepted>>

\* Mutant: the next attempt goes on after the roles this one acquired.
FailResuming(kind) ==
  /\ failure' = kind
  /\ at' = IF Resumable(kind) THEN "stopped" ELSE "worker"
  /\ UNCHANGED <<status, selection, accepted, resolved, seen>>

\* The attempt is recorded.  A failed transfer ends the run with the selection
\* as it stands; of any other error the worker is told, for it to select again.
Fail(kind) ==
  /\ failure' = kind
  /\ at' = IF Resumable(kind) THEN "stopped" ELSE "worker"
  /\ resolved' = <<>>
  /\ seen' = None
  /\ UNCHANGED <<status, selection, accepted>>

\* A decision awaits the worker.
Asked == failure \notin {None, "transfer"}

\* `port run`: the answer the worker owes, or the selection it has made.
Run ==
  /\ at = "stopped"
  /\ status \in {"READY", "RUNNING"}
  /\ at' = IF selection = None \/ Asked THEN "worker" ELSE "load"
  /\ UNCHANGED <<stage, workspace, resolved, seen, bounds>>

\* A turn, and the import of its result, which may be no selection at all.
Select ==
  /\ at = "worker"
  /\ turns < MaxTurns
  /\ turns' = turns + 1
  /\ status' = "RUNNING"
  /\ \/ selection' \in Selections /\ failure' = None /\ at' = "load"
     \/ failure' = "other" /\ UNCHANGED <<selection, at>>
  /\ UNCHANGED <<workspace, accepted, resolved, seen, faults, crashes, acts>>

\* Or a report of the worker that says it is blocked.
GiveUp ==
  /\ at = "worker"
  /\ turns < MaxTurns
  /\ turns' = turns + 1
  /\ status' = "BLOCKED"
  /\ failure' = None
  /\ at' = "stopped"
  /\ UNCHANGED <<selection, accepted, workspace, resolved, seen, faults, crashes, acts>>

\* RepositoryCandidate: a release tag or a full commit.
Fixed(candidate) == candidate.ref \notin Floating

\* The proposal is read back, and only now are its refs looked at.
Load ==
  /\ at = "load"
  /\ IF \E r \in Roles : ~Fixed(selection[r])
     THEN Fail("other")
     ELSE at' = "prepare" /\ UNCHANGED <<stage, resolved, seen>>
  /\ UNCHANGED <<workspace, bounds>>

-----------------------------------------------------------------------------
(* One role after the other.                                               *)

\* Checkouts lose their repository when it is moved away.
Unlinked(states, gone) ==
  [p \in DOMAIN states |-> IF p \in gone /\ states[p] # "absent" THEN "broken" ELSE states[p]]

\* A repository that is not what its name says is moved into quarantine; a new
\* one is made elsewhere and renamed.
Prepare ==
  /\ at = "prepare"
  /\ bares' = [bares EXCEPT ![B] = IF @ \in {None, Damaged} THEN Fresh ELSE @]
  /\ IF Bare = Damaged
     THEN /\ checkouts' = Unlinked(checkouts, {B[1]} \X {B[2]} \X Commits)
          /\ trees' = Unlinked(trees, {p \in Trees : <<"target", p[1]>> = B})
     ELSE UNCHANGED <<checkouts, trees>>
  /\ at' = "fetch"
  /\ UNCHANGED <<stage, local, locks, downloads, resolved, seen, bounds>>

\* Mutant: receipts are not looked at.
NeverReceived == FALSE

\* The download of this ref has its receipt and there is a FETCH_HEAD; of
\* what, is not asked.
Received == Bare.receipt = Ref /\ Bare.head # None

Reuse ==
  /\ at = "fetch"
  /\ Role \notin LocalRoles
  /\ Received
  /\ at' = "checkout"
  /\ UNCHANGED <<stage, workspace, resolved, seen, bounds>>

\* Once in the life of a repository a supplied baseline spares the transfer of
\* the objects it has; an import that fails is no matter.
Seed ==
  /\ at = "fetch"
  /\ Role \notin LocalRoles
  /\ ~Received
  /\ at' = "origin"
  /\ IF Bare.seeded \/ Cached[Url][Ref] = None
     THEN UNCHANGED <<bares, faults>>
     ELSE \/ /\ bares' = [bares EXCEPT ![B].head = Cached[Url][Ref], ![B].seeded = TRUE]
             /\ UNCHANGED faults
          \/ /\ faults < MaxFaults
             /\ faults' = faults + 1
             /\ bares' = [bares EXCEPT ![B].head = None]
  /\ UNCHANGED <<stage, local, checkouts, trees, locks, downloads, resolved, seen,
                 turns, crashes, acts>>

\* Mutant: a supplied baseline that has the ref is enough.
DownloadOrSeed ==
  LET found == IF Bare.seeded /\ Bare.head # None THEN Bare.head ELSE Served[Url][Ref]
  IN  /\ at = "origin"
      /\ found # None
      /\ bares' = [bares EXCEPT ![B].head = found]
      /\ downloads' = [downloads EXCEPT ![B] = [ref |-> Ref, kept |-> FALSE]]
      /\ at' = "receipt"
      /\ UNCHANGED <<stage, local, checkouts, trees, locks, resolved, seen, bounds>>

Download ==
  /\ at = "origin"
  /\ Served[Url][Ref] # None
  /\ bares' = [bares EXCEPT ![B].head = Served[Url][Ref]]
  /\ downloads' = [downloads EXCEPT ![B] = [ref |-> Ref, kept |-> FALSE]]
  /\ at' = "receipt"
  /\ UNCHANGED <<stage, local, checkouts, trees, locks, resolved, seen, bounds>>

\* What a look at the origin's refs says of a download that failed: the ref is
\* missing, or the ref is a commit, of which refs say nothing.
Refused(reachable) == reachable /\ (Served[Url][Ref] = None \/ Ref \in FullCommits)

\* A download that fails has emptied FETCH_HEAD first.
DownloadFails ==
  /\ at = "origin"
  /\ bares' = [bares EXCEPT ![B].head = None]
  /\ downloads' = [downloads EXCEPT ![B] = [ref |-> Ref, kept |-> FALSE]]
  /\ \E reachable \in BOOLEAN :
       /\ Fail(IF Refused(reachable) THEN "refused" ELSE "transfer")
       /\ IF reachable /\ Served[Url][Ref] = None
          THEN UNCHANGED faults
          ELSE faults < MaxFaults /\ faults' = faults + 1
  /\ UNCHANGED <<local, checkouts, trees, locks, turns, crashes, acts>>

\* The user's own repository is asked each time, and imported from unless the
\* receipt and FETCH_HEAD are of the commit it names.
ReuseImport ==
  /\ at = "fetch"
  /\ Role \in LocalRoles
  /\ local[Ref] # None
  /\ Bare.imported = local[Ref] /\ Bare.head = local[Ref]
  /\ at' = "checkout"
  /\ UNCHANGED <<stage, workspace, resolved, seen, bounds>>

Import ==
  /\ at = "fetch"
  /\ Role \in LocalRoles
  /\ local[Ref] # None
  /\ ~(Bare.imported = local[Ref] /\ Bare.head = local[Ref])
  /\ \/ /\ bares' = [bares EXCEPT ![B].head = local[Ref]]
        /\ at' = "receipt"
        /\ UNCHANGED <<stage, resolved, seen, faults>>
     \/ /\ faults < MaxFaults
        /\ faults' = faults + 1
        /\ bares' = [bares EXCEPT ![B].head = None]
        /\ Fail("transfer")
  /\ UNCHANGED <<local, checkouts, trees, locks, downloads, turns, crashes, acts>>

NotInLocal ==
  /\ at = "fetch"
  /\ Role \in LocalRoles
  /\ local[Ref] = None
  /\ Fail("other")
  /\ UNCHANGED <<workspace, bounds>>

\* The receipt replaces that of an earlier fetch.
WriteReceipt ==
  /\ at = "receipt"
  /\ IF Role \in LocalRoles
     THEN /\ bares' = [bares EXCEPT ![B].imported = Bare.head]
          /\ UNCHANGED downloads
     ELSE /\ bares' = [bares EXCEPT ![B].receipt = Ref]
          /\ downloads' = [downloads EXCEPT ![B].kept = TRUE]
  /\ at' = "checkout"
  /\ UNCHANGED <<stage, local, checkouts, trees, locks, resolved, seen, bounds>>

\* A checkout that exists is taken if its HEAD is the commit.
CheckOut ==
  /\ at = "checkout"
  /\ IF checkouts[Checkout] = "broken"
     THEN Fail("other") /\ UNCHANGED checkouts
     ELSE /\ checkouts' = [checkouts EXCEPT ![Checkout] = IF @ = "absent" THEN "whole" ELSE @]
          /\ at' = "publish"
          /\ UNCHANGED <<stage, resolved, seen>>
  /\ UNCHANGED <<local, bares, trees, locks, downloads, bounds>>

\* publish_lock: a lock of the same content is left as it is.
Lock(p) == locks' = locks \cup {p}

\* Mutant: a lock is published for whatever is checked out.
PublishUnchecked ==
  /\ at = "publish"
  /\ Lock(Checkout)
  /\ resolved' = Append(resolved, Bare.head)
  /\ at' = IF Len(resolved') = Len(Order) THEN "target" ELSE "prepare"
  /\ UNCHANGED <<stage, seen, local, bares, checkouts, trees, downloads, bounds>>

\* A checkout that is not clean is refused; a clean one is locked.
Publish ==
  /\ at = "publish"
  /\ IF checkouts[Checkout] = "whole"
     THEN /\ Lock(Checkout)
          /\ resolved' = Append(resolved, Bare.head)
          /\ at' = IF Len(resolved') = Len(Order) THEN "target" ELSE "prepare"
          /\ UNCHANGED <<stage, seen>>
     ELSE Fail("other") /\ UNCHANGED locks
  /\ UNCHANGED <<local, bares, checkouts, trees, downloads, bounds>>

-----------------------------------------------------------------------------
(* The writable tree, and the end.                                         *)

\* A writable tree that exists is resumed.
CreateTarget ==
  /\ at = "target"
  /\ trees' = [trees EXCEPT ![Tree] = IF @ = "absent" THEN "whole" ELSE @]
  /\ at' = "observe"
  /\ UNCHANGED <<stage, local, bares, checkouts, locks, downloads, resolved, seen, bounds>>

\* It need not be clean.  Its repository is there: its baseline is.
Observe ==
  /\ at = "observe"
  /\ seen' = trees[Tree]
  /\ at' = "identify"
  /\ UNCHANGED <<stage, workspace, resolved, bounds>>

\* The source entry of the envelope is in the source baseline, and its files
\* are those of the commit: what else was written there is no matter here.
Identify ==
  /\ at = "identify"
  /\ \/ /\ CommitOf("source") \in Portable
        /\ at' = "finalize"
        /\ UNCHANGED <<stage, resolved, seen>>
     \/ /\ CommitOf("source") \notin Portable \/ checkouts[CheckoutOf("source")] # "whole"
        /\ Fail("other")
  /\ UNCHANGED <<workspace, bounds>>

LockStands(r) == CheckoutOf(r) \in locks

\* HEAD, tree, cleanliness and origin.
CheckoutStands(r) ==
  /\ checkouts[CheckoutOf(r)] = "whole"
  /\ bares[<<r, selection[r].url>>] # Damaged

\* The download of the ref, or an import of whatever commit, is on record.
FetchStands(r) ==
  LET b == <<r, selection[r].url>>
  IN  bares[b].receipt = selection[r].ref \/ bares[b].imported # None

\* As it was observed.
TreeStands == trees[Tree] = seen

\* validate_repository_bundle
BundleStands ==
  /\ \A r \in Roles : LockStands(r) /\ CheckoutStands(r) /\ FetchStands(r)
  /\ TreeStands

\* The revision manifest and the repository manifest.
Revision(r) == [url |-> selection[r].url, ref |-> selection[r].ref, commit |-> CommitOf(r)]

Manifest == [roles |-> [r \in Roles |-> Revision(r)], tree |-> seen]

\* A bundle with findings fails like any other acquisition.
Finalize ==
  /\ at = "finalize"
  /\ IF BundleStands
     THEN /\ status' = "PASS"
          /\ accepted' = Manifest
          /\ at' = "stopped"
          /\ resolved' = <<>>
          /\ seen' = None
          /\ UNCHANGED <<selection, failure>>
     ELSE Fail("other")
  /\ UNCHANGED <<workspace, bounds>>

\* `stage recovery-resume` has the worker look at a failed transfer.
Diagnose ==
  /\ at = "stopped"
  /\ status = "RUNNING"
  /\ failure = "transfer"
  /\ acts < MaxActs
  /\ acts' = acts + 1
  /\ failure' = "operator"
  /\ UNCHANGED <<status, selection, accepted, workspace, at, resolved, seen,
                 turns, faults, crashes>>

-----------------------------------------------------------------------------
(* Faults, and others.                                                     *)

\* What a Git command that was cut short may leave.
CutShort ==
  \/ UNCHANGED <<bares, checkouts, trees, downloads>>
  \/ /\ at = "origin"
     /\ \E h \in {None, Served[Url][Ref]} : bares' = [bares EXCEPT ![B].head = h]
     /\ downloads' = [downloads EXCEPT ![B] = [ref |-> Ref, kept |-> FALSE]]
     /\ UNCHANGED <<checkouts, trees>>
  \/ /\ at = "checkout"
     /\ checkouts[Checkout] = "absent"
     /\ checkouts' = [checkouts EXCEPT ![Checkout] = "partial"]
     /\ UNCHANGED <<bares, trees, downloads>>
  \/ /\ at = "target"
     /\ trees[Tree] = "absent"
     /\ trees' = [trees EXCEPT ![Tree] = "partial"]
     /\ UNCHANGED <<bares, checkouts, downloads>>

Crash ==
  /\ at # "stopped"
  /\ crashes < MaxCrashes
  /\ crashes' = crashes + 1
  /\ CutShort
  /\ at' = "stopped"
  /\ resolved' = <<>>
  /\ seen' = None
  /\ UNCHANGED <<stage, local, locks, turns, faults, acts>>

\* A process left behind, or a person, writes into a checkout or a tree, or
\* spoils a repository; the user's own repository moves on.
Disturb ==
  /\ acts < MaxActs
  /\ acts' = acts + 1
  /\ \/ \E p \in Checkouts :
          /\ checkouts[p] = "whole"
          /\ checkouts' = [checkouts EXCEPT ![p] = "dirty"]
          /\ UNCHANGED <<local, bares, trees>>
     \/ \E p \in Trees :
          /\ trees[p] = "whole"
          /\ trees' = [trees EXCEPT ![p] = "dirty"]
          /\ UNCHANGED <<local, bares, checkouts>>
     \/ \E b \in Bares :
          /\ at \in {"stopped", "worker", "finalize"}
          /\ bares[b] \notin {None, Damaged}
          /\ bares' = [bares EXCEPT ![b] = Damaged]
          /\ UNCHANGED <<local, checkouts, trees>>
     \/ \E r \in Refs, c \in Commits \cup {None} :
          /\ LocalRoles # {} /\ local[r] # c
          /\ local' = [local EXCEPT ![r] = c]
          /\ UNCHANGED <<bares, checkouts, trees>>
  /\ UNCHANGED <<stage, locks, downloads, at, resolved, seen, turns, faults, crashes>>

\* `stage reopen`: a new attempt at a blocked stage.
Reopen ==
  /\ at = "stopped"
  /\ status = "BLOCKED"
  /\ acts < MaxActs
  /\ acts' = acts + 1
  /\ status' = "READY"
  /\ selection' = None
  /\ UNCHANGED <<failure, accepted, workspace, at, resolved, seen, turns, faults, crashes>>

-----------------------------------------------------------------------------
Init ==
  /\ status = "READY"
  /\ selection = None /\ failure = None
  /\ local = Owned
  /\ bares = [b \in Bares |-> None]
  /\ checkouts = [p \in Checkouts |-> "absent"]
  /\ trees = [p \in Trees |-> "absent"]
  /\ locks = {}
  /\ accepted = None
  /\ at = "stopped" /\ resolved = <<>> /\ seen = None
  /\ downloads = [b \in Bares |-> [ref |-> None, kept |-> FALSE]]
  /\ turns = 0 /\ faults = 0 /\ crashes = 0 /\ acts = 0

Controller ==
  \/ Run \/ Select \/ GiveUp \/ Load
  \/ Prepare \/ Reuse \/ Seed \/ Download \/ DownloadFails
  \/ ReuseImport \/ Import \/ NotInLocal \/ WriteReceipt
  \/ CheckOut \/ Publish
  \/ CreateTarget \/ Observe \/ Identify \/ Finalize

Next == Controller \/ Diagnose \/ Crash \/ Disturb \/ Reopen

Spec == Init /\ [][Next]_vars

-----------------------------------------------------------------------------
(* Properties.                                                             *)

\* Every variable has its type.
TypeOK ==
  /\ status \in {"READY", "RUNNING", "BLOCKED", "PASS"}
  /\ selection \in Selections \cup {None}
  /\ failure \in Causes \cup {None}
  /\ local \in [Refs -> Commits \cup {None}]
  /\ bares \in [Bares -> {None, Damaged} \cup Repository]
  /\ checkouts \in [Checkouts -> {"absent", "partial", "whole", "dirty", "broken"}]
  /\ trees \in [Trees -> {"absent", "partial", "whole", "dirty", "broken"}]
  /\ locks \subseteq Checkouts
  /\ accepted # None =>
       /\ accepted.roles \in [Roles -> [url : Urls, ref : Refs, commit : Commits]]
       /\ accepted.tree \in {"partial", "whole", "dirty"}
  /\ at \in {"stopped", "worker"} \cup Steps
  /\ resolved \in Seq(Commits) /\ Len(resolved) <= Len(Order)
  /\ resolved # <<>> => at \in Steps \ {"load"}
  /\ seen \in {None, "partial", "whole", "dirty"}
  /\ downloads \in [Bares -> [ref : Refs \cup {None}, kept : BOOLEAN]]
  /\ {turns, faults, crashes, acts} \subseteq Nat

\* BareRepositoryStore: "Publish verified bare repositories and immutable
\* identity locks."  What a crash left of a checkout is never locked nor
\* accepted, whichever attempt comes upon it.
LockedIsWhole ==
  /\ \A p \in locks : checkouts[p] \notin {"absent", "partial"}
  /\ accepted # None =>
       \A r \in Roles : <<r, accepted.roles[r].url, accepted.roles[r].commit>> \in locks

\* _seed_from_cache: "origin fetch still pins the public revision."  The commit
\* accepted is the one the origin has for the ref of the worker, however often
\* it selected again and whatever a supplied baseline has for that ref.  Only a
\* crash undoes it: it may part FETCH_HEAD from the receipt.
PublicRevision ==
  accepted # None /\ crashes = 0 =>
    \A r \in Roles \ LocalRoles :
      LET a == accepted.roles[r] IN a.commit = Served[a.url][a.ref]

\* RepositoryFetchError: "Acquisition can resume the same selection without a
\* paid model decision."  The worker is asked again only for an error of the
\* selection, or for the operator; a download of a full commit that failed is
\* taken for an error of the selection when the origin answers.
PaidForCause ==
  [][turns' # turns =>
       /\ failure # "transfer"
       /\ failure = "refused" =>
            \E r \in Roles \ LocalRoles :
              LET s == selection[r] IN Served[s.url][s.ref] = None \/ s.ref \in FullCommits]_vars

\* fetch: "Keep a successful download and its receipt across controller
\* restarts."  What has been downloaded is downloaded again only after another
\* ref was, or after someone spoiled the repository.
DownloadKept ==
  [][\A b \in Bares :
       downloads'[b] # downloads[b] /\ downloads[b].kept =>
         downloads'[b].ref # downloads[b].ref \/ acts > 0]_vars
=============================================================================
