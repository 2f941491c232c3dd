-------------------------- MODULE BlueprintFiles --------------------------
(***************************************************************************)
(* Blueprints and the files uploaded for their VMs.  A file lies in the    *)
(* directory of its blueprint and is referenced from the blueprint's VM    *)
(* configurations in PostgreSQL; the two are kept together by a            *)
(* transaction-scoped advisory lock per blueprint that uploads, saves,     *)
(* deletes, duplicates and the collection of unreferenced files take.      *)
(*                                                                         *)
(* req[p] is a request in progress; what its transaction writes is not     *)
(* visible before it commits.  The VMs of a blueprint are merged: a        *)
(* blueprint references a set of files.                                    *)
(*                                                                         *)
(* A definition X_Bug above X is X with a plausible bug, not used here.    *)
(***************************************************************************)
EXTENDS Naturals, FiniteSets

CONSTANTS
  Procs,        \* requests at a time, the hourly clean-up being one
  Blueprints,
  Files,        \* file ids: each upload draws a fresh one
  None,
  Operations,   \* the requests in use
  MaxFaults     \* bound on crashes, broken uploads and failed copies

ASSUME FilesAssumption == None \notin Procs \cup Blueprints \cup Files /\ MaxFaults \in Nat

VARIABLES
  exists,    \* rows of lab_blueprints
  refs,      \* files the VMs of a blueprint reference
  deployed,  \* blueprints with a row in lab_deployments
  disk,      \* files in the directory of a blueprint
  used,      \* file ids drawn so far
  advisory,  \* holder of the blueprint's advisory lock
  rowLock,   \* holder of a lock on the blueprint's row that excludes new
             \* deployments (FOR UPDATE, DELETE)
  req,
  faults

db == <<exists, refs, deployed>>
vars == <<exists, refs, deployed, disk, used, advisory, rowLock, req, faults>>

\* b: the blueprint; n: the copy of a duplicate; keep: the files of the saved
\* form, or of the duplicated VMs; file: the upload; drop: the file it replaces
Request == [pc : {"idle", "lock", "locked", "receive", "received", "valid",
                  "written", "copy", "insert", "cleanLock", "clean"},
            op : Operations \cup {None},
            b : Blueprints \cup {None}, n : Blueprints \cup {None},
            keep : SUBSET Files, file : Files \cup {None}, drop : SUBSET Files]
Asked(pc, op, b, n, keep) ==
  [pc |-> pc, op |-> op, b |-> b, n |-> n, keep |-> keep, file |-> None, drop |-> {}]
Idle == Asked("idle", None, None, None, {})

TypeOK ==
  /\ exists \subseteq Blueprints
  /\ deployed \subseteq exists   \* the foreign key
  /\ refs \in [Blueprints -> SUBSET Files] /\ disk \in [Blueprints -> SUBSET Files]
  /\ used \subseteq Files
  /\ advisory \in [Blueprints -> Procs \cup {None}]
  /\ rowLock \in [Blueprints -> Procs \cup {None}]
  /\ req \in [Procs -> Request]
  /\ faults \in Nat

Fault == faults < MaxFaults /\ faults' = faults + 1

At(p, pc, op) == req[p].pc = pc /\ req[p].op = op
Goto(p, pc) == req' = [req EXCEPT ![p].pc = pc]
Finish(p) == req' = [req EXCEPT ![p] = Idle]

\* COMMIT and ROLLBACK release what the transaction holds.
Release(p) ==
  /\ advisory' = [b \in Blueprints |-> IF advisory[b] = p THEN None ELSE advisory[b]]
  /\ rowLock' = [b \in Blueprints |-> IF rowLock[b] = p THEN None ELSE rowLock[b]]

Fresh == {b \in Blueprints \ exists :
            /\ disk[b] = {}
            /\ \A p \in Procs : b \notin {req[p].b, req[p].n}}

---------------------------------------------------------------------------
(* The checks a request makes before its transaction *)

Begin(p, r) ==
  /\ req[p] = Idle /\ r.op \in Operations
  /\ req' = [req EXCEPT ![p] = r]
  /\ UNCHANGED <<db, disk, used, advisory, rowLock, faults>>

\* Bound: as many uploads as there are file ids left.
BeginUpload(p) == \E b \in Blueprints :
  /\ Cardinality({q \in Procs : req[q].op = "upload" /\ req[q].file = None})
       < Cardinality(Files \ used)
  /\ Begin(p, Asked("lock", "upload", b, None, {}))

\* PUT reads the blueprint; its form holds files the client has seen there.
BeginSave(p) == \E b \in exists \ deployed, keep \in SUBSET used :
  Begin(p, Asked("lock", "save", b, None, keep))

BeginCreate(p) == \E b \in Fresh :
  Begin(p, Asked("lock", "save", b, None, {}))

BeginDelete(p) == \E b \in Blueprints \ deployed :
  Begin(p, Asked("lock", "delete", b, None, {}))

BeginDuplicate(p) == \E b \in Blueprints, n \in Fresh :
  /\ b # n
  /\ Begin(p, Asked("lock", "duplicate", b, n, {}))

\* POST /api/lifecycle/deployments has read the blueprint.
BeginDeploy(p) == \E b \in exists :
  Begin(p, Asked("insert", "deploy", b, None, {}))

\* Start-up and every hour, for each of the directories there are
BeginSweep(p, b) ==
  /\ disk[b] # {}
  /\ Begin(p, Asked("cleanLock", "sweep", b, None, {}))

---------------------------------------------------------------------------
(* Transactions *)

Lock_Unlocked(p) ==
  /\ req[p].pc = "lock"
  /\ Goto(p, "locked")
  /\ UNCHANGED <<db, disk, used, advisory, rowLock, faults>>

\* BEGIN; lockBlueprintFiles
Lock(p) ==
  /\ req[p].pc = "lock" /\ advisory[req[p].b] = None
  /\ advisory' = [advisory EXCEPT ![req[p].b] = p]
  /\ Goto(p, "locked")
  /\ UNCHANGED <<db, disk, used, rowLock, faults>>

CheckUpload_NoRowLock(p) ==
  LET b == req[p].b IN
  /\ At(p, "locked", "upload")
  /\ b \in exists /\ b \notin deployed
  /\ \E f \in Files \ used, drop \in {{}} \cup {{g} : g \in refs[b]} :
       /\ used' = used \cup {f}
       /\ disk' = [disk EXCEPT ![b] = @ \cup {f}]
       /\ req' = [req EXCEPT ![p].pc = "receive", ![p].file = f, ![p].drop = drop]
  /\ UNCHANGED <<db, advisory, rowLock, faults>>

\* SELECT ... FOR UPDATE, no deployment, the VM and the replaced file exist;
\* then the body is received into a new file.
CheckUpload(p) ==
  LET b == req[p].b IN
  /\ At(p, "locked", "upload")
  /\ rowLock[b] = None
  /\ b \in exists /\ b \notin deployed
  /\ rowLock' = [rowLock EXCEPT ![b] = p]
  /\ \E f \in Files \ used, drop \in {{}} \cup {{g} : g \in refs[b]} :
       /\ used' = used \cup {f}
       /\ disk' = [disk EXCEPT ![b] = @ \cup {f}]
       /\ req' = [req EXCEPT ![p].pc = "receive", ![p].file = f, ![p].drop = drop]
  /\ UNCHANGED <<db, advisory, faults>>

Receive(p) ==
  /\ At(p, "receive", "upload")
  /\ Goto(p, "received")
  /\ UNCHANGED <<db, disk, used, advisory, rowLock, faults>>

\* The connection breaks, the disk is full or the limit is exceeded; the
\* partial file is removed unless that fails too.  The clean-up follows.
ReceiveFails(p) ==
  LET b == req[p].b IN
  /\ At(p, "receive", "upload")
  /\ Fault
  /\ disk' \in {disk, [disk EXCEPT ![b] = @ \ {req[p].file}]}
  /\ Release(p)
  /\ Goto(p, "cleanLock")
  /\ UNCHANGED <<db, used>>

\* The trigger prevent_deployed_blueprint_modification refuses the statements
\* that change the VMs while it sees a deployment; their effect is committed
\* in a step of its own.
Write(p) ==
  /\ At(p, "received", "upload") \/ At(p, "valid", "save")
  /\ rowLock[req[p].b] \in {None, p} /\ req[p].b \notin deployed
  /\ Goto(p, "written")
  /\ UNCHANGED <<db, disk, used, advisory, rowLock, faults>>

CommitUpload(p) ==
  LET b == req[p].b IN
  /\ At(p, "written", "upload")
  /\ refs' = [refs EXCEPT ![b] = (@ \ req[p].drop) \cup {req[p].file}]
  /\ Release(p)
  /\ Goto(p, "cleanLock")
  /\ UNCHANGED <<exists, deployed, disk, used, faults>>

\* The upsert, which meets the trigger if there is a row, and persistFileUpload
\* for every file of the form
ValidateSave(p) ==
  /\ At(p, "locked", "save") /\ req[p].b \notin deployed
  /\ req[p].keep \subseteq refs[req[p].b] \cap disk[req[p].b]
  /\ Goto(p, "valid")
  /\ UNCHANGED <<db, disk, used, advisory, rowLock, faults>>

\* The upsert does not lock the row against new deployments.
CommitSave(p) ==
  LET b == req[p].b IN
  /\ At(p, "written", "save")
  /\ exists' = exists \cup {b}
  /\ refs' = [refs EXCEPT ![b] = req[p].keep]
  /\ Release(p)
  /\ Goto(p, "cleanLock")
  /\ UNCHANGED <<deployed, disk, used, faults>>

\* DELETE with ON DELETE RESTRICT for deployments, CASCADE for the VMs
CommitDelete(p) ==
  LET b == req[p].b IN
  /\ At(p, "locked", "delete") /\ rowLock[b] = None /\ b \notin deployed
  /\ exists' = exists \ {b}
  /\ refs' = [refs EXCEPT ![b] = {}]
  /\ Release(p)
  /\ Goto(p, "cleanLock")
  /\ UNCHANGED <<deployed, disk, used, faults>>

\* The second lock of a duplicate, and its read of the source
LockCopy(p) ==
  LET b == req[p].b IN
  /\ At(p, "locked", "duplicate") /\ b \in exists
  /\ advisory[req[p].n] = None
  /\ advisory' = [advisory EXCEPT ![req[p].n] = p]
  /\ req' = [req EXCEPT ![p].pc = "copy", ![p].keep = refs[b]]
  /\ UNCHANGED <<db, disk, used, rowLock, faults>>

Copy(p) ==
  /\ At(p, "copy", "duplicate")
  /\ \E f \in (req[p].keep \cap disk[req[p].b]) \ disk[req[p].n] :
       disk' = [disk EXCEPT ![req[p].n] = @ \cup {f}]
  /\ UNCHANGED <<db, used, advisory, rowLock, req, faults>>

CopyFails(p) ==
  /\ At(p, "copy", "duplicate")
  /\ \/ ~ req[p].keep \subseteq disk[req[p].b] \cup disk[req[p].n] /\ UNCHANGED faults
     \/ Fault
  /\ Release(p)
  /\ req' = [req EXCEPT ![p].pc = "cleanLock", ![p].b = req[p].n]
  /\ UNCHANGED <<db, disk, used>>

CommitDuplicate(p) ==
  /\ At(p, "copy", "duplicate")
  /\ req[p].keep \subseteq disk[req[p].n]
  /\ exists' = exists \cup {req[p].n}
  /\ refs' = [refs EXCEPT ![req[p].n] = req[p].keep]
  /\ Release(p)
  /\ Finish(p)
  /\ UNCHANGED <<deployed, disk, used, faults>>

\* A check inside a transaction fails: ROLLBACK, the locks are released.  An
\* upload cleans up after itself.
Reject(p) ==
  LET b == req[p].b IN
  /\ \/ At(p, "locked", "upload") /\ (b \notin exists \/ b \in deployed)
     \/ At(p, "locked", "save") /\ ~ req[p].keep \subseteq refs[b] \cap disk[b]
     \/ (At(p, "locked", "save") \/ At(p, "valid", "save")) /\ b \in deployed
     \/ At(p, "locked", "delete") /\ b \in deployed
     \/ At(p, "locked", "duplicate") /\ b \notin exists
  /\ Release(p)
  /\ IF req[p].op = "upload" THEN Goto(p, "cleanLock") ELSE Finish(p)
  /\ UNCHANGED <<db, disk, used, faults>>

InsertDeployment_NoKey(p) ==
  LET b == req[p].b IN
  /\ At(p, "insert", "deploy")
  /\ deployed' = deployed \cup {b}
  /\ Finish(p)
  /\ UNCHANGED <<exists, refs, disk, used, advisory, rowLock, faults>>

\* The foreign key takes a key share lock on the blueprint's row.
InsertDeployment(p) ==
  LET b == req[p].b IN
  /\ At(p, "insert", "deploy") /\ rowLock[b] = None
  /\ deployed' = IF b \in exists THEN deployed \cup {b} ELSE deployed
  /\ Finish(p)
  /\ UNCHANGED <<exists, refs, disk, used, advisory, rowLock, faults>>

\* The lab is deleted or destroyed.
RemoveDeployment == \E b \in deployed :
  /\ deployed' = deployed \ {b}
  /\ UNCHANGED <<exists, refs, disk, used, advisory, rowLock, req, faults>>

---------------------------------------------------------------------------
(* cleanupBlueprintFiles, a transaction of its own *)

LockClean(p) ==
  /\ req[p].pc = "cleanLock" /\ advisory[req[p].b] = None
  /\ advisory' = [advisory EXCEPT ![req[p].b] = p]
  /\ req' = [req EXCEPT ![p].pc = "clean", ![p].keep = refs[req[p].b]]
  /\ UNCHANGED <<db, disk, used, rowLock, faults>>

Collected_Drops(p) == req[p].drop

\* every file that is not retained
Collected(p) == disk[req[p].b] \ req[p].keep

Clean(p) ==
  /\ req[p].pc = "clean"
  /\ disk' = [disk EXCEPT ![req[p].b] = @ \ Collected(p)]
  /\ Release(p)
  /\ Finish(p)
  /\ UNCHANGED <<db, used, faults>>

\* The dashboard dies: PostgreSQL rolls back, the files stay as they are.
Crash ==
  /\ Fault
  /\ \E p \in Procs : req[p] # Idle
  /\ req' = [p \in Procs |-> Idle]
  /\ advisory' = [b \in Blueprints |-> None] /\ rowLock' = advisory'
  /\ UNCHANGED <<db, disk, used>>

---------------------------------------------------------------------------
Init ==
  /\ exists = {} /\ deployed = {} /\ used = {} /\ faults = 0
  /\ refs = [b \in Blueprints |-> {}] /\ disk = refs
  /\ advisory = [b \in Blueprints |-> None] /\ rowLock = advisory
  /\ req = [p \in Procs |-> Idle]

BeginNext(p) ==
  \/ BeginUpload(p) \/ BeginSave(p) \/ BeginCreate(p) \/ BeginDelete(p)
  \/ BeginDuplicate(p) \/ BeginDeploy(p)
  \/ \E b \in Blueprints : BeginSweep(p, b)

Proceed(p) ==
  \/ Lock(p) \/ CheckUpload(p) \/ Receive(p) \/ ReceiveFails(p) \/ Write(p) \/ CommitUpload(p)
  \/ ValidateSave(p) \/ CommitSave(p) \/ CommitDelete(p)
  \/ LockCopy(p) \/ Copy(p) \/ CopyFails(p) \/ CommitDuplicate(p)
  \/ Reject(p) \/ InsertDeployment(p) \/ LockClean(p) \/ Clean(p)

Next ==
  \/ \E p \in Procs : BeginNext(p) \/ Proceed(p)
  \/ RemoveDeployment \/ Crash

Spec == Init /\ [][Next]_vars

\* Requests are finished (uploads end or time out), the timer of the clean-up
\* fires again and again for every directory, and a lock that is released again
\* and again is got.
Fairness ==
  /\ \A p \in Procs : SF_vars(Proceed(p))
  /\ \A b \in Blueprints : SF_vars(\E p \in Procs : BeginSweep(p, b))

FairSpec == Spec /\ Fairness

---------------------------------------------------------------------------
(* Properties *)

\* A file a blueprint references is in its directory: no upload, save,
\* duplicate, deletion, collection or crash between them takes it away or
\* commits a reference to a file that is not there.
ReferencedOnDisk == \A b \in Blueprints : refs[b] \subseteq disk[b]

\* The invariants of a run, in one.
FilesOnDisk == TypeOK /\ ReferencedOnDisk

\* An upload never changes a blueprint that has a deployment, although the
\* deployment may be created while the file is being received.
UploadsSpareDeployed ==
  [][\A p \in Procs : req[p].op = "upload" /\ req[p].pc = "written" /\ req'[p].pc = "cleanLock"
       => req[p].b \notin deployed]_vars

\* "Interrupted uploads are removed immediately; startup and hourly cleanup
\* also remove orphaned files after crashes": a file nothing references is
\* removed or referenced in the end.
OrphansRemoved ==
  \A b \in Blueprints, f \in Files :
    (f \in disk[b] \ refs[b]) ~> (f \notin disk[b] \/ f \in refs[b])

---------------------------------------------------------------------------
(* What the documentation says and the code does not keep *)

\* 023-lock-deployed-blueprints.sql: "blueprint is locked because it is used by
\* an existing deployment": a blueprint does not change while it is deployed.
DeployedUnchanged ==
  [][\A b \in deployed \cap deployed' : refs'[b] = refs[b]]_vars
===========================================================================
