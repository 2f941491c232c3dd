------------------------ MODULE BlueprintFilesProofs ------------------------
(***************************************************************************)
(* Proofs about BlueprintFiles, for any requests at a time, blueprints,    *)
(* files and faults: what a blueprint references is on disk, and an upload *)
(* spares a blueprint that has been deployed meanwhile.                    *)
(***************************************************************************)
EXTENDS BlueprintFiles, TLAPS

---------------------------------------------------------------------------
(* The inductive invariant *)

\* The requests that hold their blueprint's advisory lock, and the uploads
\* that hold its row too
Inside == {"locked", "receive", "received", "valid", "written", "copy", "clean"}
Uploading == {"receive", "received", "written"}

\* What a request relies on from step to step: its locks, and what they keep
\* for it.  An upload's file is on disk and not yet referenced, a save has seen
\* every file of its form, a collection retains what is referenced now.
Relies(p) ==
  /\ req[p].pc # "idle" => req[p].b \in Blueprints
  /\ req[p].pc # "idle" /\ req[p].op = "duplicate" => req[p].n \in Blueprints
  /\ req[p].pc \in Inside => advisory[req[p].b] = p
  /\ req[p].pc = "copy" => req[p].op = "duplicate" /\ advisory[req[p].n] = p
  /\ req[p].op = "upload" /\ req[p].pc \in Uploading =>
       /\ rowLock[req[p].b] = p /\ req[p].b \notin deployed
       /\ req[p].file \in (used \cap disk[req[p].b]) \ refs[req[p].b]
  /\ req[p].op = "save" /\ req[p].pc \in {"valid", "written"} => req[p].keep \subseteq disk[req[p].b]
  /\ req[p].pc = "clean" => refs[req[p].b] \subseteq req[p].keep
  /\ req[p].keep \subseteq used

\* Only file ids that were drawn are referenced.
Drawn == \A b \in Blueprints : refs[b] \subseteq used

IInv == TypeOK /\ (\A p \in Procs : Relies(p)) /\ Drawn /\ ReferencedOnDisk

---------------------------------------------------------------------------
(* What one request leaves alone *)

\* A step of p keeps what the other requests hold, and what lies behind it.
Spares(p) ==
  \A q \in Procs \ {p} :
    /\ req'[q] = req[q]
    /\ \A x \in Blueprints :
         /\ advisory[x] = q => /\ advisory'[x] = q /\ disk'[x] = disk[x] /\ refs'[x] = refs[x]
         /\ rowLock[x] = q => rowLock'[x] = q /\ (x \in deployed' => x \in deployed)

LEMMA OthersRely ==
  ASSUME IInv, NEW p \in Procs, Spares(p), used \subseteq used', NEW q \in Procs \ {p}
  PROVE  Relies(q)'
<1>1. Relies(q) /\ req'[q] = req[q]
  BY DEF IInv, Spares
<1>2. ASSUME req[q].pc \in Inside
      PROVE  /\ req[q].b \in Blueprints /\ advisory[req[q].b] = q
             /\ advisory'[req[q].b] = q /\ disk'[req[q].b] = disk[req[q].b] /\ refs'[req[q].b] = refs[req[q].b]
  BY <1>1, <1>2 DEF Relies, Spares, Inside
<1>3. req[q].pc = "copy" => advisory'[req[q].n] = q
  BY <1>1 DEF Relies, Spares
<1>4. req[q].op = "upload" /\ req[q].pc \in Uploading =>
        rowLock'[req[q].b] = q /\ req[q].b \notin deployed'
  BY <1>1, <1>2 DEF Relies, Spares, Uploading, Inside
<1> QED BY <1>1, <1>2, <1>3, <1>4 DEF Relies, Inside, Uploading

\* The end of a transaction gives back the locks of the request alone.
LEMMA Releases ==
  ASSUME TypeOK, NEW p \in Procs, Release(p)
  PROVE  /\ advisory' \in [Blueprints -> Procs \cup {None}]
         /\ rowLock' \in [Blueprints -> Procs \cup {None}]
         /\ \A q \in Procs \ {p}, x \in Blueprints :
              (advisory[x] = q => advisory'[x] = q) /\ (rowLock[x] = q => rowLock'[x] = q)
BY DEF Release, TypeOK

\* A request that goes on to another step
LEMMA Goes ==
  ASSUME TypeOK, NEW p \in Procs, NEW pc, Goto(p, pc)
  PROVE  /\ req'[p].pc = pc
         /\ req'[p].op = req[p].op /\ req'[p].b = req[p].b /\ req'[p].n = req[p].n
         /\ req'[p].keep = req[p].keep /\ req'[p].file = req[p].file /\ req'[p].drop = req[p].drop
         /\ \A q \in Procs \ {p} : req'[q] = req[q]
         /\ pc \in {"idle", "lock", "locked", "receive", "received", "valid", "written", "copy", "insert",
                    "cleanLock", "clean"} => req' \in [Procs -> Request]
BY DEF Goto, TypeOK, Request

LEMMA Finishes ==
  ASSUME TypeOK, NEW p \in Procs, Finish(p)
  PROVE  /\ req'[p] = Idle /\ req' \in [Procs -> Request]
         /\ \A q \in Procs \ {p} : req'[q] = req[q]
BY DEF Finish, TypeOK, Request, Idle, Asked

---------------------------------------------------------------------------
(* The steps of a request *)

\* What every step of a request gives
Good(p) ==
  /\ TypeOK' /\ Spares(p) /\ used \subseteq used'
  /\ Relies(p)' /\ Drawn' /\ ReferencedOnDisk'

LEMMA Begins ==
  ASSUME IInv, NEW p \in Procs, BeginNext(p)
  PROVE  Good(p)
<1>a. ASSUME NEW pc \in {"lock", "insert", "cleanLock"}, NEW op \in Operations, NEW b \in Blueprints,
             NEW n \in Blueprints \cup {None}, NEW keep \in SUBSET Files
      PROVE  /\ Asked(pc, op, b, n, keep) \in Request
             /\ Asked(pc, op, b, n, keep).keep = keep /\ Asked(pc, op, b, n, keep).b = b /\ Asked(pc, op, b, n, keep).n = n
             /\ Asked(pc, op, b, n, keep).pc = pc /\ Asked(pc, op, b, n, keep).op = op
  BY DEF Request, Asked
<1>b. \E pc \in {"lock", "insert", "cleanLock"}, op \in Operations, b \in Blueprints,
         n \in Blueprints \cup {None}, keep \in SUBSET Files :
         /\ Begin(p, Asked(pc, op, b, n, keep)) /\ keep \subseteq used
         /\ op = "duplicate" => n \in Blueprints
  <2>1. CASE BeginUpload(p)
    <3>1. PICK b \in Blueprints : Begin(p, Asked("lock", "upload", b, None, {}))
      BY <2>1 DEF BeginUpload
    <3>2. "upload" \in Operations
      BY <3>1 DEF Begin, Asked
    <3> QED BY <3>1, <3>2
  <2>2. CASE BeginSave(p)
    <3>1. PICK b \in exists \ deployed, keep \in SUBSET used : Begin(p, Asked("lock", "save", b, None, keep))
      BY <2>2 DEF BeginSave
    <3>2. "save" \in Operations
      BY <3>1 DEF Begin, Asked
    <3> QED BY <3>1, <3>2 DEF IInv, TypeOK
  <2>3. CASE BeginCreate(p)
    <3>1. PICK b \in Blueprints : Begin(p, Asked("lock", "save", b, None, {}))
      BY <2>3 DEF BeginCreate, Fresh
    <3>2. "save" \in Operations
      BY <3>1 DEF Begin, Asked
    <3> QED BY <3>1, <3>2
  <2>4. CASE BeginDelete(p)
    <3>1. PICK b \in Blueprints : Begin(p, Asked("lock", "delete", b, None, {}))
      BY <2>4 DEF BeginDelete
    <3>2. "delete" \in Operations
      BY <3>1 DEF Begin, Asked
    <3> QED BY <3>1, <3>2
  <2>5. CASE BeginDuplicate(p)
    <3>1. PICK b \in Blueprints, n \in Blueprints : Begin(p, Asked("lock", "duplicate", b, n, {}))
      BY <2>5 DEF BeginDuplicate, Fresh
    <3>2. "duplicate" \in Operations
      BY <3>1 DEF Begin, Asked
    <3> QED BY <3>1, <3>2
  <2>6. CASE BeginDeploy(p)
    <3>1. PICK b \in exists : Begin(p, Asked("insert", "deploy", b, None, {}))
      BY <2>6 DEF BeginDeploy
    <3>2. "deploy" \in Operations
      BY <3>1 DEF Begin, Asked
    <3>3. b \in Blueprints
      BY DEF IInv, TypeOK
    <3> QED BY <3>1, <3>2, <3>3
  <2>7. CASE \E b \in Blueprints : BeginSweep(p, b)
    <3>1. PICK b \in Blueprints : Begin(p, Asked("cleanLock", "sweep", b, None, {}))
      BY <2>7 DEF BeginSweep
    <3>2. "sweep" \in Operations
      BY <3>1 DEF Begin, Asked
    <3> QED BY <3>1, <3>2
  <2> QED BY <2>1, <2>2, <2>3, <2>4, <2>5, <2>6, <2>7 DEF BeginNext
<1>1. PICK r : /\ Begin(p, r) /\ r \in Request /\ r.keep \subseteq used /\ r.b \in Blueprints
               /\ r.op = "duplicate" => r.n \in Blueprints
               /\ r.pc \in {"lock", "insert", "cleanLock"}
  BY <1>a, <1>b
<1>2. /\ req' = [req EXCEPT ![p] = r]
      /\ UNCHANGED <<exists, refs, deployed, disk, used, advisory, rowLock, faults>>
  BY <1>1 DEF Begin, db
<1>3. /\ req' \in [Procs -> Request] /\ req'[p] = r /\ \A q \in Procs \ {p} : req'[q] = req[q]
  BY <1>1, <1>2 DEF IInv, TypeOK
<1>4. TypeOK' /\ Drawn' /\ ReferencedOnDisk'
  BY <1>2, <1>3 DEF IInv, TypeOK, Drawn, ReferencedOnDisk
<1>5. Spares(p)
  BY <1>2, <1>3 DEF Spares
<1>6. Relies(p)'
  BY <1>1, <1>2, <1>3 DEF Relies, Inside, Uploading
<1> QED BY <1>2, <1>4, <1>5, <1>6 DEF Good

\* Steps that take or keep locks and leave files, references and deployments
LEMMA Advances ==
  ASSUME IInv, NEW p \in Procs,
         Lock(p) \/ Receive(p) \/ Write(p) \/ ValidateSave(p) \/ LockCopy(p) \/ LockClean(p)
  PROVE  Good(p)
<1> USE DEF IInv
<1>0. Relies(p) /\ req[p] \in Request
  BY DEF TypeOK
<1>1. UNCHANGED <<exists, refs, deployed, disk, used, rowLock, faults>>
  BY DEF Lock, Receive, Write, ValidateSave, LockCopy, LockClean, db
<1>2. Drawn' /\ ReferencedOnDisk'
  BY <1>1 DEF Drawn, ReferencedOnDisk
<1>3. ASSUME req' \in [Procs -> Request], \A q \in Procs \ {p} : req'[q] = req[q],
             UNCHANGED advisory
             \/ \E b \in Blueprints : advisory[b] = None /\ advisory' = [advisory EXCEPT ![b] = p]
      PROVE  TypeOK' /\ Spares(p)
  <2>1. advisory' \in [Blueprints -> Procs \cup {None}]
    BY <1>3 DEF TypeOK
  <2>2. \A q \in Procs, x \in Blueprints : advisory[x] = q => advisory'[x] = q
    BY <1>3, FilesAssumption DEF TypeOK
  <2> QED BY <1>1, <1>3, <2>1, <2>2 DEF TypeOK, Spares
<1>4. CASE Lock(p)
  <2>1. /\ req[p].pc = "lock" /\ advisory[req[p].b] = None
        /\ advisory' = [advisory EXCEPT ![req[p].b] = p] /\ Goto(p, "locked")
    BY <1>4 DEF Lock
  <2>2. req[p].b \in Blueprints
    BY <1>0, <2>1 DEF Relies
  <2>3. TypeOK' /\ Spares(p)
    BY <1>3, <2>1, <2>2, Goes
  <2>4. advisory'[req[p].b] = p
    BY <2>1, <2>2 DEF TypeOK
  <2>5. Relies(p)'
    BY <1>0, <1>1, <2>1, <2>2, <2>4, Goes DEF Relies, Inside, Uploading
  <2> QED BY <1>1, <1>2, <2>3, <2>5 DEF Good
<1>5. CASE Receive(p) \/ Write(p) \/ ValidateSave(p)
  <2>1. UNCHANGED advisory
    BY <1>5 DEF Receive, Write, ValidateSave
  <2>2. CASE Receive(p)
    <3>1. Goto(p, "received") /\ At(p, "receive", "upload")
      BY <2>2 DEF Receive
    <3>2. TypeOK' /\ Spares(p)
      BY <1>3, <2>1, <3>1, Goes
    <3>3. Relies(p)'
      BY <1>0, <1>1, <2>1, <3>1, Goes DEF Relies, Inside, Uploading, At
    <3> QED BY <1>1, <1>2, <3>2, <3>3 DEF Good
  <2>3. CASE Write(p)
    <3>1. Goto(p, "written") /\ (At(p, "received", "upload") \/ At(p, "valid", "save"))
      BY <2>3 DEF Write
    <3>2. TypeOK' /\ Spares(p)
      BY <1>3, <2>1, <3>1, Goes
    <3>3. Relies(p)'
      BY <1>0, <1>1, <2>1, <3>1, Goes DEF Relies, Inside, Uploading, At
    <3> QED BY <1>1, <1>2, <3>2, <3>3 DEF Good
  <2>4. CASE ValidateSave(p)
    <3>1. /\ Goto(p, "valid") /\ At(p, "locked", "save")
          /\ req[p].keep \subseteq disk[req[p].b]
      BY <2>4 DEF ValidateSave
    <3>2. TypeOK' /\ Spares(p)
      BY <1>3, <2>1, <3>1, Goes
    <3>3. Relies(p)'
      BY <1>0, <1>1, <2>1, <3>1, Goes DEF Relies, Inside, Uploading, At
    <3> QED BY <1>1, <1>2, <3>2, <3>3 DEF Good
  <2> QED BY <1>5, <2>2, <2>3, <2>4
<1>6. CASE LockCopy(p) \/ LockClean(p)
  <2> DEFINE x == IF req[p].pc = "locked" THEN req[p].n ELSE req[p].b
             pc == IF req[p].pc = "locked" THEN "copy" ELSE "clean"
  <2>1. /\ req[p].pc = "locked" => req[p].op = "duplicate"
        /\ req[p].pc \in {"locked", "cleanLock"}
        /\ advisory[x] = None /\ advisory' = [advisory EXCEPT ![x] = p]
        /\ req' = [req EXCEPT ![p].pc = pc, ![p].keep = refs[req[p].b]]
    BY <1>6 DEF LockCopy, LockClean, At
  <2>2. req[p].b \in Blueprints /\ x \in Blueprints
    BY <1>0, <2>1 DEF Relies
  <2>3. refs[req[p].b] \subseteq used /\ refs[req[p].b] \in SUBSET Files
    BY <2>2 DEF Drawn, TypeOK
  <2>4. /\ req'[p].pc = pc /\ req'[p].op = req[p].op /\ req'[p].b = req[p].b /\ req'[p].n = req[p].n
        /\ req'[p].keep = refs[req[p].b]
        /\ \A q \in Procs \ {p} : req'[q] = req[q]
        /\ req' \in [Procs -> Request]
    <3> DEFINE half == [req EXCEPT ![p].pc = pc]
    <3>1. pc \in {"copy", "clean"}
      OBVIOUS
    <3>2. req' = [half EXCEPT ![p].keep = refs[req[p].b]]
      BY <2>1
    <3> HIDE DEF pc, x
    <3>3. /\ half \in [Procs -> Request] /\ half[p].pc = pc /\ half[p].op = req[p].op
          /\ half[p].b = req[p].b /\ half[p].n = req[p].n
          /\ \A q \in Procs \ {p} : half[q] = req[q]
      BY <3>1 DEF TypeOK, Request
    <3> HIDE DEF half
    <3> QED BY <2>3, <3>2, <3>3 DEF Request
  <2>5. TypeOK' /\ Spares(p)
    BY <1>3, <2>1, <2>2, <2>4
  <2>6. advisory'[x] = p
    BY <2>1, <2>2 DEF TypeOK
  <2>7. req[p].pc = "locked" => advisory'[req[p].b] = p
    <3>1. req[p].pc = "locked" => advisory[req[p].b] = p
      BY <1>0 DEF Relies, Inside
    <3> QED BY <2>1, <2>2, <3>1 DEF TypeOK
  <2>8. Relies(p)'
    BY <1>0, <1>1, <2>1, <2>2, <2>3, <2>4, <2>6, <2>7 DEF Relies, Inside, Uploading
  <2> QED BY <1>1, <1>2, <2>5, <2>8 DEF Good
<1> QED BY <1>4, <1>5, <1>6

\* A step inside the transaction of p, at most on the one blueprint x it has locked
LEMMA Apart ==
  ASSUME TypeOK, NEW p \in Procs, NEW x \in Blueprints, advisory[x] = p,
         \A q \in Procs \ {p} : req'[q] = req[q],
         \A q \in Procs \ {p}, y \in Blueprints :
           (advisory[y] = q => advisory'[y] = q) /\ (rowLock[y] = q => rowLock'[y] = q),
         \A y \in Blueprints \ {x} : disk'[y] = disk[y] /\ refs'[y] = refs[y],
         deployed' = deployed
  PROVE  Spares(p)
BY DEF Spares

\* A request that has given back its locks relies on nothing but its blueprint.
LEMMA Rests ==
  ASSUME NEW p \in Procs, req'[p].keep \subseteq used',
         \/ req'[p] = Idle
         \/ req'[p].pc = "cleanLock" /\ req'[p].b \in Blueprints
            /\ (req'[p].op = "duplicate" => req'[p].n \in Blueprints)
  PROVE  Relies(p)'
<1>1. Idle.pc = "idle"
  BY DEF Idle, Asked
<1>2. req'[p].pc \in {"idle", "cleanLock"}
  BY <1>1
<1> QED BY <1>1, <1>2 DEF Relies, Inside, Uploading

\* A transaction that ends: the files and references of one blueprint it has
\* locked are left as they should be, its locks are given back.
LEMMA Ends ==
  ASSUME IInv, NEW p \in Procs, NEW x \in Blueprints, advisory[x] = p,
         Release(p), Goto(p, "cleanLock") \/ Finish(p),
         UNCHANGED <<deployed, used>>, faults' \in Nat,
         exists' \subseteq Blueprints, deployed \subseteq exists',
         refs' \in [Blueprints -> SUBSET Files], disk' \in [Blueprints -> SUBSET Files],
         \A y \in Blueprints \ {x} : disk'[y] = disk[y] /\ refs'[y] = refs[y],
         refs'[x] \subseteq used \cap disk'[x], req[p].pc # "idle"
  PROVE  Good(p)
<1>1. /\ Relies(p) /\ TypeOK /\ Drawn /\ ReferencedOnDisk
  BY DEF IInv
<1>2. req' \in [Procs -> Request] /\ \A q \in Procs \ {p} : req'[q] = req[q]
  BY <1>1, Goes, Finishes
<1>3. TypeOK'
  BY <1>1, <1>2, Releases DEF TypeOK
<1>4. Spares(p)
  BY <1>1, <1>2, Apart, Releases
<1>5. Idle.keep = {}
  BY DEF Idle, Asked
<1>6. /\ req'[p].keep \subseteq used'
      /\ \/ req'[p] = Idle
         \/ req'[p].pc = "cleanLock" /\ req'[p].b \in Blueprints
            /\ (req'[p].op = "duplicate" => req'[p].n \in Blueprints)
  <2>1. CASE Goto(p, "cleanLock")
    BY <1>1, <2>1, Goes DEF Relies
  <2>2. CASE Finish(p)
    BY <1>1, <1>5, <2>2, Finishes
  <2> QED BY <2>1, <2>2
<1>7. Relies(p)'
  BY <1>6, Rests
<1>8. Drawn' /\ ReferencedOnDisk'
  BY <1>1 DEF Drawn, ReferencedOnDisk
<1> QED BY <1>3, <1>4, <1>7, <1>8 DEF Good

LEMMA Closes ==
  ASSUME IInv, NEW p \in Procs,
         \/ ReceiveFails(p) \/ CommitUpload(p) \/ CommitSave(p) \/ CommitDelete(p)
         \/ CommitDuplicate(p) \/ Reject(p) \/ Clean(p)
  PROVE  Good(p)
<1> USE DEF IInv
<1>0. Relies(p) /\ TypeOK /\ Drawn /\ ReferencedOnDisk /\ req[p] \in Request
  BY DEF TypeOK
<1> DEFINE b == req[p].b
<1>1. CASE ReceiveFails(p)
  <2>1. /\ At(p, "receive", "upload") /\ Release(p) /\ Goto(p, "cleanLock")
        /\ disk' \in {disk, [disk EXCEPT ![b] = @ \ {req[p].file}]}
        /\ UNCHANGED <<exists, refs, deployed, used>> /\ faults' = faults + 1
    BY <1>1 DEF ReceiveFails, Fault, db
  <2>2. b \in Blueprints /\ advisory[b] = p /\ req[p].file \notin refs[b] /\ req[p].pc # "idle"
    BY <1>0, <2>1 DEF Relies, At, Inside, Uploading
  <2>3. /\ disk' \in [Blueprints -> SUBSET Files] /\ refs[b] \subseteq disk'[b]
        /\ \A y \in Blueprints \ {b} : disk'[y] = disk[y]
    BY <1>0, <2>1, <2>2 DEF TypeOK, ReferencedOnDisk
  <2>4. faults' \in Nat /\ refs[b] \subseteq used /\ refs \in [Blueprints -> SUBSET Files]
        /\ exists \subseteq Blueprints /\ deployed \subseteq exists
    BY <1>0, <2>1, <2>2 DEF TypeOK, Drawn
  <2> HIDE DEF b
  <2> QED BY <2>1, <2>2, <2>3, <2>4, Ends
<1>2. CASE CommitUpload(p)
  <2>1. /\ At(p, "written", "upload") /\ Release(p) /\ Goto(p, "cleanLock")
        /\ refs' = [refs EXCEPT ![b] = (@ \ req[p].drop) \cup {req[p].file}]
        /\ UNCHANGED <<exists, deployed, disk, used, faults>>
    BY <1>2 DEF CommitUpload
  <2>2. b \in Blueprints /\ advisory[b] = p /\ req[p].file \in used \cap disk[b] /\ req[p].pc # "idle"
    BY <1>0, <2>1 DEF Relies, At, Inside, Uploading
  <2>3. /\ refs' \in [Blueprints -> SUBSET Files] /\ refs'[b] \subseteq used \cap disk[b]
        /\ \A y \in Blueprints \ {b} : refs'[y] = refs[y]
    BY <1>0, <2>1, <2>2 DEF TypeOK, ReferencedOnDisk, Drawn
  <2>4. faults \in Nat /\ disk \in [Blueprints -> SUBSET Files] /\ exists \subseteq Blueprints
        /\ deployed \subseteq exists
    BY <1>0 DEF TypeOK
  <2> HIDE DEF b
  <2> QED BY <2>1, <2>2, <2>3, <2>4, Ends
<1>3. CASE CommitSave(p)
  <2>1. /\ At(p, "written", "save") /\ Release(p) /\ Goto(p, "cleanLock")
        /\ exists' = exists \cup {b}
        /\ refs' = [refs EXCEPT ![b] = req[p].keep]
        /\ UNCHANGED <<deployed, disk, used, faults>>
    BY <1>3 DEF CommitSave
  <2>2. b \in Blueprints /\ advisory[b] = p /\ req[p].keep \subseteq used \cap disk[b] /\ req[p].pc # "idle"
    BY <1>0, <2>1 DEF Relies, At, Inside, Uploading
  <2>3. /\ refs' \in [Blueprints -> SUBSET Files] /\ refs'[b] \subseteq used \cap disk[b]
        /\ \A y \in Blueprints \ {b} : refs'[y] = refs[y]
    BY <1>0, <2>1, <2>2 DEF TypeOK
  <2>4. faults \in Nat /\ disk \in [Blueprints -> SUBSET Files] /\ exists' \subseteq Blueprints
        /\ deployed \subseteq exists'
    BY <1>0, <2>1, <2>2 DEF TypeOK
  <2> HIDE DEF b
  <2> QED BY <2>1, <2>2, <2>3, <2>4, Ends
<1>4. CASE CommitDelete(p)
  <2>1. /\ At(p, "locked", "delete") /\ b \notin deployed /\ Release(p) /\ Goto(p, "cleanLock")
        /\ exists' = exists \ {b}
        /\ refs' = [refs EXCEPT ![b] = {}]
        /\ UNCHANGED <<deployed, disk, used, faults>>
    BY <1>4 DEF CommitDelete
  <2>2. b \in Blueprints /\ advisory[b] = p /\ req[p].pc # "idle"
    BY <1>0, <2>1 DEF Relies, At, Inside
  <2>3. /\ refs' \in [Blueprints -> SUBSET Files] /\ refs'[b] = {}
        /\ \A y \in Blueprints \ {b} : refs'[y] = refs[y]
    BY <1>0, <2>1, <2>2 DEF TypeOK
  <2>4. faults \in Nat /\ disk \in [Blueprints -> SUBSET Files] /\ exists' \subseteq Blueprints
        /\ deployed \subseteq exists'
    BY <1>0, <2>1, <2>2 DEF TypeOK
  <2> HIDE DEF b
  <2> QED BY <2>1, <2>2, <2>3, <2>4, Ends
<1>5. CASE CommitDuplicate(p)
  <2> DEFINE n == req[p].n
  <2>1. /\ At(p, "copy", "duplicate") /\ req[p].keep \subseteq disk[n] /\ Release(p) /\ Finish(p)
        /\ exists' = exists \cup {n}
        /\ refs' = [refs EXCEPT ![n] = req[p].keep]
        /\ UNCHANGED <<deployed, disk, used, faults>>
    BY <1>5 DEF CommitDuplicate
  <2>2. n \in Blueprints /\ advisory[n] = p /\ req[p].keep \subseteq used \cap disk[n] /\ req[p].pc # "idle"
    BY <1>0, <2>1 DEF Relies, At
  <2>3. /\ refs' \in [Blueprints -> SUBSET Files] /\ refs'[n] \subseteq used \cap disk[n]
        /\ \A y \in Blueprints \ {n} : refs'[y] = refs[y]
    BY <1>0, <2>1, <2>2 DEF TypeOK
  <2>4. faults \in Nat /\ disk \in [Blueprints -> SUBSET Files] /\ exists' \subseteq Blueprints
        /\ deployed \subseteq exists'
    BY <1>0, <2>1, <2>2 DEF TypeOK
  <2> HIDE DEF n
  <2> QED BY <2>1, <2>2, <2>3, <2>4, Ends
<1>6. CASE Reject(p)
  <2>1. /\ req[p].pc \in {"locked", "valid"} /\ Release(p)
        /\ Goto(p, "cleanLock") \/ Finish(p)
        /\ UNCHANGED <<exists, refs, deployed, disk, used, faults>>
    BY <1>6 DEF Reject, At, db
  <2>2. b \in Blueprints /\ advisory[b] = p /\ req[p].pc # "idle"
    BY <1>0, <2>1 DEF Relies, Inside
  <2>3. /\ faults \in Nat /\ disk \in [Blueprints -> SUBSET Files] /\ refs \in [Blueprints -> SUBSET Files]
        /\ exists \subseteq Blueprints /\ deployed \subseteq exists /\ refs[b] \subseteq used \cap disk[b]
    BY <1>0, <2>2 DEF TypeOK, ReferencedOnDisk, Drawn
  <2> HIDE DEF b
  <2> QED BY <2>1, <2>2, <2>3, Ends
<1>7. CASE Clean(p)
  <2>1. /\ req[p].pc = "clean" /\ Release(p) /\ Finish(p)
        /\ disk' = [disk EXCEPT ![b] = @ \ Collected(p)]
        /\ UNCHANGED <<exists, refs, deployed, used, faults>>
    BY <1>7 DEF Clean, db
  <2>2. b \in Blueprints /\ advisory[b] = p /\ refs[b] \subseteq req[p].keep /\ req[p].pc # "idle"
    BY <1>0, <2>1 DEF Relies, Inside
  <2>3. /\ disk' \in [Blueprints -> SUBSET Files] /\ refs[b] \subseteq disk'[b]
        /\ \A y \in Blueprints \ {b} : disk'[y] = disk[y]
    BY <1>0, <2>1, <2>2 DEF TypeOK, ReferencedOnDisk, Collected
  <2>4. /\ faults \in Nat /\ refs \in [Blueprints -> SUBSET Files] /\ refs[b] \subseteq used
        /\ exists \subseteq Blueprints /\ deployed \subseteq exists
    BY <1>0, <2>2 DEF TypeOK, Drawn
  <2> HIDE DEF b
  <2> QED BY <2>1, <2>2, <2>3, <2>4, Ends
<1> QED BY <1>1, <1>2, <1>3, <1>4, <1>5, <1>6, <1>7

\* The upload's file, new on the disk of a blueprint whose row is locked from now on
LEMMA Uploads ==
  ASSUME IInv, NEW p \in Procs, CheckUpload(p)
  PROVE  Good(p)
<1>0. Relies(p) /\ TypeOK /\ Drawn /\ ReferencedOnDisk /\ req[p] \in Request
  BY DEF IInv, TypeOK
<1> DEFINE b == req[p].b
<1>1. PICK f \in Files \ used, drop \in {{}} \cup {{g} : g \in refs[b]} :
        /\ used' = used \cup {f}
        /\ disk' = [disk EXCEPT ![b] = @ \cup {f}]
        /\ req' = [req EXCEPT ![p].pc = "receive", ![p].file = f, ![p].drop = drop]
  BY DEF CheckUpload
<1>2. /\ At(p, "locked", "upload") /\ rowLock[b] = None /\ b \notin deployed
      /\ rowLock' = [rowLock EXCEPT ![b] = p]
      /\ UNCHANGED <<exists, refs, deployed, advisory, faults>>
  BY DEF CheckUpload, db
<1>3. b \in Blueprints /\ advisory[b] = p
  BY <1>0, <1>2 DEF Relies, At, Inside
<1>4. drop \in SUBSET Files /\ f \notin refs[b]
  BY <1>0, <1>3 DEF TypeOK, Drawn
<1>5. /\ req'[p].pc = "receive" /\ req'[p].op = "upload" /\ req'[p].b = b /\ req'[p].n = req[p].n
      /\ req'[p].keep = req[p].keep /\ req'[p].file = f
      /\ \A q \in Procs \ {p} : req'[q] = req[q]
      /\ req' \in [Procs -> Request]
  <2> DEFINE one == [req EXCEPT ![p].pc = "receive"]
             two == [one EXCEPT ![p].file = f]
  <2>1. req' = [two EXCEPT ![p].drop = drop]
    BY <1>1
  <2>2. /\ one \in [Procs -> Request] /\ one[p].pc = "receive" /\ one[p].op = "upload" /\ one[p].b = b
        /\ one[p].n = req[p].n /\ one[p].keep = req[p].keep /\ \A q \in Procs \ {p} : one[q] = req[q]
    BY <1>0, <1>2 DEF TypeOK, Request, At
  <2> HIDE DEF one, b
  <2>3. /\ two \in [Procs -> Request] /\ two[p].pc = "receive" /\ two[p].op = "upload" /\ two[p].b = b
        /\ two[p].n = req[p].n /\ two[p].keep = req[p].keep /\ two[p].file = f
        /\ \A q \in Procs \ {p} : two[q] = req[q]
    BY <2>2 DEF Request
  <2> HIDE DEF two
  <2> QED BY <1>4, <2>1, <2>3 DEF Request
<1>6. /\ disk' \in [Blueprints -> SUBSET Files] /\ f \in disk'[b]
      /\ \A y \in Blueprints : disk[y] \subseteq disk'[y]
      /\ \A y \in Blueprints \ {b} : disk'[y] = disk[y]
  BY <1>0, <1>1, <1>3 DEF TypeOK
<1>7. /\ rowLock' \in [Blueprints -> Procs \cup {None}] /\ rowLock'[b] = p
      /\ \A q \in Procs, y \in Blueprints : rowLock[y] = q => rowLock'[y] = q
  BY <1>0, <1>2, <1>3, FilesAssumption DEF TypeOK
<1> HIDE DEF b
<1>8. TypeOK'
  BY <1>0, <1>1, <1>2, <1>5, <1>6, <1>7 DEF TypeOK
<1>9. Spares(p)
  BY <1>0, <1>2, <1>3, <1>5, <1>6, <1>7, Apart
<1>10. Relies(p)'
  <2>1. req[p].keep \subseteq used
    BY <1>0 DEF Relies
  <2>2. f \in (used' \cap disk'[b]) \ refs'[b] /\ used \subseteq used'
    BY <1>1, <1>2, <1>4, <1>6
  <2> QED BY <1>2, <1>3, <1>5, <1>7, <2>1, <2>2 DEF Relies, Inside, Uploading
<1>11. Drawn' /\ ReferencedOnDisk' /\ used \subseteq used'
  BY <1>0, <1>1, <1>2, <1>6 DEF Drawn, ReferencedOnDisk
<1> QED BY <1>8, <1>9, <1>10, <1>11 DEF Good

LEMMA Copies ==
  ASSUME IInv, NEW p \in Procs, Copy(p) \/ CopyFails(p)
  PROVE  Good(p)
<1>0. Relies(p) /\ TypeOK /\ Drawn /\ ReferencedOnDisk /\ req[p] \in Request
  BY DEF IInv, TypeOK
<1> DEFINE n == req[p].n
<1>1. /\ req[p].pc = "copy" /\ req[p].op = "duplicate"
      /\ UNCHANGED <<exists, refs, deployed, used>>
  BY DEF Copy, CopyFails, At, db
<1>2. n \in Blueprints /\ advisory[n] = p
  BY <1>0, <1>1 DEF Relies
<1>3. CASE Copy(p)
  <2>1. PICK f \in (req[p].keep \cap disk[req[p].b]) \ disk[n] : disk' = [disk EXCEPT ![n] = @ \cup {f}]
    BY <1>3 DEF Copy
  <2>2. f \in Files
    BY <1>0, <2>1 DEF Request
  <2>3. /\ disk' \in [Blueprints -> SUBSET Files] /\ \A y \in Blueprints : disk[y] \subseteq disk'[y]
        /\ \A y \in Blueprints \ {n} : disk'[y] = disk[y]
    BY <1>0, <1>2, <2>1, <2>2 DEF TypeOK
  <2>4. UNCHANGED <<advisory, rowLock, req, faults>>
    BY <1>3 DEF Copy
  <2> HIDE DEF n
  <2>5. TypeOK' /\ Drawn' /\ ReferencedOnDisk'
    BY <1>0, <1>1, <2>3, <2>4 DEF TypeOK, Drawn, ReferencedOnDisk
  <2>6. Spares(p)
    BY <1>0, <1>1, <1>2, <2>3, <2>4, Apart
  <2>7. Relies(p)'
    BY <1>0, <1>1, <2>4 DEF Relies, Inside
  <2> QED BY <1>1, <2>5, <2>6, <2>7 DEF Good
<1>4. CASE CopyFails(p)
  <2>1. /\ Release(p) /\ disk' = disk
        /\ faults' = faults \/ faults' = faults + 1
        /\ req' = [req EXCEPT ![p].pc = "cleanLock", ![p].b = n]
    BY <1>4 DEF CopyFails, Fault
  <2>2. /\ req'[p].pc = "cleanLock" /\ req'[p].b = n /\ req'[p].n = n /\ req'[p].keep = req[p].keep
        /\ \A q \in Procs \ {p} : req'[q] = req[q]
        /\ req' \in [Procs -> Request]
    <3> DEFINE half == [req EXCEPT ![p].pc = "cleanLock"]
    <3>1. req' = [half EXCEPT ![p].b = n]
      BY <2>1
    <3>2. /\ half \in [Procs -> Request] /\ half[p].pc = "cleanLock" /\ half[p].n = n
          /\ half[p].keep = req[p].keep /\ \A q \in Procs \ {p} : half[q] = req[q]
      BY <1>0 DEF TypeOK, Request
    <3> HIDE DEF half, n
    <3> QED BY <1>2, <3>1, <3>2 DEF Request
  <2> HIDE DEF n
  <2>3. TypeOK'
    BY <1>0, <1>1, <2>1, <2>2, Releases DEF TypeOK
  <2>4. Spares(p)
    BY <1>0, <1>1, <1>2, <2>1, <2>2, Apart, Releases
  <2>5. Relies(p)'
    <3>1. req'[p].keep \subseteq used'
      BY <1>0, <1>1, <2>2 DEF Relies
    <3> QED BY <1>2, <2>2, <3>1, Rests
  <2>6. Drawn' /\ ReferencedOnDisk'
    BY <1>0, <1>1, <2>1 DEF Drawn, ReferencedOnDisk
  <2> QED BY <1>1, <2>3, <2>4, <2>5, <2>6 DEF Good
<1> QED BY <1>3, <1>4

\* A deployment waits for an upload into its blueprint.
LEMMA Deploys ==
  ASSUME IInv, NEW p \in Procs, InsertDeployment(p)
  PROVE  Good(p)
<1>0. Relies(p) /\ TypeOK /\ Drawn /\ ReferencedOnDisk
  BY DEF IInv
<1>1. /\ rowLock[req[p].b] = None /\ Finish(p)
      /\ deployed' = IF req[p].b \in exists THEN deployed \cup {req[p].b} ELSE deployed
      /\ UNCHANGED <<exists, refs, disk, used, advisory, rowLock, faults>>
  BY DEF InsertDeployment
<1>2. TypeOK' /\ Drawn' /\ ReferencedOnDisk'
  BY <1>0, <1>1, Finishes DEF TypeOK, Drawn, ReferencedOnDisk
<1>3. Spares(p)
  BY <1>0, <1>1, Finishes, FilesAssumption DEF Spares
<1>4. Relies(p)'
  <2>1. req'[p] = Idle /\ req'[p].keep \subseteq used'
    BY <1>0, <1>1, Finishes DEF Idle, Asked
  <2> QED BY <2>1, Rests
<1> QED BY <1>1, <1>2, <1>3, <1>4 DEF Good

---------------------------------------------------------------------------
(* The theorems *)

LEMMA Starts ==
  ASSUME Init
  PROVE  IInv
<1>1. Idle \in Request /\ Idle.pc = "idle" /\ Idle.keep = {}
  BY DEF Idle, Asked, Request
<1>2. TypeOK
  BY <1>1 DEF Init, TypeOK
<1>3. ASSUME NEW p \in Procs PROVE Relies(p)
  <2>1. req[p] = Idle
    BY DEF Init
  <2> QED BY <1>1, <2>1 DEF Relies, Inside, Uploading
<1> QED BY <1>2, <1>3 DEF IInv, Init, Drawn, ReferencedOnDisk

LEMMA Keeps ==
  ASSUME IInv, [Next]_vars
  PROVE  IInv'
<1>1. ASSUME NEW p \in Procs, BeginNext(p) \/ Proceed(p)
      PROVE  IInv'
  <2>1. Good(p)
    <3>1. CASE BeginNext(p)
      BY <3>1, Begins
    <3>2. CASE Proceed(p)
      BY <3>2, Advances, Closes, Uploads, Copies, Deploys DEF Proceed
    <3> QED BY <1>1, <3>1, <3>2
  <2>2. ASSUME NEW q \in Procs PROVE Relies(q)'
    BY <2>1, OthersRely DEF Good
  <2> QED BY <2>1, <2>2 DEF Good, IInv
<1>2. CASE RemoveDeployment
  <2>1. PICK x \in deployed : deployed' = deployed \ {x}
    BY <1>2 DEF RemoveDeployment
  <2>2. UNCHANGED <<exists, refs, disk, used, advisory, rowLock, req, faults>>
    BY <1>2 DEF RemoveDeployment
  <2>3. ASSUME NEW p \in Procs PROVE Relies(p)'
    <3>1. Relies(p)
      BY DEF IInv
    <3> QED BY <2>1, <2>2, <3>1 DEF Relies
  <2> QED BY <2>1, <2>2, <2>3 DEF IInv, TypeOK, Drawn, ReferencedOnDisk
<1>3. CASE Crash
  <2>1. /\ req' = [p \in Procs |-> Idle] /\ faults' = faults + 1
        /\ advisory' = [b \in Blueprints |-> None] /\ rowLock' = advisory'
        /\ UNCHANGED <<exists, refs, deployed, disk, used>>
    BY <1>3 DEF Crash, Fault, db
  <2>2. Idle \in Request /\ Idle.keep = {}
    BY DEF Idle, Asked, Request
  <2>3. ASSUME NEW p \in Procs PROVE Relies(p)'
    <3>1. req'[p] = Idle /\ req'[p].keep \subseteq used'
      BY <2>1, <2>2
    <3> QED BY <3>1, Rests
  <2> QED BY <2>1, <2>2, <2>3 DEF IInv, TypeOK, Drawn, ReferencedOnDisk
<1>4. CASE UNCHANGED vars
  BY <1>4 DEF IInv, TypeOK, Relies, Inside, Uploading, Drawn, ReferencedOnDisk, vars
<1> QED BY <1>1, <1>2, <1>3, <1>4 DEF Next

LEMMA Invariant == Spec => []IInv
<1> QED BY Starts, Keeps, PTL DEF Spec

\* Whatever requests, uploads, collections and crashes come together, a file a
\* blueprint references is in its directory.
THEOREM ReferencesHold == Spec => []FilesOnDisk
<1>1. IInv => FilesOnDisk
  BY DEF IInv, FilesOnDisk
<1> QED BY <1>1, Invariant, PTL

\* The upload holds the blueprint's row from its check to its commit: no
\* deployment is created meanwhile, and what it changes is not deployed.
THEOREM UploadsSpare == Spec => UploadsSpareDeployed
<1> DEFINE A == \A p \in Procs :
                  req[p].op = "upload" /\ req[p].pc = "written" /\ req'[p].pc = "cleanLock"
                    => req[p].b \notin deployed
<1>1. IInv => A
  BY DEF IInv, Relies, Uploading
<1>2. IInv => [A]_vars
  BY <1>1
<1> QED BY <1>2, Invariant, PTL DEF UploadsSpareDeployed

===========================================================================
