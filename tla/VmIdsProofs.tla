---------------------------- MODULE VmIdsProofs ----------------------------
(* What VmIds promises about ids and VMs, for every set of labs, every         *)
(* placement of their ranges, every number of workplaces and of retries, and   *)
(* whatever is edited, removed or created by others beside the jobs.           *)
EXTENDS VmIds, TLAPS

\* A VM is in the Terraform workspace of the lab that created it, and in no other.
Owned == \A l \in Labs, i \in Ids : i \in tf[l] <=> owner[i] = l

\* Requests and jobs name ids of the lab's own range.
InReach ==
  \A l \in Labs : /\ req[l].ids \subseteq Reach(l)
                  /\ job[l].ids \subseteq Reach(l)
                  /\ job[l].todo \subseteq Reach(l)

\* Only deploys and redeploys plan and apply, and what an apply still has to
\* remove is the lab's own.
Planned ==
  \A l \in Labs : /\ job[l].pc \in {"plan", "apply"} => job[l].action \in Deploys
                  /\ job[l].pc = "apply" => job[l].remove \subseteq tf[l]

\* The global lock has one holder.
Deploying(l) == job[l].action \in Deploys /\ job[l].pc \notin {"none", "queued"}
OneDeploy == \A k, l \in Labs : Deploying(k) /\ Deploying(l) => k = l

\* A destroy cleans up after its state is empty.
Emptied ==
  \A l \in Labs : job[l].pc = "clean" /\ job[l].action # "redeploy" => tf[l] = {}

\* A lab with a job is busy, unless its row was taken away from under it.
AtRest == \A l \in Labs : job[l].pc = "none" \/ row[l] \in {"busy", "gone"}

\* The inductive invariant
IInv == /\ LabsNeverCollide /\ RestIsReal
        /\ Owned /\ InReach /\ Planned /\ OneDeploy /\ Emptied /\ AtRest

---------------------------------------------------------------------------
(* Values *)

\* A request names ids of its lab's range only, whatever the classroom is.
LEMMA PayloadInReach ==
  ASSUME stations \in 1 .. MaxStations, NEW l \in Labs
  PROVE  /\ Payload(l) \subseteq Reach(l)
         /\ Reach(l) \subseteq Ids
  BY VmIdsAssumption DEF Payload, Reach, Ids

\* How a job goes on: r is what it becomes.
Keeps(l, r) == r.action = job[l].action /\ r.ids = job[l].ids
Turn(l, r) ==
  \/ r = NoJob
  \/ r.pc = "queued" /\ r.ids = req[l].ids /\ r.todo = {} /\ row'[l] = "busy"
  \/ /\ job[l].pc = "queued" /\ r.pc = FirstStep(l) /\ Keeps(l, r)
     /\ r.todo \subseteq job[l].ids
     /\ job[l].action \in Deploys => DeployFree(l)
  \/ /\ job[l].pc = "plan" /\ r.pc = "apply" /\ Keeps(l, r) /\ r.todo = job[l].todo
     /\ Conflicts(l) = {} /\ r.create = Created(l) /\ r.remove = Removed(l)
  \/ /\ r.pc = "plan" /\ Keeps(l, r) /\ r.todo = job[l].todo
     /\ job[l].pc = "apply" \/ (job[l].pc = "clean" /\ job[l].action = "redeploy")
  \/ /\ job[l].pc = "destroy" /\ r.pc = "clean" /\ Keeps(l, r) /\ r.todo = job[l].todo
     /\ tf[l] = {}
  \/ /\ job[l].pc \in {"clean", "power"} /\ r.pc = job[l].pc /\ Keeps(l, r)
     /\ r.todo \subseteq job[l].todo
  \/ /\ job[l].pc = "apply" /\ r.pc = "apply" /\ Keeps(l, r) /\ r.todo = job[l].todo
     /\ \E i \in Ids :
          \/ ApplyRemove(l, i) /\ r.create = job[l].create /\ r.remove = job[l].remove \ {i}
          \/ ApplyCreate(l, i) /\ r.create = job[l].create \ {i} /\ r.remove = job[l].remove

\* One lab's job moves in a step, if any.
Moves(l) == \E r \in Jobs : job' = [job EXCEPT ![l] = r] /\ Turn(l, r)

LEMMA NoJobIsJob ==
  NoJob \in Jobs /\ NoJob.pc = "none" /\ NoJob.ids = {} /\ NoJob.todo = {}
  BY VmIdsAssumption DEF NoJob, Jobs

LEMMA EndMoves ==
  ASSUME NEW l \in Labs, job' = [job EXCEPT ![l] = NoJob]
  PROVE  Moves(l)
  BY NoJobIsJob DEF Moves, Turn

\* A request becomes a job.
LEMMA ClaimMoves ==
  ASSUME TypeOK, NEW l \in Labs, Claim(l)
  PROVE  UNCHANGED job \/ Moves(l)
<1>1. CASE row[l] \in {"busy"} \cup NoRow
  BY <1>1 DEF Claim, NoRow
<1>2. CASE row[l] \notin {"busy"} \cup NoRow
  <2> DEFINE r == [NoJob EXCEPT !.pc = "queued", !.action = req[l].action,
                                !.ids = req[l].ids, !.scope = req[l].scope]
  <2>1. req[l] \in Reqs
    BY DEF TypeOK
  <2>2. r \in Jobs
    BY <2>1, NoJobIsJob DEF Reqs, Jobs
  <2>3. r.pc = "queued" /\ r.ids = req[l].ids /\ r.todo = {}
    BY NoJobIsJob DEF Jobs
  <2>4. job' = [job EXCEPT ![l] = r] /\ row' = [row EXCEPT ![l] = "busy"]
    BY <1>2 DEF Claim
  <2>5. row'[l] = "busy"
    BY <2>4 DEF TypeOK
  <2> HIDE DEF r
  <2> QED
    BY <2>2, <2>3, <2>4, <2>5 DEF Moves, Turn
<1> QED
  BY <1>1, <1>2

\* A job gets its locks.
LEMMA TakeMoves ==
  ASSUME TypeOK, NEW l \in Labs, Take(l)
  PROVE  Moves(l)
<1> DEFINE powers == job[l].action \in {"start", "stop"}
           existing == {i \in job[l].ids : Exists(i)}
           r == [job[l] EXCEPT !.pc = FirstStep(l), !.todo = IF powers THEN existing ELSE {},
                               !.clean = IF powers THEN {} ELSE job[l].scope]
<1>1. job \in [Labs -> Jobs] /\ job[l] \in Jobs
  BY DEF TypeOK
<1>2. FirstStep(l) \in {"plan", "clean", "destroy", "refused", "power"}
  BY DEF FirstStep
<1>3. r \in Jobs
  BY <1>1, <1>2 DEF Jobs
<1>4. r.pc = FirstStep(l) /\ r.action = job[l].action /\ r.ids = job[l].ids
      /\ r.todo \subseteq job[l].ids
  BY <1>1 DEF Jobs
<1>5. job' = [job EXCEPT ![l] = r]
  BY <1>1 DEF Take
<1>6. job[l].pc = "queued" /\ (job[l].action \in Deploys => DeployFree(l))
  BY DEF Take
<1> HIDE DEF r
<1> QED
  BY <1>3, <1>4, <1>5, <1>6 DEF Moves, Turn, Keeps

\* What a deploy plans is of its range or of its state.
LEMMA PlanMoves ==
  ASSUME TypeOK, NEW l \in Labs, Plan(l)
  PROVE  Moves(l)
<1> DEFINE r == [job[l] EXCEPT !.pc = "apply", !.create = Created(l), !.remove = Removed(l)]
<1>1. job \in [Labs -> Jobs] /\ job[l] \in Jobs /\ tf[l] \in SUBSET Ids
  BY DEF TypeOK
<1>2. Created(l) \in SUBSET Ids /\ Removed(l) \in SUBSET Ids
  BY <1>1 DEF Created, Removed, Replaced, Jobs
<1>3. r \in Jobs
  BY <1>1, <1>2 DEF Jobs
<1>4. /\ r.pc = "apply" /\ r.action = job[l].action /\ r.ids = job[l].ids
      /\ r.todo = job[l].todo /\ r.create = Created(l) /\ r.remove = Removed(l)
  BY <1>1 DEF Jobs
<1>5. job' = [job EXCEPT ![l] = r]
  BY <1>1 DEF Plan
<1>6. job[l].pc = "plan" /\ Conflicts(l) = {}
  BY DEF Plan
<1> HIDE DEF r
<1> QED
  BY <1>3, <1>4, <1>5, <1>6 DEF Moves, Turn, Keeps

LEMMA RetryMoves ==
  ASSUME TypeOK, NEW l \in Labs, Retry(l)
  PROVE  Moves(l)
<1>1. PICK hit \in SUBSET job[l].create \ {{}} :
        job' = [job EXCEPT ![l].pc = "plan", ![l].tries = @ + 1, ![l].scope = hit,
                           ![l].create = {}, ![l].remove = {}]
  BY DEF Retry
<1> DEFINE r == [job[l] EXCEPT !.pc = "plan", !.tries = @ + 1, !.scope = hit,
                               !.create = {}, !.remove = {}]
<1>2. job \in [Labs -> Jobs] /\ job[l] \in Jobs
  BY DEF TypeOK
<1>3. hit \in SUBSET Ids /\ job[l].tries + 1 \in 0 .. Retries
  BY <1>2, VmIdsAssumption DEF Jobs, Retry, MayRetry
<1>4. r \in Jobs
  BY <1>2, <1>3 DEF Jobs
<1>5. r.pc = "plan" /\ r.action = job[l].action /\ r.ids = job[l].ids /\ r.todo = job[l].todo
  BY <1>2 DEF Jobs
<1>6. job' = [job EXCEPT ![l] = r]
  BY <1>1, <1>2
<1>7. job[l].pc = "apply"
  BY DEF Retry
<1> HIDE DEF r
<1> QED
  BY <1>4, <1>5, <1>6, <1>7 DEF Moves, Turn, Keeps

\* The clean-up ends a destroy, or lets the redeploy go on.
LEMMA CleanMoves ==
  ASSUME TypeOK, NEW l \in Labs, Cleaned(l)
  PROVE  Moves(l)
<1>1. CASE job[l].action = "redeploy"
  <2> DEFINE r == [job[l] EXCEPT !.pc = "plan", !.clean = {}, !.hold = {}]
  <2>1. job \in [Labs -> Jobs] /\ job[l] \in Jobs
    BY DEF TypeOK
  <2>2. r \in Jobs
    BY <2>1 DEF Jobs
  <2>3. r.pc = "plan" /\ r.action = job[l].action /\ r.ids = job[l].ids /\ r.todo = job[l].todo
    BY <2>1 DEF Jobs
  <2>4. job' = [job EXCEPT ![l] = r]
    BY <1>1, <2>1 DEF Cleaned
  <2>5. job[l].pc = "clean"
    BY DEF Cleaned
  <2> HIDE DEF r
  <2> QED
    BY <1>1, <2>2, <2>3, <2>4, <2>5 DEF Moves, Turn, Keeps
<1>2. CASE job[l].action # "redeploy"
  BY <1>2, EndMoves DEF Cleaned, End
<1> QED
  BY <1>1, <1>2

LEMMA DestroyedMoves ==
  ASSUME TypeOK, NEW l \in Labs, Destroyed(l)
  PROVE  Moves(l)
<1> DEFINE r == [job[l] EXCEPT !.pc = "clean"]
<1>1. job \in [Labs -> Jobs] /\ job[l] \in Jobs
  BY DEF TypeOK
<1>2. r \in Jobs
  BY <1>1 DEF Jobs
<1>3. r.pc = "clean" /\ r.action = job[l].action /\ r.ids = job[l].ids /\ r.todo = job[l].todo
  BY <1>1 DEF Jobs
<1>4. job' = [job EXCEPT ![l] = r]
  BY <1>1 DEF Destroyed
<1>5. job[l].pc = "destroy" /\ tf[l] = {}
  BY DEF Destroyed, DestroyIds
<1> HIDE DEF r
<1> QED
  BY <1>2, <1>3, <1>4, <1>5 DEF Moves, Turn, Keeps

\* The clean-up and the power requests go on to the next VM.
LEMMA WorkMoves ==
  ASSUME TypeOK, NEW l \in Labs, NEW i \in Ids,
         CheckAbsent(l, i) \/ DeleteVolumes(l, i) \/ PowerVm(l, i)
  PROVE  Moves(l)
<1>1. job \in [Labs -> Jobs] /\ job[l] \in Jobs
  BY DEF TypeOK
<1>2. CASE CheckAbsent(l, i)
  <2> DEFINE r == [job[l] EXCEPT !.clean = @ \ {i}, !.hold = IF Exists(i) THEN @ ELSE @ \cup {i}]
  <2>1. r \in Jobs
    BY <1>1 DEF Jobs
  <2>2. r.pc = job[l].pc /\ r.action = job[l].action /\ r.ids = job[l].ids /\ r.todo = job[l].todo
    BY <1>1 DEF Jobs
  <2>3. job' = [job EXCEPT ![l] = r] /\ job[l].pc = "clean"
    BY <1>1, <1>2 DEF CheckAbsent
  <2> HIDE DEF r
  <2> QED
    BY <2>1, <2>2, <2>3 DEF Moves, Turn, Keeps
<1>3. CASE DeleteVolumes(l, i)
  <2> DEFINE r == [job[l] EXCEPT !.hold = @ \ {i}]
  <2>1. r \in Jobs
    BY <1>1 DEF Jobs
  <2>2. r.pc = job[l].pc /\ r.action = job[l].action /\ r.ids = job[l].ids /\ r.todo = job[l].todo
    BY <1>1 DEF Jobs
  <2>3. job' = [job EXCEPT ![l] = r] /\ job[l].pc = "clean"
    BY <1>1, <1>3 DEF DeleteVolumes
  <2> HIDE DEF r
  <2> QED
    BY <2>1, <2>2, <2>3 DEF Moves, Turn, Keeps
<1>4. CASE PowerVm(l, i)
  <2> DEFINE r == [job[l] EXCEPT !.todo = @ \ {i}]
  <2>1. r \in Jobs
    BY <1>1 DEF Jobs
  <2>2. r.pc = job[l].pc /\ r.action = job[l].action /\ r.ids = job[l].ids
        /\ r.todo \subseteq job[l].todo
    BY <1>1 DEF Jobs
  <2>3. job' = [job EXCEPT ![l] = r] /\ job[l].pc = "power"
    BY <1>1, <1>4 DEF PowerVm
  <2> HIDE DEF r
  <2> QED
    BY <2>1, <2>2, <2>3 DEF Moves, Turn, Keeps
<1> QED
  BY <1>2, <1>3, <1>4

\* An apply goes on to the next VM.
LEMMA ApplyMoves ==
  ASSUME TypeOK, NEW l \in Labs, NEW i \in Ids, ApplyRemove(l, i) \/ ApplyCreate(l, i)
  PROVE  Moves(l)
<1>1. job \in [Labs -> Jobs] /\ job[l] \in Jobs
  BY DEF TypeOK
<1>2. CASE ApplyRemove(l, i)
  <2> DEFINE r == [job[l] EXCEPT !.remove = @ \ {i}]
  <2>1. r \in Jobs
    BY <1>1 DEF Jobs
  <2>2. /\ r.pc = job[l].pc /\ r.action = job[l].action /\ r.ids = job[l].ids
        /\ r.todo = job[l].todo /\ r.create = job[l].create /\ r.remove = job[l].remove \ {i}
    BY <1>1 DEF Jobs
  <2>3. job' = [job EXCEPT ![l] = r] /\ job[l].pc = "apply"
    BY <1>1, <1>2 DEF ApplyRemove
  <2> HIDE DEF r
  <2> QED
    BY <1>2, <2>1, <2>2, <2>3 DEF Moves, Turn, Keeps
<1>3. CASE ApplyCreate(l, i)
  <2> DEFINE r == [job[l] EXCEPT !.create = @ \ {i}]
  <2>1. r \in Jobs
    BY <1>1 DEF Jobs
  <2>2. /\ r.pc = job[l].pc /\ r.action = job[l].action /\ r.ids = job[l].ids
        /\ r.todo = job[l].todo /\ r.create = job[l].create \ {i} /\ r.remove = job[l].remove
    BY <1>1 DEF Jobs
  <2>3. job' = [job EXCEPT ![l] = r] /\ job[l].pc = "apply"
    BY <1>1, <1>3 DEF ApplyCreate
  <2> HIDE DEF r
  <2> QED
    BY <1>3, <2>1, <2>2, <2>3 DEF Moves, Turn, Keeps
<1> QED
  BY <1>2, <1>3

\* The steps that take a job further.
JobSteps(l) ==
  \/ Claim(l) \/ Skip(l) \/ Take(l) \/ Fail(l) \/ Plan(l) \/ Retry(l) \/ Applied(l)
  \/ Destroyed(l) \/ Cleaned(l) \/ Started(l) \/ Stopped(l) \/ StoppedBlind(l) \/ GiveUp(l)
  \/ \E i \in Ids : \/ ApplyRemove(l, i) \/ ApplyCreate(l, i)
                    \/ CheckAbsent(l, i) \/ DeleteVolumes(l, i) \/ PowerVm(l, i)

LEMMA JobMoves ==
  ASSUME TypeOK, [Next]_vars
  PROVE  UNCHANGED job \/ \E l \in Labs : Moves(l)
<1>1. ASSUME NEW l \in Labs, JobSteps(l)
      PROVE  UNCHANGED job \/ Moves(l)
  <2>1. CASE Skip(l) \/ Fail(l) \/ Applied(l) \/ Started(l) \/ Stopped(l) \/ StoppedBlind(l) \/ GiveUp(l)
    <3>1. job' = [job EXCEPT ![l] = NoJob]
      BY <2>1 DEF Skip, Fail, Applied, Started, Stopped, StoppedBlind, GiveUp, End
    <3> QED
      BY <3>1, EndMoves
  <2> QED
    BY <1>1, <2>1, ClaimMoves, TakeMoves, PlanMoves, RetryMoves, CleanMoves, DestroyedMoves,
       WorkMoves, ApplyMoves DEF JobSteps
<1>2. (\E l \in Labs : JobSteps(l)) \/ UNCHANGED job
  <2>1. CASE UNCHANGED vars
    BY <2>1 DEF vars
  <2>2. ASSUME NEW l \in Labs, NEW a \in Actions, Ask(l, a)
        PROVE  UNCHANGED job
    BY <2>2 DEF Ask
  <2>3. ASSUME NEW l \in Labs, Refresh(l) \/ DeleteRow(l)
        PROVE  UNCHANGED job
    BY <2>3 DEF Refresh, DeleteRow
  <2>4. ASSUME NEW l \in Labs, NEW i \in Ids, Destroy(l, i)
        PROVE  UNCHANGED job
    BY <2>4 DEF Destroy
  <2>5. ASSUME NEW n \in 1 .. MaxStations, EditClassroom(n)
        PROVE  UNCHANGED job
    BY <2>5 DEF EditClassroom
  <2>6. ASSUME DeleteClassroom
        PROVE  UNCHANGED job
    BY <2>6 DEF DeleteClassroom
  <2>7. ASSUME NEW i \in Ids, ShutDown(i) \/ OtherCreates(i) \/ OtherRemoves(i)
        PROVE  UNCHANGED job
    BY <2>7 DEF ShutDown, OtherCreates, OtherRemoves
  <2> QED
    BY <2>1, <2>2, <2>3, <2>4, <2>5, <2>6, <2>7 DEF Next, JobSteps
<1> QED
  BY <1>1, <1>2

---------------------------------------------------------------------------
(* What the steps leave alone *)

LEMMA RequestFrames ==
  ASSUME NEW l \in Labs
  PROVE  /\ \A a \in Actions : Ask(l, a) =>
              UNCHANGED <<stations, owner, power, disk, tf, row, job, halted>>
         /\ Claim(l) => UNCHANGED <<stations, owner, power, disk, tf>>
         /\ Refresh(l) \/ DeleteRow(l) => UNCHANGED <<stations, owner, power, disk, tf, req, job>>
  BY DEF Ask, Claim, Refresh, DeleteRow, proxmox

LEMMA JobFrames ==
  ASSUME NEW l \in Labs
  PROVE  /\ Skip(l) \/ Take(l) \/ Plan(l) \/ Retry(l) \/ Destroyed(l) \/ GiveUp(l) =>
              UNCHANGED <<stations, owner, power, disk, tf, row, req, halted>>
         /\ Fail(l) => End(l, "failed")
         /\ Applied(l) \/ Started(l) => End(l, "running")
         /\ Cleaned(l) => IF job[l].action = "redeploy" THEN UNCHANGED row ELSE End(l, "removed")
         /\ Fail(l) \/ Applied(l) \/ Started(l) \/ Cleaned(l) => UNCHANGED halted
         /\ Fail(l) \/ Applied(l) \/ Started(l) \/ Cleaned(l) \/ Stopped(l) \/ StoppedBlind(l) =>
              UNCHANGED <<stations, owner, power, disk, tf, req>>
  BY DEF Skip, Take, Plan, Retry, Destroyed, GiveUp, Fail, Applied, Started, Cleaned, Stopped,
     StoppedBlind, proxmox

LEMMA VmFrames ==
  ASSUME NEW l \in Labs, NEW i \in Ids
  PROVE  /\ ApplyRemove(l, i) \/ ApplyCreate(l, i) \/ Destroy(l, i) \/ CheckAbsent(l, i)
              \/ DeleteVolumes(l, i) \/ PowerVm(l, i) => UNCHANGED <<stations, row, req, halted>>
         /\ CheckAbsent(l, i) => UNCHANGED <<owner, power, disk, tf>>
         /\ DeleteVolumes(l, i) => UNCHANGED <<owner, power, tf>>
         /\ PowerVm(l, i) => UNCHANGED <<owner, disk, tf>>
         /\ Destroy(l, i) => UNCHANGED job
  BY DEF ApplyRemove, ApplyCreate, Destroy, CheckAbsent, DeleteVolumes, PowerVm, proxmox

LEMMA OutsideFrames ==
  /\ \A n \in 1 .. MaxStations : EditClassroom(n) =>
       stations' = n /\ UNCHANGED <<owner, power, disk, tf, row, req, job, halted>>
  /\ DeleteClassroom => UNCHANGED <<stations, owner, power, disk, tf, req, job, halted>>
  /\ \A i \in Ids : OtherCreates(i) \/ OtherRemoves(i) =>
       UNCHANGED <<stations, tf, row, req, job, halted>>
  /\ \A i \in Ids : ShutDown(i) =>
       UNCHANGED <<stations, owner, disk, tf, row, req, job, halted>>
  BY DEF EditClassroom, DeleteClassroom, OtherCreates, OtherRemoves, ShutDown, proxmox

---------------------------------------------------------------------------
(* Types *)

LEMMA ReqTypes ==
  ASSUME TypeOK, [Next]_vars
  PROVE  req' \in [Labs -> Reqs]
<1>1. ASSUME NEW l \in Labs, NEW a \in Actions, Ask(l, a)
      PROVE  req' \in [Labs -> Reqs]
  <2>1. PICK s \in IF a = "redeploy" THEN {{i} : i \in Payload(l)} ELSE {Payload(l)} :
          req' = [req EXCEPT ![l] = [action |-> a, ids |-> Payload(l), scope |-> s]]
    BY <1>1 DEF Ask
  <2>2. Payload(l) \subseteq Ids /\ s \subseteq Ids
    BY PayloadInReach DEF TypeOK
  <2> QED
    BY <2>1, <2>2 DEF Reqs, TypeOK
<1>2. ASSUME NEW l \in Labs, Claim(l)
      PROVE  req' \in [Labs -> Reqs]
  BY <1>2 DEF Claim, TypeOK, NoReq, Reqs
<1>3. UNCHANGED req \/ (\E l \in Labs, a \in Actions : Ask(l, a)) \/ \E l \in Labs : Claim(l)
  BY RequestFrames, JobFrames, VmFrames, OutsideFrames DEF Next, vars, proxmox
<1> QED
  BY <1>1, <1>2, <1>3 DEF TypeOK

\* The steps that change whose a VM is, and what is in the workspaces
LEMMA OwnersMove ==
  ASSUME [Next]_vars
  PROVE  \/ UNCHANGED <<owner, tf>>
         \/ \E l \in Labs, i \in Ids : ApplyRemove(l, i) \/ ApplyCreate(l, i) \/ Destroy(l, i)
         \/ \E i \in Ids : OtherCreates(i) \/ OtherRemoves(i)
  BY RequestFrames, JobFrames, VmFrames, OutsideFrames DEF Next, vars, proxmox

LEMMA ProxmoxTypes ==
  ASSUME TypeOK, [Next]_vars
  PROVE  /\ owner' \in [Ids -> Labs \cup {None, "other"}]
         /\ power' \in [Ids -> {"on", "stopping", "off"}]
         /\ disk' \in [Ids -> {"none", "live", "stray"}]
         /\ tf' \in [Labs -> SUBSET Ids]
<1>1. ASSUME NEW l \in Labs, NEW i \in Ids, ApplyRemove(l, i) \/ Destroy(l, i)
      PROVE  RemoveVm(l, i)
  BY <1>1 DEF ApplyRemove, Destroy
<1>2. ASSUME NEW l \in Labs, NEW i \in Ids, RemoveVm(l, i)
      PROVE  /\ owner' \in [Ids -> Labs \cup {None, "other"}]
             /\ power' \in [Ids -> {"on", "stopping", "off"}]
             /\ disk' \in [Ids -> {"none", "live", "stray"}]
             /\ tf' \in [Labs -> SUBSET Ids]
  BY <1>2 DEF RemoveVm, TypeOK
<1>3. ASSUME NEW l \in Labs, NEW i \in Ids, ApplyCreate(l, i) \/ OtherCreates(i) \/ OtherRemoves(i)
      PROVE  /\ owner' \in [Ids -> Labs \cup {None, "other"}]
             /\ power' \in [Ids -> {"on", "stopping", "off"}]
             /\ disk' \in [Ids -> {"none", "live", "stray"}]
             /\ tf' \in [Labs -> SUBSET Ids]
  BY <1>3 DEF ApplyCreate, OtherCreates, OtherRemoves, TypeOK
<1>4. ASSUME NEW i \in Ids
      PROVE  \E l \in Labs : TRUE
  BY <1>4 DEF Ids
<1>5. ASSUME NEW l \in Labs, NEW i \in Ids, PowerVm(l, i) \/ DeleteVolumes(l, i) \/ ShutDown(i)
      PROVE  /\ power' \in [Ids -> {"on", "stopping", "off"}]
             /\ disk' \in [Ids -> {"none", "live", "stray"}]
             /\ UNCHANGED <<owner, tf>>
  BY <1>5 DEF PowerVm, DeleteVolumes, ShutDown, TypeOK
<1>6. \/ UNCHANGED <<owner, power, disk, tf>>
      \/ \E l \in Labs, i \in Ids :
           \/ ApplyRemove(l, i) \/ Destroy(l, i) \/ ApplyCreate(l, i)
           \/ PowerVm(l, i) \/ DeleteVolumes(l, i)
      \/ \E i \in Ids : OtherCreates(i) \/ OtherRemoves(i) \/ ShutDown(i)
  BY RequestFrames, JobFrames, VmFrames, OutsideFrames DEF Next, vars, proxmox
<1> QED
  BY <1>1, <1>2, <1>3, <1>4, <1>5, <1>6 DEF TypeOK

\* The steps that write a row
LEMMA RowsMove ==
  ASSUME [Next]_vars
  PROVE  \/ UNCHANGED <<row, halted>>
         \/ DeleteClassroom
         \/ \E l \in Labs : Claim(l) \/ Refresh(l) \/ DeleteRow(l) \/ Stopped(l) \/ StoppedBlind(l)
         \/ \E l \in Labs, s \in {"failed", "running", "removed"} :
              End(l, s) /\ UNCHANGED halted /\ (s = "removed" => Cleaned(l) /\ job[l].action # "redeploy")
  BY RequestFrames, JobFrames, VmFrames, OutsideFrames DEF Next, vars, proxmox

LEMMA RowTypes ==
  ASSUME TypeOK, [Next]_vars
  PROVE  row' \in [Labs -> Statuses] /\ halted' \in [Labs -> SUBSET Ids]
<1>1. CASE UNCHANGED <<row, halted>>
  BY <1>1 DEF TypeOK
<1>2. CASE DeleteClassroom
  BY <1>2 DEF DeleteClassroom, TypeOK, Statuses, NoRow
<1>3. ASSUME NEW l \in Labs, Claim(l)
      PROVE  row' \in [Labs -> Statuses] /\ halted' \in [Labs -> SUBSET Ids]
  BY <1>3 DEF Claim, TypeOK, Statuses
<1>4. ASSUME NEW l \in Labs, Refresh(l)
      PROVE  row' \in [Labs -> Statuses] /\ halted' \in [Labs -> SUBSET Ids]
  <2>1. row[l] \in Statuses /\ Payload(l) \subseteq Ids
    BY PayloadInReach DEF TypeOK
  <2>2. Derived(l, row[l]) \in Statuses
    BY <2>1 DEF Derived, Statuses
  <2> QED
    BY <1>4, <2>1, <2>2 DEF Refresh, TypeOK
<1>5. ASSUME NEW l \in Labs, DeleteRow(l)
      PROVE  row' \in [Labs -> Statuses] /\ halted' \in [Labs -> SUBSET Ids]
  BY <1>5 DEF DeleteRow, TypeOK, Statuses, NoRow
<1>6. ASSUME NEW l \in Labs, Stopped(l) \/ StoppedBlind(l)
      PROVE  row' \in [Labs -> Statuses] /\ halted' \in [Labs -> SUBSET Ids]
  <2>1. job[l].ids \in SUBSET Ids
    BY DEF TypeOK, Jobs
  <2> QED
    BY <1>6, <2>1 DEF Stopped, StoppedBlind, End, TypeOK, Statuses
<1>7. ASSUME NEW l \in Labs, NEW s \in {"failed", "running", "removed"}, End(l, s), UNCHANGED halted
      PROVE  row' \in [Labs -> Statuses] /\ halted' \in [Labs -> SUBSET Ids]
  BY <1>7 DEF End, TypeOK, Statuses, NoRow
<1> QED
  BY <1>1, <1>2, <1>3, <1>4, <1>5, <1>6, <1>7, RowsMove

LEMMA JobTypes ==
  ASSUME TypeOK, [Next]_vars
  PROVE  job' \in [Labs -> Jobs]
  BY JobMoves DEF Moves, TypeOK

LEMMA TypeStep ==
  ASSUME TypeOK, [Next]_vars
  PROVE  TypeOK'
<1>1. stations' \in 1 .. MaxStations
  BY RequestFrames, JobFrames, VmFrames, OutsideFrames DEF TypeOK, Next, vars, proxmox
<1> QED
  BY <1>1, ReqTypes, ProxmoxTypes, RowTypes, JobTypes DEF TypeOK, Reqs, Jobs

---------------------------------------------------------------------------
(* Whose the VMs are *)

\* What a job removes is its own lab's.
LEMMA RemovesOwn ==
  ASSUME IInv, NEW l \in Labs, NEW i \in Ids, ApplyRemove(l, i) \/ Destroy(l, i)
  PROVE  i \in tf[l] /\ owner[i] = l /\ RemoveVm(l, i) /\ job[l].pc \in {"apply", "destroy"}
  BY DEF IInv, Planned, Owned, ApplyRemove, Destroy, DestroyIds

LEMMA OwnedStep ==
  ASSUME IInv, [Next]_vars
  PROVE  Owned'
<1>1. TypeOK /\ Owned
  BY DEF IInv, LabsNeverCollide
<1>2. CASE UNCHANGED <<owner, tf>>
  BY <1>1, <1>2 DEF Owned
<1>3. ASSUME NEW l \in Labs, NEW i \in Ids, ApplyRemove(l, i) \/ Destroy(l, i)
      PROVE  Owned'
  <2>1. i \in tf[l] /\ owner[i] = l /\ RemoveVm(l, i)
    BY <1>3, RemovesOwn
  <2> QED
    BY <1>1, <2>1, VmIdsAssumption DEF RemoveVm, Owned, TypeOK
<1>4. ASSUME NEW l \in Labs, NEW i \in Ids, ApplyCreate(l, i)
      PROVE  Owned'
  BY <1>1, <1>4, VmIdsAssumption DEF ApplyCreate, Exists, Owned, TypeOK
<1>5. ASSUME NEW i \in Ids, OtherCreates(i) \/ OtherRemoves(i)
      PROVE  Owned'
  BY <1>1, <1>5, VmIdsAssumption DEF OtherCreates, OtherRemoves, Exists, Owned, TypeOK
<1> QED
  BY <1>2, <1>3, <1>4, <1>5, OwnersMove

\* The workspace of a lab changes only while its own job applies or destroys.
LEMMA WorkspacesStay ==
  ASSUME IInv, [Next]_vars, NEW l \in Labs, job[l].pc \notin {"apply", "destroy"}
  PROVE  tf'[l] = tf[l]
<1>1. ASSUME NEW k \in Labs, NEW i \in Ids, ApplyRemove(k, i) \/ ApplyCreate(k, i) \/ Destroy(k, i)
      PROVE  tf'[l] = tf[l]
  <2>1. k # l
    BY <1>1 DEF ApplyRemove, ApplyCreate, Destroy
  <2> QED
    BY <1>1, <2>1 DEF ApplyRemove, ApplyCreate, Destroy, RemoveVm, IInv, LabsNeverCollide, TypeOK
<1> QED
  BY <1>1, OwnersMove, OutsideFrames

---------------------------------------------------------------------------
(* The jobs *)

\* In a step the jobs of the other labs stay.
LEMMA OthersStay ==
  ASSUME TypeOK, NEW l \in Labs, Moves(l)
  PROVE  /\ Turn(l, job'[l])
         /\ \A k \in Labs \ {l} : job'[k] = job[k]
  BY DEF Moves, TypeOK

LEMMA ReachStep ==
  ASSUME IInv, [Next]_vars
  PROVE  InReach'
<1>1. TypeOK /\ InReach
  BY DEF IInv, LabsNeverCollide
<1>2. ASSUME NEW l \in Labs
      PROVE  req'[l].ids \subseteq Reach(l)
  <2>1. ASSUME NEW k \in Labs, NEW a \in Actions, Ask(k, a)
        PROVE  req'[l].ids \subseteq Reach(l)
    <3>1. PICK s \in IF a = "redeploy" THEN {{i} : i \in Payload(k)} ELSE {Payload(k)} :
            req' = [req EXCEPT ![k] = [action |-> a, ids |-> Payload(k), scope |-> s]]
      BY <2>1 DEF Ask
    <3> QED
      BY <1>1, <3>1, PayloadInReach DEF TypeOK, InReach
  <2>2. ASSUME NEW k \in Labs, Claim(k)
        PROVE  req'[l].ids \subseteq Reach(l)
    BY <1>1, <2>2 DEF Claim, NoReq, TypeOK, InReach
  <2>3. UNCHANGED req \/ (\E k \in Labs, a \in Actions : Ask(k, a)) \/ \E k \in Labs : Claim(k)
    BY RequestFrames, JobFrames, VmFrames, OutsideFrames DEF Next, vars, proxmox
  <2> QED
    BY <1>1, <2>1, <2>2, <2>3 DEF InReach
<1>3. ASSUME NEW l \in Labs
      PROVE  job'[l].ids \subseteq Reach(l) /\ job'[l].todo \subseteq Reach(l)
  <2>1. CASE job'[l] = job[l]
    BY <1>1, <2>1 DEF InReach
  <2>2. CASE Turn(l, job'[l])
    BY <1>1, <2>2, NoJobIsJob DEF Turn, Keeps, InReach
  <2> QED
    BY <1>1, <2>1, <2>2, JobMoves, OthersStay
<1> QED
  BY <1>2, <1>3 DEF InReach

\* What an apply is to remove is in its workspace.
LEMMA RemovedIsOwn ==
  ASSUME TypeOK, NEW l \in Labs
  PROVE  Removed(l) \subseteq tf[l]
  BY DEF Removed, Replaced

LEMMA PlannedStep ==
  ASSUME IInv, [Next]_vars
  PROVE  Planned'
<1>1. TypeOK /\ Planned
  BY DEF IInv, LabsNeverCollide
<1> SUFFICES ASSUME NEW l \in Labs
             PROVE  /\ job'[l].pc \in {"plan", "apply"} => job'[l].action \in Deploys
                    /\ job'[l].pc = "apply" => job'[l].remove \subseteq tf'[l]
  BY DEF Planned
<1>2. CASE job'[l] = job[l] /\ tf'[l] = tf[l]
  BY <1>1, <1>2 DEF Planned
<1>3. CASE job'[l] = job[l] /\ tf'[l] # tf[l]
  <2>1. job[l].pc # "apply"
    <3>1. PICK k \in Labs, i \in Ids : ApplyRemove(k, i) \/ ApplyCreate(k, i) \/ Destroy(k, i)
      BY <1>3, OwnersMove, OutsideFrames
    <3>2. k = l
      BY <1>1, <1>3, <3>1 DEF ApplyRemove, ApplyCreate, Destroy, RemoveVm, TypeOK
    <3>3. CASE Destroy(k, i)
      BY <3>2, <3>3 DEF Destroy
    <3>4. CASE ApplyRemove(k, i)
      <4>1. job'[l].remove = job[l].remove \ {i} /\ i \in job[l].remove
        BY <1>1, <3>2, <3>4 DEF ApplyRemove, TypeOK, Jobs
      <4> QED
        BY <1>3, <4>1
    <3>5. CASE ApplyCreate(k, i)
      <4>1. job'[l].create = job[l].create \ {i} /\ i \in job[l].create
        BY <1>1, <3>2, <3>5 DEF ApplyCreate, TypeOK, Jobs
      <4> QED
        BY <1>3, <4>1
    <3> QED
      BY <3>1, <3>3, <3>4, <3>5
  <2> QED
    BY <1>1, <1>3, <2>1 DEF Planned
<1>4. CASE Turn(l, job'[l])
  <2>1. CASE job'[l].pc = "plan"
    BY <1>1, <1>4, <2>1, NoJobIsJob DEF Turn, Keeps, FirstStep, Planned, Deploys
  <2>2. CASE job'[l].pc = "apply" /\ job[l].pc = "plan"
    <3>1. job'[l].remove = Removed(l) /\ Keeps(l, job'[l])
      BY <1>4, <2>2, NoJobIsJob DEF Turn, FirstStep
    <3>2. tf'[l] = tf[l]
      BY <2>2, WorkspacesStay
    <3> QED
      BY <1>1, <2>2, <3>1, <3>2, RemovedIsOwn DEF Keeps, Planned
  <2>3. CASE job'[l].pc = "apply" /\ job[l].pc # "plan"
    <3>1. /\ job[l].pc = "apply" /\ Keeps(l, job'[l])
          /\ \E i \in Ids :
               \/ ApplyRemove(l, i) /\ job'[l].remove = job[l].remove \ {i}
               \/ ApplyCreate(l, i) /\ job'[l].remove = job[l].remove
      BY <1>4, <2>3, NoJobIsJob DEF Turn, FirstStep
    <3>2. job[l].remove \subseteq tf[l]
      BY <1>1, <3>1 DEF Planned
    <3>3. job'[l].remove \subseteq tf'[l]
      BY <1>1, <3>1, <3>2 DEF ApplyRemove, ApplyCreate, RemoveVm, TypeOK
    <3> QED
      BY <1>1, <2>3, <3>1, <3>3 DEF Keeps, Planned
  <2> QED
    BY <2>1, <2>2, <2>3
<1> QED
  BY <1>1, <1>2, <1>3, <1>4, JobMoves, OthersStay

\* Take lets one deploy through, and nothing else makes a job a deploy that works.
LEMMA OneDeployStep ==
  ASSUME IInv, [Next]_vars
  PROVE  OneDeploy'
<1>1. TypeOK /\ OneDeploy /\ Planned
  BY DEF IInv, LabsNeverCollide
<1>2. CASE UNCHANGED job
  BY <1>1, <1>2 DEF OneDeploy, Deploying
<1>3. ASSUME NEW l \in Labs, Moves(l)
      PROVE  OneDeploy'
  <2>1. Turn(l, job'[l]) /\ \A k \in Labs \ {l} : job'[k] = job[k]
    BY <1>1, <1>3, OthersStay
  <2>2. CASE job[l].pc = "queued" /\ job[l].action \in Deploys /\ DeployFree(l)
    <3>1. \A k \in Labs \ {l} : ~ Deploying(k)
      BY <2>2 DEF DeployFree, Deploying
    <3>2. \A k \in Labs \ {l} : ~ Deploying(k)'
      BY <2>1, <3>1 DEF Deploying
    <3> QED
      BY <3>2 DEF OneDeploy
  <2>3. CASE ~ (job[l].pc = "queued" /\ job[l].action \in Deploys /\ DeployFree(l))
    <3>1. Deploying(l)' => Deploying(l)
      BY <2>1, <2>3, NoJobIsJob DEF Turn, Keeps, Deploying
    <3>2. \A k \in Labs \ {l} : Deploying(k)' => Deploying(k)
      BY <2>1 DEF Deploying
    <3> QED
      BY <1>1, <3>1, <3>2 DEF OneDeploy
  <2> QED
    BY <2>2, <2>3
<1> QED
  BY <1>1, <1>2, <1>3, JobMoves

LEMMA EmptiedStep ==
  ASSUME IInv, [Next]_vars
  PROVE  Emptied'
<1>1. TypeOK /\ Emptied
  BY DEF IInv, LabsNeverCollide
<1> SUFFICES ASSUME NEW l \in Labs, job'[l].pc = "clean", job'[l].action # "redeploy"
             PROVE  tf'[l] = {}
  BY DEF Emptied
<1>2. \/ job'[l] = job[l]
      \/ Turn(l, job'[l])
  BY <1>1, JobMoves, OthersStay
<1>3. \/ job[l].pc = "clean" /\ job[l].action # "redeploy"
      \/ job[l].pc = "destroy" /\ tf[l] = {}
  <2>1. job[l].pc = "queued" /\ job'[l].action = job[l].action => FirstStep(l) # "clean"
    BY DEF FirstStep
  <2> QED
    BY <1>2, <2>1, NoJobIsJob DEF Turn, Keeps
<1>4. tf[l] = {}
  BY <1>1, <1>3 DEF Emptied
<1>5. CASE job[l].pc = "clean"
  BY <1>4, <1>5, WorkspacesStay
<1>6. CASE job[l].pc = "destroy"
  <2>1. ASSUME NEW k \in Labs, NEW i \in Ids, ApplyRemove(k, i) \/ ApplyCreate(k, i) \/ Destroy(k, i)
        PROVE  tf'[l] = tf[l]
    <3>1. CASE k = l
      BY <1>4, <1>6, <2>1, <3>1 DEF ApplyRemove, ApplyCreate, Destroy, DestroyIds
    <3>2. CASE k # l
      BY <1>1, <2>1, <3>2 DEF ApplyRemove, ApplyCreate, Destroy, RemoveVm, TypeOK
    <3> QED
      BY <3>1, <3>2
  <2> QED
    BY <1>4, <2>1, OwnersMove, OutsideFrames
<1> QED
  BY <1>3, <1>5, <1>6

\* Who has a row that is not busy has no job, and a removed row comes to no job.
LEMMA AtRestStep ==
  ASSUME IInv, [Next]_vars
  PROVE  AtRest'
<1>1. TypeOK /\ AtRest
  BY DEF IInv, LabsNeverCollide
<1> SUFFICES ASSUME NEW l \in Labs
             PROVE  job'[l].pc = "none" \/ row'[l] \in {"busy", "gone"}
  BY DEF AtRest
<1>2. CASE job[l].pc = "none" /\ job'[l].pc # "none"
  <2>1. Turn(l, job'[l])
    BY <1>1, <1>2, JobMoves, OthersStay
  <2> QED
    BY <1>2, <2>1, NoJobIsJob DEF Turn
<1>3. CASE job[l].pc # "none"
  <2>1. row[l] \in {"busy", "gone"}
    BY <1>1, <1>3 DEF AtRest
  <2>2. CASE row'[l] = row[l]
    BY <2>1, <2>2
  <2>3. ASSUME DeleteClassroom
        PROVE  row'[l] \in {"busy", "gone"}
    BY <2>1, <2>3 DEF DeleteClassroom, NoRow
  <2>4. ASSUME NEW k \in Labs, Claim(k)
        PROVE  row'[l] \in {"busy", "gone"}
    BY <1>1, <2>1, <2>4 DEF Claim, TypeOK
  <2>5. ASSUME NEW k \in Labs, Refresh(k) \/ DeleteRow(k)
        PROVE  row'[l] = row[l]
    BY <1>1, <2>1, <2>5 DEF Refresh, DeleteRow, TypeOK, NoRow
  <2>6. ASSUME NEW k \in Labs, NEW s \in Statuses, End(k, s)
        PROVE  row'[l] = row[l] \/ job'[l].pc = "none"
    <3>1. CASE k = l
      BY <1>1, <2>6, <3>1, NoJobIsJob DEF End, TypeOK
    <3>2. CASE k # l
      BY <1>1, <2>6, <3>2 DEF End, TypeOK
    <3> QED
      BY <3>1, <3>2
  <2>7. ASSUME NEW k \in Labs, Stopped(k) \/ StoppedBlind(k)
        PROVE  End(k, "stopped")
    BY <2>7 DEF Stopped, StoppedBlind
  <2>8. {"failed", "running", "removed", "stopped"} \subseteq Statuses
    BY DEF Statuses, NoRow
  <2> QED
    BY <2>2, <2>3, <2>4, <2>5, <2>6, <2>7, <2>8, RowsMove
<1>4. CASE job'[l].pc = "none"
  BY <1>4
<1> QED
  BY <1>2, <1>3, <1>4

---------------------------------------------------------------------------
(* The properties *)

\* A lab gets a VM by its own apply only.
LEMMA GainsByApply ==
  ASSUME TypeOK, [Next]_vars, NEW i \in Ids, owner'[i] \in Labs, owner'[i] # owner[i]
  PROVE  ApplyCreate(owner'[i], i)
<1>1. ASSUME NEW l \in Labs, NEW j \in Ids, ApplyRemove(l, j) \/ Destroy(l, j)
      PROVE  FALSE
  BY <1>1, VmIdsAssumption DEF ApplyRemove, Destroy, RemoveVm, TypeOK
<1>2. ASSUME NEW j \in Ids, OtherCreates(j) \/ OtherRemoves(j)
      PROVE  FALSE
  BY <1>2, VmIdsAssumption DEF OtherCreates, OtherRemoves, TypeOK
<1>3. ASSUME NEW l \in Labs, NEW j \in Ids, ApplyCreate(l, j)
      PROVE  ApplyCreate(owner'[i], i)
  <2>1. i = j /\ owner'[i] = l
    BY <1>3 DEF ApplyCreate, TypeOK
  <2> QED
    BY <1>3, <2>1
<1> QED
  BY <1>1, <1>2, <1>3, OwnersMove

LEMMA CollideStep ==
  ASSUME IInv, [Next]_vars
  PROVE  ApplyMeetsNoVm'
<1>1. TypeOK /\ TypeOK' /\ ApplyMeetsNoVm /\ Planned /\ OneDeploy
  BY TypeStep DEF IInv, LabsNeverCollide
<1> SUFFICES ASSUME NEW l \in Labs, job'[l].pc = "apply",
                    NEW i \in job'[l].create \ job'[l].remove
             PROVE  owner'[i] \notin Labs
  BY DEF ApplyMeetsNoVm
<1>2. i \in Ids
  BY <1>1 DEF TypeOK, Jobs
<1>3. Deploying(l)
  <2>1. \/ job'[l] = job[l]
        \/ Turn(l, job'[l])
    BY <1>1, JobMoves, OthersStay
  <2>2. job[l].pc \in {"plan", "apply"}
    BY <2>1, NoJobIsJob DEF Turn, FirstStep
  <2> QED
    BY <1>1, <2>2 DEF Planned, Deploying
\* Nobody else applies, so nobody else creates a VM.
<1>4. ASSUME owner'[i] \in Labs, owner'[i] # owner[i]
      PROVE  FALSE
  <2>1. ApplyCreate(owner'[i], i)
    BY <1>1, <1>2, <1>4, GainsByApply
  <2>2. Deploying(owner'[i])
    BY <1>1, <1>4, <2>1 DEF ApplyCreate, Planned, Deploying
  <2>3. owner'[i] = l
    BY <1>1, <1>3, <1>4, <2>2 DEF OneDeploy
  <2>4. job'[l].create = job[l].create \ {i}
    BY <1>1, <2>1, <2>3 DEF ApplyCreate, TypeOK, Jobs
  <2> QED
    BY <2>4
<1>5. CASE i \in job[l].create \ job[l].remove /\ job[l].pc = "apply"
  <2>1. owner[i] \notin Labs
    BY <1>1, <1>5 DEF ApplyMeetsNoVm
  <2> QED
    BY <1>4, <2>1
\* The check of the plan
<1>6. CASE /\ job[l].pc = "plan" /\ Conflicts(l) = {}
           /\ job'[l].create = Created(l) /\ job'[l].remove = Removed(l)
  <2>1. i \in Created(l) \ Replaced(l)
    <3>1. i \in tf[l] => i \in Replaced(l)
      BY <1>6 DEF Created
    <3>2. Replaced(l) # {} => Removed(l) = Replaced(l)
      BY DEF Replaced, Removed
    <3> QED
      BY <1>6, <3>2
  <2>2. owner[i] = None
    BY <1>6, <2>1 DEF Conflicts, Exists
  <2>3. owner[i] \notin Labs
    BY <2>2, VmIdsAssumption
  <2> QED
    BY <1>4, <2>3
\* A VM the apply has removed to create it anew
<1>7. CASE ApplyRemove(l, i)
  <2>1. owner'[i] = None
    BY <1>1, <1>2, <1>7 DEF ApplyRemove, RemoveVm, TypeOK
  <2> QED
    BY <2>1, VmIdsAssumption
<1> QED
  <2>1. \/ job'[l] = job[l]
        \/ Turn(l, job'[l])
    BY <1>1, JobMoves, OthersStay
  <2>2. CASE job'[l] = job[l]
    BY <1>5, <2>2
  <2>3. CASE Turn(l, job'[l]) /\ job[l].pc # "apply"
    BY <1>6, <2>3, NoJobIsJob DEF Turn, FirstStep
  <2>4. CASE Turn(l, job'[l]) /\ job[l].pc = "apply"
    <3>1. \E j \in Ids :
            \/ ApplyRemove(l, j) /\ job'[l].create = job[l].create /\ job'[l].remove = job[l].remove \ {j}
            \/ ApplyCreate(l, j) /\ job'[l].create = job[l].create \ {j} /\ job'[l].remove = job[l].remove
      BY <2>4, NoJobIsJob DEF Turn
    <3> QED
      BY <1>5, <1>7, <2>4, <3>1
  <2> QED
    BY <2>1, <2>2, <2>3, <2>4

LEMMA DestroyStep ==
  ASSUME IInv, [Next]_vars
  PROVE  DestroyLeavesNothing'
<1>1. TypeOK /\ TypeOK' /\ DestroyLeavesNothing /\ AtRest /\ Emptied /\ Owned
  BY TypeStep DEF IInv, LabsNeverCollide, RestIsReal
<1> SUFFICES ASSUME NEW l \in Labs, row'[l] = "removed", NEW i \in Ids, owner'[i] = l
             PROVE  FALSE
  BY DEF DestroyLeavesNothing
\* The row of a lab with a VM is removed by nobody ...
<1>2. row[l] = "removed" \/ (Cleaned(l) /\ job[l].action # "redeploy")
  <2>1. ASSUME DeleteClassroom
        PROVE  row[l] = "removed"
    BY <2>1 DEF DeleteClassroom, NoRow
  <2>2. ASSUME NEW k \in Labs, Claim(k) \/ DeleteRow(k)
        PROVE  row[l] = "removed"
    BY <1>1, <2>2 DEF Claim, DeleteRow, TypeOK
  <2>3. ASSUME NEW k \in Labs, Refresh(k)
        PROVE  row[l] = "removed"
    <3>1. row[k] # "removed" => Derived(k, row[k]) # "removed"
      BY DEF Derived
    <3> QED
      BY <1>1, <2>3, <3>1 DEF Refresh, TypeOK, NoRow
  <2>4. ASSUME NEW k \in Labs, Stopped(k) \/ StoppedBlind(k)
        PROVE  row[l] = "removed"
    BY <1>1, <2>4 DEF Stopped, StoppedBlind, End, TypeOK
  <2>5. ASSUME NEW k \in Labs, NEW s \in {"failed", "running", "removed"}, End(k, s),
               s = "removed" => Cleaned(k) /\ job[k].action # "redeploy"
        PROVE  row[l] = "removed" \/ (Cleaned(l) /\ job[l].action # "redeploy")
    BY <1>1, <2>5 DEF End, TypeOK
  <2> QED
    BY <2>1, <2>2, <2>3, <2>4, <2>5, RowsMove
\* ... and a lab whose row is removed gets none.
<1>3. owner[i] = l
  <2>1. ASSUME owner[i] # l
        PROVE  FALSE
    <3>1. ApplyCreate(l, i)
      BY <1>1, <2>1, GainsByApply
    <3>2. job[l].pc = "apply"
      BY <3>1 DEF ApplyCreate
    <3> QED
      BY <1>1, <1>2, <3>2 DEF AtRest, Cleaned
  <2> QED
    BY <2>1
<1>4. CASE row[l] = "removed"
  BY <1>1, <1>3, <1>4 DEF DestroyLeavesNothing
<1>5. CASE Cleaned(l) /\ job[l].action # "redeploy"
  <2>1. tf[l] = {}
    BY <1>1, <1>5 DEF Cleaned, Emptied
  <2> QED
    BY <1>1, <1>3, <2>1 DEF Owned
<1> QED
  BY <1>2, <1>4, <1>5

\* The verdicts on a stopped lab: a refresh, a verified stop, a failed inventory.
LEMMA Verdicts ==
  ASSUME TypeOK, [Next]_vars, NEW l \in Labs, row'[l] = "stopped"
  PROVE  \/ row[l] = "stopped" /\ halted'[l] = halted[l]
         \/ Refresh(l) /\ Derived(l, row[l]) = "stopped" /\ halted'[l] = Payload(l)
         \/ Stopped(l) /\ halted'[l] = job[l].ids
         \/ StoppedBlind(l) /\ halted'[l] = {}
<1>1. ASSUME DeleteClassroom
      PROVE  row[l] = "stopped" /\ halted'[l] = halted[l]
  BY <1>1, OutsideFrames DEF DeleteClassroom
<1>2. ASSUME NEW k \in Labs, Claim(k)
      PROVE  row[l] = "stopped" /\ halted'[l] = halted[l]
  <2>1. CASE row[k] \in {"busy"} \cup NoRow
    BY <1>2, <2>1 DEF Claim, NoRow
  <2>2. CASE row[k] \notin {"busy"} \cup NoRow
    BY <1>2, <2>2 DEF Claim, TypeOK
  <2> QED
    BY <2>1, <2>2
<1>3. ASSUME NEW k \in Labs, DeleteRow(k)
      PROVE  row[l] = "stopped" /\ halted'[l] = halted[l]
  BY <1>3 DEF DeleteRow, TypeOK
<1>4. ASSUME NEW k \in Labs, Refresh(k)
      PROVE  \/ row[l] = "stopped" /\ halted'[l] = halted[l]
             \/ Refresh(l) /\ Derived(l, row[l]) = "stopped" /\ halted'[l] = Payload(l)
  BY <1>4 DEF Refresh, TypeOK
<1>5. ASSUME NEW k \in Labs, Stopped(k)
      PROVE  \/ row[l] = "stopped" /\ halted'[l] = halted[l]
             \/ Stopped(l) /\ halted'[l] = job[l].ids
  BY <1>5 DEF Stopped, End, TypeOK
<1>6. ASSUME NEW k \in Labs, StoppedBlind(k)
      PROVE  \/ row[l] = "stopped" /\ halted'[l] = halted[l]
             \/ StoppedBlind(l) /\ halted'[l] = {}
  BY <1>6 DEF StoppedBlind, End, TypeOK
<1>7. ASSUME NEW k \in Labs, NEW s \in {"failed", "running", "removed"}, End(k, s), UNCHANGED halted
      PROVE  row[l] = "stopped" /\ halted'[l] = halted[l]
  BY <1>7 DEF End, TypeOK
<1> QED
  BY <1>1, <1>2, <1>3, <1>4, <1>5, <1>6, <1>7, RowsMove

\* A VM is started by a lab that reaches it, created by an apply, or not LabFactory's.
LEMMA GoesOn ==
  ASSUME TypeOK, [Next]_vars, NEW i \in Ids, power[i] = "off", power'[i] # "off"
  PROVE  \/ \E k \in Labs : PowerVm(k, i) \/ ApplyCreate(k, i)
         \/ OtherCreates(i)
<1>1. ASSUME NEW k \in Labs, NEW j \in Ids, ApplyRemove(k, j) \/ Destroy(k, j)
      PROVE  FALSE
  BY <1>1 DEF ApplyRemove, Destroy, RemoveVm, TypeOK
<1>2. ASSUME NEW k \in Labs, NEW j \in Ids, PowerVm(k, j) \/ ApplyCreate(k, j) \/ OtherCreates(j)
      PROVE  i = j
  BY <1>2 DEF PowerVm, ApplyCreate, OtherCreates, TypeOK
<1>3. ASSUME NEW j \in Ids, OtherCreates(j)
      PROVE  i = j
  BY <1>3 DEF OtherCreates, TypeOK
<1>4. ASSUME NEW j \in Ids, OtherRemoves(j) \/ ShutDown(j)
      PROVE  FALSE
  BY <1>4 DEF OtherRemoves, ShutDown, TypeOK
<1>5. \/ UNCHANGED power
      \/ \E k \in Labs, j \in Ids :
           ApplyRemove(k, j) \/ Destroy(k, j) \/ ApplyCreate(k, j) \/ PowerVm(k, j)
      \/ \E j \in Ids : OtherCreates(j) \/ OtherRemoves(j) \/ ShutDown(j)
  BY RequestFrames, JobFrames, VmFrames, OutsideFrames DEF Next, vars, proxmox
<1> QED
  BY <1>1, <1>2, <1>3, <1>4, <1>5

LEMMA StoppedStep ==
  ASSUME IInv, [Next]_vars
  PROVE  StoppedIsOff'
<1>1. TypeOK /\ TypeOK' /\ StoppedIsOff /\ AtRest /\ InReach
  BY TypeStep DEF IInv, LabsNeverCollide, RestIsReal
<1> SUFFICES ASSUME NEW l \in Labs, row'[l] = "stopped", NEW i \in halted'[l], owner'[i] = l,
                    \A k \in Labs \ {l} : i \notin Reach(k)
             PROVE  power'[i] = "off"
  BY DEF StoppedIsOff
<1>2. i \in Ids
  BY <1>1 DEF TypeOK
<1>3. CASE row[l] = "stopped" /\ halted'[l] = halted[l]
  <2>1. job[l].pc = "none"
    BY <1>1, <1>3 DEF AtRest
  <2>2. owner[i] = l
    BY <1>1, <1>2, <2>1, GainsByApply DEF ApplyCreate
  <2>3. power[i] = "off"
    BY <1>1, <1>3, <2>2 DEF StoppedIsOff
  <2>4. ASSUME NEW k \in Labs, PowerVm(k, i)
        PROVE  FALSE
    BY <1>1, <2>1, <2>4 DEF PowerVm, InReach
  <2>5. ASSUME NEW k \in Labs, ApplyCreate(k, i)
        PROVE  FALSE
    BY <1>1, <2>1, <2>2, <2>5, VmIdsAssumption DEF ApplyCreate, Exists
  <2>6. ASSUME OtherCreates(i)
        PROVE  FALSE
    BY <2>2, <2>6, VmIdsAssumption DEF OtherCreates, Exists
  <2> QED
    BY <1>1, <1>2, <2>3, <2>4, <2>5, <2>6, GoesOn
<1>4. CASE Refresh(l) /\ Derived(l, row[l]) = "stopped" /\ halted'[l] = Payload(l)
  <2>1. owner[i] = l /\ power'[i] = power[i] /\ i \in Payload(l)
    BY <1>4, RequestFrames
  <2>2. Exists(i)
    BY <2>1, VmIdsAssumption DEF Exists
  <2>3. \A j \in Payload(l) : Exists(j) => power[j] = "off"
    BY <1>4, <2>1, <2>2 DEF Derived
  <2> QED
    BY <2>1, <2>2, <2>3
<1>5. CASE Stopped(l) /\ halted'[l] = job[l].ids
  BY <1>5, JobFrames DEF Stopped, AllStopped
<1>6. CASE StoppedBlind(l) /\ halted'[l] = {}
  BY <1>6
<1> QED
  BY <1>1, <1>3, <1>4, <1>5, <1>6, Verdicts

---------------------------------------------------------------------------
(* The theorems *)

LEMMA InitInv ==
  ASSUME Init
  PROVE  IInv
<1>1. TypeOK
  BY VmIdsAssumption, NoJobIsJob DEF Init, TypeOK, Statuses, NoReq, Reqs
<1>2. \A l \in Labs : job[l] = NoJob /\ row[l] = "idle" /\ tf[l] = {} /\ req[l] = NoReq
  BY DEF Init
<1>3. Owned
  BY VmIdsAssumption DEF Init, Owned
<1>4. InReach
  BY <1>2, NoJobIsJob DEF InReach, NoReq
<1> QED
  BY <1>1, <1>2, <1>3, <1>4, NoJobIsJob
     DEF IInv, LabsNeverCollide, ApplyMeetsNoVm, RestIsReal, DestroyLeavesNothing, StoppedIsOff,
         Planned, OneDeploy, Deploying, Emptied, AtRest

LEMMA Inductive == Spec => []IInv
<1>1. Init => IInv
  BY InitInv
<1>2. IInv /\ [Next]_vars => IInv'
  <2>1. IInv /\ [Next]_vars => TypeOK'
    BY TypeStep DEF IInv, LabsNeverCollide
  <2> QED
    BY <2>1, OwnedStep, ReachStep, PlannedStep, OneDeployStep, EmptiedStep, AtRestStep,
       CollideStep, DestroyStep, StoppedStep DEF IInv, LabsNeverCollide, RestIsReal
<1> QED
  BY <1>1, <1>2, PTL DEF Spec

\* An apply never meets a VM of a lab, however the ranges of the labs overlap and
\* whatever is retried: the check of the plan holds until the apply takes the
\* ids, because only the holder of the global lock creates VMs.
THEOREM NeverCollide == Spec => []LabsNeverCollide
<1>1. IInv => LabsNeverCollide
  BY DEF IInv
<1> QED
  BY <1>1, Inductive, PTL

\* A row removed by a destroy has left no VM, and a lab shown as stopped has none
\* running of those that were looked at and that no other lab can start.
THEOREM RestHolds == Spec => []RestIsReal
<1>1. IInv => RestIsReal
  BY DEF IInv
<1> QED
  BY <1>1, Inductive, PTL

\* A lab loses a VM to its own apply or destroy only.
THEOREM LabsSpare == Spec => LabsSpareEachOther
<1>1. ASSUME IInv, [Next]_vars, NEW i \in Ids, NEW l \in Labs, owner[i] = l, owner'[i] # l
      PROVE  i \in tf[l] /\ job[l].pc \in {"apply", "destroy"}
  <2>1. TypeOK
    BY <1>1 DEF IInv, LabsNeverCollide
  <2>2. ASSUME NEW k \in Labs, NEW j \in Ids, ApplyRemove(k, j) \/ Destroy(k, j)
        PROVE  i \in tf[l] /\ job[l].pc \in {"apply", "destroy"}
    <3>1. j \in tf[k] /\ owner[j] = k /\ RemoveVm(k, j) /\ job[k].pc \in {"apply", "destroy"}
      BY <1>1, <2>2, RemovesOwn
    <3>2. i = j
      BY <1>1, <2>1, <3>1 DEF RemoveVm, TypeOK
    <3> QED
      BY <1>1, <3>1, <3>2
  <2>3. ASSUME NEW k \in Labs, NEW j \in Ids, ApplyCreate(k, j)
        PROVE  FALSE
    BY <1>1, <2>1, <2>3, VmIdsAssumption DEF ApplyCreate, Exists, TypeOK
  <2>4. ASSUME NEW j \in Ids, OtherCreates(j) \/ OtherRemoves(j)
        PROVE  FALSE
    BY <1>1, <2>1, <2>4, VmIdsAssumption DEF OtherCreates, OtherRemoves, Exists, TypeOK
  <2> QED
    BY <1>1, <2>2, <2>3, <2>4, OwnersMove
<1>2. IInv /\ [Next]_vars =>
        [\A i \in Ids : \A l \in Labs :
           owner[i] = l /\ owner'[i] # l => i \in tf[l] /\ job[l].pc \in {"apply", "destroy"}]_vars
  BY <1>1
<1> QED
  BY <1>2, Inductive, PTL DEF Spec, LabsSpareEachOther

===========================================================================
