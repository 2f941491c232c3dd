-------------------------------- MODULE VmIds --------------------------------
(***************************************************************************)
(* The VMs behind the labs.  A lab has no list of its VMs: every request   *)
(* computes their Proxmox ids from the lab's own id (computeBlueprint-     *)
(* BaseVmid, dashboard/server.js) and from the number of workplaces its    *)
(* classroom has at that moment.  The ranges of two labs may overlap, the  *)
(* classroom may change, and others create VMs.  Jobs plan, check, apply,  *)
(* power and destroy against Proxmox and a Terraform state per lab         *)
(* (workers/terraformWorker.js, lib/vmidAvailability.js).                  *)
(*                                                                         *)
(* One VM per workplace.  One request at a time per lab: LabLifecycle has  *)
(* the races between requests, retries and crashes of the same lab.        *)
(***************************************************************************)
EXTENDS FiniteSets, Naturals

CONSTANTS Labs,
          Base,         \* the first VM id of each lab
          MaxStations,  \* the largest number of workplaces
          Retries,      \* CFS_LOCK_RETRY_ATTEMPTS
          None          \* no VM, no owner

ASSUME VmIdsAssumption ==
  /\ Base \in [Labs -> Nat]
  /\ MaxStations \in Nat \ {0}
  /\ Retries \in Nat
  /\ None # "other" /\ {None, "other"} \cap Labs = {}

VARIABLES
  stations,  \* workstation_count of the labs' classroom
  owner,     \* Proxmox: who created the VM with this id
  power,     \* Proxmox: whether it runs
  disk,      \* the volumes named after this id: of a VM, or left behind
  tf,        \* the VMs in each lab's Terraform workspace
  row,       \* the lab's status; "deployed" counts as "running"
  req,       \* a request between its checks and its claim
  job,       \* the lab's queued or running job
  halted     \* the ids looked at when the lab was shown as stopped (history)

vars == <<stations, owner, power, disk, tf, row, req, job, halted>>
proxmox == <<owner, power, disk>>

\* The ids a lab can ever ask for
Reach(l) == Base[l] .. Base[l] + MaxStations - 1
Ids == UNION {Reach(l) : l \in Labs}

\* A row is "removed" by the lab's destroy, "gone" when it was deleted otherwise.
NoRow == {"removed", "gone"}
Statuses == {"idle", "busy", "running", "stopped", "mixed", "failed", "destroyed"} \cup NoRow
Deploys == {"deploy", "redeploy"}
Actions == Deploys \cup {"start", "stop", "destroy"}

Exists(i) == owner[i] # None
Payload(l) == Base[l] .. Base[l] + stations - 1

NoReq == [action |-> "none", ids |-> {}, scope |-> {}]
NoJob == [pc |-> "none", action |-> "none", ids |-> {}, scope |-> {}, create |-> {},
          remove |-> {}, todo |-> {}, clean |-> {}, hold |-> {}, tries |-> 0]

Init == /\ stations \in 1 .. MaxStations
        /\ owner = [i \in Ids |-> None]
        /\ power = [i \in Ids |-> "off"]
        /\ disk = [i \in Ids |-> "none"]
        /\ tf = [l \in Labs |-> {}]
        /\ row = [l \in Labs |-> "idle"]
        /\ req = [l \in Labs |-> NoReq]
        /\ job = [l \in Labs |-> NoJob]
        /\ halted = [l \in Labs |-> {}]

---------------------------------------------------------------------------
(* The dashboard *)

\* deriveDeploymentStatusFromResources on the ids of today's payload.
Derived(l, s) ==
  LET seen == {i \in Payload(l) : Exists(i)}
  IN  IF seen = {}
        THEN IF s \in {"idle", "failed", "destroyed"} THEN s ELSE "destroyed"
      ELSE IF seen = Payload(l) /\ \A i \in seen : power[i] # "off" THEN "running"
      ELSE IF \A i \in seen : power[i] = "off" THEN "stopped"
      ELSE "mixed"

Allowed(l, a) ==
  /\ row[l] \notin {"busy"} \cup NoRow
  /\ a = "destroy" => row[l] # "idle"
  /\ a = "deploy" => \A i \in Payload(l) : ~Exists(i)
  /\ a = "redeploy" => \/ row[l] = "failed"
                       \/ Derived(l, row[l]) = "running"

\* A request checks the row, and the inventory for deploys.
Ask(l, a) ==
  /\ req[l] = NoReq
  /\ Allowed(l, a)
  /\ \E s \in IF a = "redeploy" THEN {{i} : i \in Payload(l)} ELSE {Payload(l)} :
       req' = [req EXCEPT ![l] = [action |-> a, ids |-> Payload(l), scope |-> s]]
  /\ UNCHANGED <<stations, proxmox, tf, row, job, halted>>

\* It claims the row, if nobody else has, and queues its job.
Claim(l) ==
  /\ req[l] # NoReq
  /\ req' = [req EXCEPT ![l] = NoReq]
  /\ IF row[l] \in {"busy"} \cup NoRow
       THEN UNCHANGED <<row, job, halted>>
       ELSE /\ row' = [row EXCEPT ![l] = "busy"]
            /\ halted' = [halted EXCEPT ![l] = {}]
            /\ job' = [job EXCEPT ![l] = [NoJob EXCEPT !.pc = "queued",
                         !.action = req[l].action, !.ids = req[l].ids, !.scope = req[l].scope]]
  /\ UNCHANGED <<stations, proxmox, tf>>

Refresh(l) ==
  /\ row[l] \notin {"busy"} \cup NoRow
  /\ row' = [row EXCEPT ![l] = Derived(l, row[l])]
  /\ halted' = [halted EXCEPT ![l] = IF row'[l] = "stopped" THEN Payload(l) ELSE {}]
  /\ UNCHANGED <<stations, proxmox, tf, req, job>>

\* The classroom's workplaces are edited without a look at its labs.
EditClassroom(n) ==
  /\ stations' = n
  /\ UNCHANGED <<proxmox, tf, row, req, job, halted>>

\* ON DELETE CASCADE removes the rows of its labs, whatever their status.
DeleteClassroom ==
  /\ row' = [l \in Labs |-> IF row[l] \in NoRow THEN row[l] ELSE "gone"]
  /\ UNCHANGED <<stations, proxmox, tf, req, job, halted>>

DeleteRow(l) ==
  /\ row[l] \in {"idle", "failed", "destroyed"}
  /\ row' = [row EXCEPT ![l] = "gone"]
  /\ UNCHANGED <<stations, proxmox, tf, req, job, halted>>

---------------------------------------------------------------------------
(* Jobs *)

\* A status write matches no row once the row is removed.
End(l, s) == /\ job' = [job EXCEPT ![l] = NoJob]
             /\ row' = IF row[l] \in NoRow THEN row ELSE [row EXCEPT ![l] = s]

Fail(l) == /\ job[l].pc \notin {"none", "queued"}
           /\ End(l, "failed")
           /\ UNCHANGED <<stations, proxmox, tf, req, halted>>

\* The global lock: one deploy or redeploy at a time.
DeployFree(l) ==
  \A k \in Labs \ {l} : job[k].action \in Deploys => job[k].pc \in {"none", "queued"}

\* A start that does not find all its VMs is refused: it only fails.
FirstStep(l) == CASE job[l].action = "deploy" -> "plan"
                  [] job[l].action = "redeploy" -> "clean"
                  [] job[l].action = "destroy" -> "destroy"
                  [] job[l].action = "start" /\ \E i \in job[l].ids : ~Exists(i) -> "refused"
                  [] OTHER -> "power"

\* The job gets its locks and does nothing when its row is gone.  A start or
\* stop resolves the nodes of its VMs; a destroy and a redeploy will clean the
\* volumes of theirs.
Skip(l) ==
  /\ job[l].pc = "queued" /\ row[l] \in NoRow
  /\ job' = [job EXCEPT ![l] = NoJob]
  /\ UNCHANGED <<stations, proxmox, tf, row, req, halted>>

Take(l) ==
  /\ job[l].pc = "queued" /\ row[l] \notin NoRow
  /\ job[l].action \in Deploys => DeployFree(l)
  /\ LET existing == {i \in job[l].ids : Exists(i)}
         powers == job[l].action \in {"start", "stop"}
     IN  job' = [job EXCEPT ![l].pc = FirstStep(l),
                            ![l].todo = IF powers THEN existing ELSE {},
                            ![l].clean = IF powers THEN {} ELSE job[l].scope]
  /\ UNCHANGED <<stations, proxmox, tf, row, req, halted>>

\* terraform plan: the state's VMs outside the payload go, unless the plan is
\* targeted; a redeploy replaces its own.
Replaced(l) == IF job[l].action = "redeploy" THEN job[l].scope \cap tf[l] ELSE {}
Created(l) == (job[l].scope \ tf[l]) \cup Replaced(l)
Removed(l) == IF job[l].action = "redeploy" \/ job[l].tries > 0
                THEN Replaced(l) ELSE tf[l] \ job[l].ids

Conflicts_Bug(l) == {}

\* checkPlannedVmids: ids to create that Proxmox has, but for own replacements.
Conflicts(l) == {i \in Created(l) \ Replaced(l) : Exists(i)}

\* Plan and check; a conflict, like any error, ends the job (Fail).
Plan(l) ==
  /\ job[l].pc = "plan"
  /\ Conflicts(l) = {}
  /\ job' = [job EXCEPT ![l].pc = "apply", ![l].create = Created(l), ![l].remove = Removed(l)]
  /\ UNCHANGED <<stations, proxmox, tf, row, req, halted>>

\* Proxmox removes a VM; an interruption may leave its volumes.
RemoveVm(l, i) ==
  /\ owner' = [owner EXCEPT ![i] = None]
  /\ power' = [power EXCEPT ![i] = "off"]
  /\ \E d \in {"none", "stray"} : disk' = [disk EXCEPT ![i] = d]
  /\ tf' = [tf EXCEPT ![l] = @ \ {i}]

ApplyRemove(l, i) ==
  /\ job[l].pc = "apply" /\ i \in job[l].remove
  /\ RemoveVm(l, i)
  /\ job' = [job EXCEPT ![l].remove = @ \ {i}]
  /\ UNCHANGED <<stations, row, req, halted>>

\* Proxmox refuses an id in use, Ceph a volume that exists (Fail).
ApplyCreate(l, i) ==
  /\ job[l].pc = "apply" /\ i \in job[l].create \ job[l].remove
  /\ ~Exists(i) /\ disk[i] = "none"
  /\ owner' = [owner EXCEPT ![i] = l]
  /\ power' = [power EXCEPT ![i] = "on"]
  /\ disk' = [disk EXCEPT ![i] = "live"]
  /\ tf' = [tf EXCEPT ![l] = @ \cup {i}]
  /\ job' = [job EXCEPT ![l].create = @ \ {i}]
  /\ UNCHANGED <<stations, row, req, halted>>

MayRetry_Bug(l) == job[l].tries <= Retries

MayRetry(l) == job[l].tries < Retries

\* cfs-lock errors: only the VMs they hit are planned and checked again.
Retry(l) ==
  /\ job[l].pc = "apply" /\ MayRetry(l)
  /\ \E hit \in SUBSET job[l].create \ {{}} :
       job' = [job EXCEPT ![l].pc = "plan", ![l].tries = @ + 1, ![l].scope = hit,
                          ![l].create = {}, ![l].remove = {}]
  /\ UNCHANGED <<stations, proxmox, tf, row, req, halted>>

Applied(l) ==
  /\ job[l].pc = "apply" /\ job[l].create = {} /\ job[l].remove = {}
  /\ End(l, "running")
  /\ UNCHANGED <<stations, proxmox, tf, req, halted>>

DestroyIds_Bug(l) == {i \in job[l].ids : Exists(i)}

\* terraform destroy removes what its state holds, not what the payload names.
DestroyIds(l) == tf[l]

Destroy(l, i) ==
  /\ job[l].pc = "destroy" /\ i \in DestroyIds(l)
  /\ RemoveVm(l, i)
  /\ UNCHANGED <<stations, row, req, job, halted>>

Destroyed(l) ==
  /\ job[l].pc = "destroy" /\ DestroyIds(l) = {}
  /\ job' = [job EXCEPT ![l].pc = "clean"]
  /\ UNCHANGED <<stations, proxmox, tf, row, req, halted>>

\* cleanupDestroyedVmVolumes: VM by VM, is it absent ...
CheckAbsent(l, i) ==
  /\ job[l].pc = "clean" /\ i \in job[l].clean
  /\ job' = [job EXCEPT ![l].clean = @ \ {i},
                        ![l].hold = IF Exists(i) THEN @ ELSE @ \cup {i}]
  /\ UNCHANGED <<stations, proxmox, tf, row, req, halted>>

\* ... then its volumes are listed and deleted.
DeleteVolumes(l, i) ==
  /\ job[l].pc = "clean" /\ i \in job[l].hold
  /\ disk' = [disk EXCEPT ![i] = "none"]
  /\ job' = [job EXCEPT ![l].hold = @ \ {i}]
  /\ UNCHANGED <<stations, owner, power, tf, row, req, halted>>

\* Errors of the clean-up are only logged; then the redeploy goes on to its
\* plan, and the destroyed lab's row is removed.
Cleaned(l) ==
  /\ job[l].pc = "clean"
  /\ IF job[l].action = "redeploy"
       THEN /\ job' = [job EXCEPT ![l].pc = "plan", ![l].clean = {}, ![l].hold = {}]
            /\ UNCHANGED row
       ELSE End(l, "removed")
  /\ UNCHANGED <<stations, proxmox, tf, req, halted>>

\* A start or shutdown is requested for every VM that was resolved.
PowerVm(l, i) ==
  /\ job[l].pc = "power" /\ i \in job[l].todo
  /\ Exists(i)
  /\ power' = [power EXCEPT ![i] = IF job[l].action = "start" THEN "on"
                                   ELSE IF @ = "on" THEN "stopping" ELSE @]
  /\ job' = [job EXCEPT ![l].todo = @ \ {i}]
  /\ UNCHANGED <<stations, owner, disk, tf, row, req, halted>>

Started(l) ==
  /\ job[l].pc = "power" /\ job[l].action = "start" /\ job[l].todo = {}
  /\ \A i \in job[l].ids : power[i] = "on"
  /\ End(l, "running")
  /\ UNCHANGED <<stations, proxmox, tf, req, halted>>

AllStopped_Bug(l) == \A i \in job[l].ids : power[i] # "on"

\* waitForVmPowerState: every VM of the payload is stopped or missing.
AllStopped(l) == \A i \in job[l].ids : power[i] = "off"

Stopped(l) ==
  /\ job[l].pc = "power" /\ job[l].action = "stop" /\ job[l].todo = {}
  /\ AllStopped(l)
  /\ End(l, "stopped")
  /\ halted' = [halted EXCEPT ![l] = job[l].ids]
  /\ UNCHANGED <<stations, proxmox, tf, req>>

\* A failed inventory request is taken for an empty inventory: no VM is left
\* to wait for.
StoppedBlind(l) ==
  /\ job[l].pc = "power" /\ job[l].action = "stop" /\ job[l].todo = {}
  /\ End(l, "stopped")
  /\ halted' = [halted EXCEPT ![l] = {}]
  /\ UNCHANGED <<stations, proxmox, tf, req>>

\* The stop has used up its verifications: the row stays "stopping".
GiveUp(l) ==
  /\ job[l].pc = "power" /\ job[l].action = "stop" /\ job[l].todo = {}
  /\ ~AllStopped(l)
  /\ job' = [job EXCEPT ![l] = NoJob]
  /\ UNCHANGED <<stations, proxmox, tf, row, req, halted>>

---------------------------------------------------------------------------
(* Proxmox *)

ShutDown(i) ==
  /\ power[i] = "stopping"
  /\ power' = [power EXCEPT ![i] = "off"]
  /\ UNCHANGED <<stations, owner, disk, tf, row, req, job, halted>>

OtherCreates(i) ==
  /\ ~Exists(i) /\ disk[i] = "none"
  /\ owner' = [owner EXCEPT ![i] = "other"]
  /\ power' = [power EXCEPT ![i] = "on"]
  /\ disk' = [disk EXCEPT ![i] = "live"]
  /\ UNCHANGED <<stations, tf, row, req, job, halted>>

OtherRemoves(i) ==
  /\ owner[i] = "other"
  /\ owner' = [owner EXCEPT ![i] = None]
  /\ power' = [power EXCEPT ![i] = "off"]
  /\ disk' = [disk EXCEPT ![i] = "none"]
  /\ UNCHANGED <<stations, tf, row, req, job, halted>>

Next == \/ \E l \in Labs, a \in Actions : Ask(l, a)
        \/ \E l \in Labs : \/ Claim(l) \/ Refresh(l) \/ DeleteRow(l) \/ Skip(l) \/ Take(l) \/ Fail(l)
                           \/ Plan(l) \/ Retry(l) \/ Applied(l)
                           \/ Destroyed(l) \/ Cleaned(l)
                           \/ Started(l) \/ Stopped(l) \/ StoppedBlind(l) \/ GiveUp(l)
        \/ \E l \in Labs, i \in Ids : \/ ApplyRemove(l, i) \/ ApplyCreate(l, i)
                                      \/ Destroy(l, i) \/ PowerVm(l, i)
                                      \/ CheckAbsent(l, i) \/ DeleteVolumes(l, i)
        \/ \E n \in 1 .. MaxStations : EditClassroom(n)
        \/ DeleteClassroom
        \/ \E i \in Ids : ShutDown(i) \/ OtherCreates(i) \/ OtherRemoves(i)

Spec == Init /\ [][Next]_vars

---------------------------------------------------------------------------
Reqs == [action : Actions \cup {"none"}, ids : SUBSET Ids, scope : SUBSET Ids]
Jobs == [pc : {"none", "queued", "plan", "apply", "destroy", "clean", "power", "refused"},
         action : Actions \cup {"none"}, ids : SUBSET Ids, scope : SUBSET Ids,
         create : SUBSET Ids, remove : SUBSET Ids, todo : SUBSET Ids,
         clean : SUBSET Ids, hold : SUBSET Ids, tries : 0 .. Retries]

\* The values of the tables, of Proxmox and of the jobs.
TypeOK ==
  /\ stations \in 1 .. MaxStations
  /\ owner \in [Ids -> Labs \cup {None, "other"}]
  /\ power \in [Ids -> {"on", "stopping", "off"}]
  /\ disk \in [Ids -> {"none", "live", "stray"}]
  /\ tf \in [Labs -> SUBSET Ids]
  /\ row \in [Labs -> Statuses]
  /\ req \in [Labs -> Reqs]
  /\ job \in [Labs -> Jobs]
  /\ halted \in [Labs -> SUBSET Ids]

\* Between the check of the planned ids and the apply that takes them no other
\* lab takes one: checkPlannedVmids and the global deploy lock together keep an
\* apply from failing half-way on the VM of a lab.
ApplyMeetsNoVm ==
  \A l \in Labs : job[l].pc = "apply" =>
    \A i \in job[l].create \ job[l].remove : owner[i] \notin Labs
LabsNeverCollide == TypeOK /\ ApplyMeetsNoVm

\* A lab's VM disappears only through that lab's own apply or destroy, although
\* its id may be in the payload of another lab.
LabsSpareEachOther ==
  [][\A i \in Ids : \A l \in Labs :
       owner[i] = l /\ owner'[i] # l => i \in tf[l] /\ job[l].pc \in {"apply", "destroy"}]_vars

\* A destroy that has removed its lab's row has left no VM, not even of
\* workplaces the classroom has lost since they were deployed.
DestroyLeavesNothing ==
  \A l \in Labs : row[l] = "removed" => \A i \in Ids : owner[i] # l

\* A lab shown as stopped has none of the VMs running that the stop or the
\* refresh has looked at, unless another lab's range reaches to them: that
\* lab's start may have started them.
StoppedIsOff ==
  \A l \in Labs : row[l] = "stopped" =>
    \A i \in halted[l] : owner[i] = l /\ (\A k \in Labs \ {l} : i \notin Reach(k)) =>
      power[i] = "off"

\* What a lab at rest says is true of its VMs.
RestIsReal == DestroyLeavesNothing /\ StoppedIsOff

---------------------------------------------------------------------------
(* What the documentation says and the code does not keep *)

\* README.md:197 start and stop "call the Proxmox API directly on the deployed
\* VMIDs": never on the VM of another lab.
OnlyOwnPowered ==
  \A l \in Labs : \A i \in job[l].todo : owner[i] \in {l, None}

\* README.md:145 a refresh "reconciles deployment state with the real VM
\* state": a lab it shows as stopped has no VM running.
RefreshIsReal ==
  [][\A l \in Labs :
       row[l] \notin {"busy", "stopped"} /\ row'[l] = "stopped" =>
         \A i \in Ids : owner[i] = l => power[i] = "off"]_vars

\* server.js:3291 "deployment can only be deleted when it is not deployed": a
\* lab that has VMs and no job keeps its row.
VmsHaveLab ==
  \A l \in Labs : row[l] \in NoRow /\ job[l] = NoJob => \A i \in Ids : owner[i] # l

\* terraformWorker.js:850 volumes are spared when the worker is "unable to
\* prove that the VM is absent": a VM keeps its volumes.
KeptDisks == \A i \in Ids : Exists(i) => disk[i] = "live"
=============================================================================
