--------------------------- MODULE LabLifecycle ---------------------------
(***************************************************************************)
(* The lifecycle of LabFactory deployments ("labs"): the lab_deployments   *)
(* row the dashboard claims, the two BullMQ queues it feeds, the Terraform *)
(* and Ansible job processors that compete for the PostgreSQL advisory     *)
(* locks, and the requests that run beside them: refresh, delete, resume,  *)
(* cancel-all and the recovery a starting worker performs.                 *)
(*                                                                         *)
(* Every await at which another actor can get in is a step boundary.  The  *)
(* work itself (Terraform, Proxmox, Ansible) is an outcome chosen freely;  *)
(* what is kept of it is whether a lab's VMs exist.                        *)
(*                                                                         *)
(* A definition X_Bug above X is X with a plausible bug in the code it     *)
(* models.  The specification does not use it: put in the place of X, it   *)
(* must make TLC refute a property, which is how the properties are tested.*)
(***************************************************************************)
EXTENDS Naturals, FiniteSets

CONSTANTS
  Labs,            \* deployment ids
  JobIds,          \* BullMQ job ids; the id of a request's job is its run id
  None,            \* SQL NULL, a free lock, no row
  GlobalKey,       \* the advisory lock key 'global:terraform-deploy'
  Recovery,        \* the session of a worker start-up recovery
  Operations,      \* the dashboard operations in use
  Slots,           \* worker concurrency of each queue
  MaxStopRetries,  \* STOP_STATE_MAX_RETRIES
  MaxApplyRetries, \* CFS_LOCK_RETRY_ATTEMPTS
  FaultKinds,      \* the faults that may happen, among "dashboard", "crash",
                   \* "session", "stall" and "write"
  MaxFaults        \* bound: how many of them happen

Queues == {"terraform", "ansible"}

ASSUME ConstantsAssumption ==
  /\ None \notin Labs \cup JobIds
  /\ GlobalKey \notin Labs
  /\ Recovery \notin JobIds \cup {None}
  /\ Slots \in [Queues -> Nat \ {0}]
  /\ MaxStopRetries \in Nat /\ MaxApplyRetries \in Nat /\ MaxFaults \in Nat

VARIABLES
  row,        \* the lab_deployments row of a lab, or None
  job,        \* the data of a job
  state,      \* where a job is: in the dashboard, in its queue, finished
  pc,         \* the processor working on a job
  lease,      \* what is true of the lock session of that processor
  owner,      \* the session holding an advisory lock
  aborted,    \* jobs whose AbortController has fired
  provisioned,\* labs that have VMs in Proxmox
  deleting,   \* delete requests past their status check
  refresh,    \* refresh requests past their reads
  resume,     \* resume-customization requests, by job
  recovery,   \* start-up recovery of a lab's row
  cancel,     \* how far the cancel-all request is
  signals,    \* queues whose worker has a cancel-active message to handle
  stalls,     \* jobs whose 'stalled' event is not handled yet
  faults      \* faults so far

dashVars == <<deleting, refresh, resume, recovery, cancel, signals, stalls>>
procVars == <<pc, lease, owner, aborted>>
vars == <<row, job, state, procVars, provisioned, dashVars, faults>>

---------------------------------------------------------------------------
(* Values *)

Actions == {"deploy", "start", "stop", "destroy"}
Kinds == Actions \cup {"customize"}

Busy == {"queued", "deploying", "customizing", "starting", "stopping", "destroying"}
Resting == {"idle", "deployed", "running", "stopped", "mixed", "failed", "destroyed"}
Status == Busy \cup Resting

InitialStatus(action) ==
  CASE action = "start"   -> "starting"
    [] action = "stop"    -> "stopping"
    [] action = "destroy" -> "destroying"
    [] OTHER              -> "queued"

InProgress(kind) ==
  CASE kind = "deploy"    -> "deploying"
    [] kind = "customize" -> "customizing"
    [] OTHER              -> InitialStatus(kind)

Row == [status : Status,
        action : Kinds \cup {"prepare", "refresh", "cancelled", "worker-restarted"},
        job    : JobIds \cup {None},
        run    : JobIds \cup {None}]

ASSUME NoRowAssumption == None \notin Row

\* tries: stopRetryCount of a stop (above 0 it only verifies), applies of a deploy.
\* next: the job this one has queued.  checkpoints: customizationResults exist.
Job == [lab : Labs \cup {None}, kind : Kinds, run : JobIds \cup {None},
        tries : Nat, next : JobIds \cup {None}, checkpoints : BOOLEAN]
NoJob == [lab |-> None, kind |-> "deploy", run |-> None,
          tries |-> 0, next |-> None, checkpoints |-> FALSE]

JobState == {"unused",   \* the id is not taken
             "checked",  \* a request has passed its checks
             "claimed",  \* it has claimed the row, the job is not queued yet
             "pending",  \* waiting or delayed in its queue
             "active", "completed", "failed", "removed"}

Working == {"exec", "applying", "applied", "handoff"}
Leased  == Working \cup {"claim", "catch", "endOk", "endFail"}
Phase   == Leased \cup {"off", "global", "lab", "settleOk", "settleFail", "dead"}

Keys == Labs \cup {GlobalKey}

QueueOf(j) == IF job[j].kind = "customize" THEN "ansible" ELSE "terraform"

TypeOK ==
  /\ row \in [Labs -> Row \cup {None}]
  /\ job \in [JobIds -> Job]
  /\ state \in [JobIds -> JobState]
  /\ pc \in [JobIds -> Phase]
  /\ lease \in [JobIds -> {"none", "held", "broken"}]
  /\ owner \in [Keys -> JobIds \cup {Recovery, None}]
  /\ aborted \subseteq JobIds
  /\ provisioned \subseteq Labs
  /\ deleting \subseteq Labs
  /\ refresh \in [Labs -> {None} \cup
                   [status : Resting, run : JobIds \cup {None}, to : Resting]]
  /\ resume \in [JobIds -> {"no", "checked", "claimed"}]
  /\ recovery \in [Labs -> {None} \cup
                    [at : {"read", "locked", "dead"}, status : Busy,
                     job : JobIds \cup {None}, run : JobIds \cup {None}]]
  /\ cancel \in {"idle", "sweepTerraform", "sweepAnsible", "reset", "resume"}
  /\ signals \subseteq Queues
  /\ stalls \subseteq JobIds
  /\ faults \in 0 .. MaxFaults

\* Prepared deployments: a row exists, nothing has run.
Init ==
  /\ row = [l \in Labs |-> [status |-> "idle", action |-> "prepare",
                            job |-> None, run |-> None]]
  /\ job = [j \in JobIds |-> NoJob]
  /\ state = [j \in JobIds |-> "unused"]
  /\ pc = [j \in JobIds |-> "off"]
  /\ lease = [j \in JobIds |-> "none"]
  /\ owner = [k \in Keys |-> None]
  /\ aborted = {}
  /\ provisioned = {}
  /\ deleting = {}
  /\ refresh = [l \in Labs |-> None]
  /\ resume = [j \in JobIds |-> "no"]
  /\ recovery = [l \in Labs |-> None]
  /\ cancel = "idle"
  /\ signals = {}
  /\ stalls = {}
  /\ faults = 0

---------------------------------------------------------------------------
(* Shared pieces *)

Fault(kind) == kind \in FaultKinds /\ faults < MaxFaults /\ faults' = faults + 1

\* The WHERE clause of both workers' status updates: the row still carries the
\* run of the job.
OwnsRow_AnyRun(j) == row[job[j].lab] # None
OwnsRow(j) == row[job[j].lab] # None /\ row[job[j].lab].run = job[j].run

SetRow(j, status, id) ==
  row' = [row EXCEPT ![job[j].lab] =
            [status |-> status, action |-> job[id].kind, job |-> id, run |-> job[j].run]]

\* safeUpdateLifecycleStatus and safeUpdateDeploymentStatus: a row of another
\* run is left alone, an error of the database is logged and swallowed.
WriteRow(j, status, id) ==
  \/ OwnsRow(j) /\ SetRow(j, status, id) /\ UNCHANGED faults
  \/ ~OwnsRow(j) /\ UNCHANGED <<row, faults>>
  \/ OwnsRow(j) /\ Fault("write") /\ UNCHANGED row

\* lease.assertHeld(): the client has not noticed a lost session and nobody
\* has aborted the job.
CanGo(j) == j \notin aborted

Goto(j, phase) == pc' = [pc EXCEPT ![j] = phase]

\* pg_try_advisory_lock
TryLock_Ignored(key, id) == owner' = [owner EXCEPT ![key] = id]
TryLock(key, id) == owner[key] = None /\ owner' = [owner EXCEPT ![key] = id]

Without(j) == [k \in Keys |-> IF owner[k] = j THEN None ELSE owner[k]]

\* client.release(true): the connection is destroyed, PostgreSQL drops every
\* lock of the session.
DropSession_Leak(j) ==
  /\ lease' = [lease EXCEPT ![j] = "none"]
  /\ aborted' = aborted \ {j}
  /\ UNCHANGED owner
DropSession(j) ==
  /\ owner' = Without(j)
  /\ lease' = [lease EXCEPT ![j] = "none"]
  /\ aborted' = aborted \ {j}

NewJob(j, l, kind, run, tries) ==
  [job EXCEPT ![j] = [lab |-> l, kind |-> kind, run |-> run, tries |-> tries,
                      next |-> None, checkpoints |-> FALSE]]

---------------------------------------------------------------------------
(* Dashboard: a lifecycle action.  The job id is the run id, j here. *)

\* What deriveDeploymentStatusFromResources can answer for a row at rest, by
\* whether Proxmox lists some of the lab's VMs.
Derived(l, reconcileFailed) ==
  IF row[l].status = "failed" /\ ~reconcileFailed THEN {"failed"}
  ELSE IF l \in provisioned THEN {"running", "stopped", "mixed"}
  ELSE IF row[l].status \in {"idle", "failed", "destroyed"} THEN {row[l].status}
  ELSE {"destroyed"}

\* deploy: no VM of the lab exists; a workstation redeploy is a deploy of a
\* lab that runs or failed, by the row alone when Proxmox does not answer.
Allowed(l, action) ==
  /\ row[l] # None
  /\ row[l].status \notin Busy
  /\ action = "destroy" => row[l].status # "idle"
  /\ action = "deploy" =>
       \/ l \notin provisioned
       \/ /\ "redeploy" \in Operations
          /\ (Derived(l, FALSE) \cup {row[l].status}) \cap {"running", "failed"} # {}

CheckRequest(j, l, action) ==
  /\ action \in Operations
  /\ state[j] = "unused"
  /\ Allowed(l, action)
  /\ job' = NewJob(j, l, action, j, 0)
  /\ state' = [state EXCEPT ![j] = "checked"]
  /\ UNCHANGED <<row, procVars, provisioned, dashVars, faults>>

\* updateDeploymentState with requireNotBusy: one conditional UPDATE.
ClaimRequest(j) ==
  LET l == job[j].lab IN
  /\ state[j] = "checked"
  /\ IF row[l] # None /\ row[l].status \notin Busy
     THEN /\ row' = [row EXCEPT ![l] = [status |-> InitialStatus(job[j].kind),
                                        action |-> job[j].kind, job |-> j, run |-> j]]
          /\ state' = [state EXCEPT ![j] = "claimed"]
     ELSE /\ state' = [state EXCEPT ![j] = "removed"]
          /\ UNCHANGED row
  /\ UNCHANGED <<job, procVars, provisioned, dashVars, faults>>

\* queues.terraform.add
EnqueueRequest(j) ==
  /\ state[j] = "claimed"
  /\ state' = [state EXCEPT ![j] = "pending"]
  /\ UNCHANGED <<row, job, procVars, provisioned, dashVars, faults>>

\* The dashboard dies, or Redis refuses the job, after the claim.
LoseRequest(j) ==
  /\ state[j] = "claimed"
  /\ Fault("dashboard")
  /\ state' = [state EXCEPT ![j] = "removed"]
  /\ UNCHANGED <<row, job, procVars, provisioned, dashVars>>

\* removeOnComplete / removeOnFail and clear-history.
ForgetJob(j) ==
  /\ "clear" \in Operations
  /\ state[j] \in {"completed", "failed"}
  /\ state' = [state EXCEPT ![j] = "removed"]
  /\ UNCHANGED <<row, job, procVars, provisioned, dashVars, faults>>

---------------------------------------------------------------------------
(* Dashboard: delete, refresh and resume *)

CheckDelete(l) ==
  /\ "delete" \in Operations
  /\ l \notin deleting
  /\ row[l] # None
  /\ row[l].status \in {"idle", "failed", "destroyed"}
  /\ deleting' = deleting \cup {l}
  /\ UNCHANGED <<row, job, state, procVars, provisioned, refresh, resume, recovery,
                 cancel, signals, stalls, faults>>

\* The DELETE repeats none of the check.
DeleteRow(l) ==
  /\ l \in deleting
  /\ deleting' = deleting \ {l}
  /\ row' = [row EXCEPT ![l] = None]
  /\ UNCHANGED <<job, state, procVars, provisioned, refresh, resume, recovery,
                 cancel, signals, stalls, faults>>

\* refresh-state reads the rows, then the inventory.
ReadRefresh(l) ==
  /\ "refresh" \in Operations
  /\ refresh[l] = None
  /\ row[l] # None
  /\ row[l].status \notin Busy
  /\ \E to \in Derived(l, TRUE) :
       refresh' = [refresh EXCEPT ![l] =
                     [status |-> row[l].status, run |-> row[l].run, to |-> to]]
  /\ UNCHANGED <<row, job, state, procVars, provisioned, deleting, resume, recovery,
                 cancel, signals, stalls, faults>>

WriteRefresh_ById(l) ==
  /\ refresh[l] # None /\ row[l] # None
  /\ refresh' = [refresh EXCEPT ![l] = None]
  /\ row' = [row EXCEPT ![l].status = refresh[l].to, ![l].action = "refresh"]
  /\ UNCHANGED <<job, state, procVars, provisioned, deleting, resume, recovery,
                 cancel, signals, stalls, faults>>
WriteRefresh(l) ==
  /\ refresh[l] # None
  /\ refresh' = [refresh EXCEPT ![l] = None]
  /\ IF row[l] # None /\ row[l].status = refresh[l].status /\ row[l].run = refresh[l].run
     THEN row' = [row EXCEPT ![l].status = refresh[l].to, ![l].action = "refresh"]
     ELSE UNCHANGED row
  /\ UNCHANGED <<job, state, procVars, provisioned, deleting, resume, recovery,
                 cancel, signals, stalls, faults>>

\* The row still is what the resume request has read of customization j.
Resumable(j, status) ==
  LET r == row[job[j].lab] IN
  r # None /\ r.status = status /\ r.action = "customize" /\ r.job = j /\ r.run = job[j].run

CheckResume(j) ==
  /\ "resume" \in Operations
  /\ resume[j] = "no"
  /\ state[j] = "failed" /\ job[j].kind = "customize" /\ job[j].checkpoints
  /\ Resumable(j, "failed")
  /\ resume' = [resume EXCEPT ![j] = "checked"]
  /\ UNCHANGED <<row, job, state, procVars, provisioned, deleting, refresh, recovery,
                 cancel, signals, stalls, faults>>

ClaimResume(j) ==
  /\ resume[j] = "checked"
  /\ IF Resumable(j, "failed")
     THEN /\ row' = [row EXCEPT ![job[j].lab].status = "customizing"]
          /\ resume' = [resume EXCEPT ![j] = "claimed"]
     ELSE /\ resume' = [resume EXCEPT ![j] = "no"]
          /\ UNCHANGED row
  /\ UNCHANGED <<job, state, procVars, provisioned, deleting, refresh, recovery,
                 cancel, signals, stalls, faults>>

\* job.retry('failed'); when it throws the claim is taken back.
RetryResume_NoRollback(j) ==
  /\ resume[j] = "claimed"
  /\ resume' = [resume EXCEPT ![j] = "no"]
  /\ state' = [state EXCEPT ![j] = IF @ = "failed" THEN "pending" ELSE @]
  /\ UNCHANGED <<row, job, procVars, provisioned, deleting, refresh, recovery,
                 cancel, signals, stalls, faults>>
RetryResume(j) ==
  /\ resume[j] = "claimed"
  /\ resume' = [resume EXCEPT ![j] = "no"]
  /\ \/ /\ state[j] = "failed"
        /\ state' = [state EXCEPT ![j] = "pending"]
        /\ UNCHANGED row
     \/ /\ state[j] # "failed"
        /\ IF Resumable(j, "customizing")
           THEN row' = [row EXCEPT ![job[j].lab].status = "failed"]
           ELSE UNCHANGED row
        /\ UNCHANGED state
  /\ UNCHANGED <<job, procVars, provisioned, deleting, refresh, recovery,
                 cancel, signals, stalls, faults>>

\* The dashboard dies between the claim and the retry.
LoseResume(j) ==
  /\ resume[j] = "claimed"
  /\ Fault("dashboard")
  /\ resume' = [resume EXCEPT ![j] = "no"]
  /\ UNCHANGED <<row, job, state, procVars, provisioned, deleting, refresh, recovery,
                 cancel, signals, stalls>>

---------------------------------------------------------------------------
(* Dashboard: cancel-all *)

\* Both queues are paused, then 'cancel-active' is published to both workers.
StartCancel ==
  /\ "cancel" \in Operations
  /\ cancel = "idle"
  /\ cancel' = "sweepTerraform"
  /\ signals' = Queues
  /\ UNCHANGED <<row, job, state, procVars, provisioned, deleting, refresh, resume,
                 recovery, stalls, faults>>

\* worker.cancelActiveJobs: abort every controller the process has now.
HandleAbort(q) ==
  /\ q \in signals
  /\ signals' = signals \ {q}
  /\ aborted' = aborted \cup
       {j \in JobIds : QueueOf(j) = q
                       /\ pc[j] \in Working \cup {"global", "lab", "claim", "catch"}}
  /\ UNCHANGED <<row, job, state, pc, lease, owner, provisioned, deleting, refresh,
                 resume, recovery, cancel, stalls, faults>>

\* At most five seconds are given to the active jobs, then what is pending in
\* the queue is removed, the Terraform queue first.
SweepQueue(q) ==
  /\ \/ q = "terraform" /\ cancel = "sweepTerraform" /\ cancel' = "sweepAnsible"
     \/ q = "ansible" /\ cancel = "sweepAnsible" /\ cancel' = "reset"
  /\ state' = [j \in JobIds |-> IF state[j] = "pending" /\ QueueOf(j) = q
                                THEN "removed" ELSE state[j]]
  /\ UNCHANGED <<row, job, procVars, provisioned, deleting, refresh, resume, recovery,
                 signals, stalls, faults>>

\* resetTransientLifecycleStates
ResetRows ==
  /\ cancel = "reset"
  /\ cancel' = "resume"
  /\ row' = [l \in Labs |-> IF row[l] # None /\ row[l].status \in Busy
                            THEN [row[l] EXCEPT !.status = "failed", !.action = "cancelled"]
                            ELSE row[l]]
  /\ UNCHANGED <<job, state, procVars, provisioned, deleting, refresh, resume, recovery,
                 signals, stalls, faults>>

\* The queues and the workers are resumed.
EndCancel ==
  /\ cancel = "resume"
  /\ cancel' = "idle"
  /\ UNCHANGED <<row, job, state, procVars, provisioned, deleting, refresh, resume,
                 recovery, signals, stalls, faults>>

---------------------------------------------------------------------------
(* A starting worker: recoverDeploymentJobs, one row *)

Recover(l, at) == recovery' = [recovery EXCEPT ![l].at = at]
RecoverySettled(l) == recovery' = [recovery EXCEPT ![l] = None]

ReadRecovery_AnyStatus(l) ==
  /\ "recover" \in Operations
  /\ recovery[l] = None /\ row[l] # None
  /\ recovery' = [recovery EXCEPT ![l] = [at |-> "read", status |-> row[l].status,
                                          job |-> row[l].job, run |-> row[l].run]]
  /\ UNCHANGED <<row, job, state, procVars, provisioned, deleting, refresh, resume,
                 cancel, signals, stalls, faults>>
ReadRecovery(l) ==
  /\ "recover" \in Operations
  /\ recovery[l] = None
  /\ row[l] # None
  /\ row[l].status \in Busy
  /\ recovery' = [recovery EXCEPT ![l] = [at |-> "read", status |-> row[l].status,
                                          job |-> row[l].job, run |-> row[l].run]]
  /\ UNCHANGED <<row, job, state, procVars, provisioned, deleting, refresh, resume,
                 cancel, signals, stalls, faults>>

\* A lab whose lock is taken is being worked on.
LockRecovery_Unlocked(l) ==
  /\ recovery[l] # None /\ recovery[l].at = "read"
  /\ Recover(l, "locked")
  /\ UNCHANGED <<row, job, state, procVars, provisioned, deleting, refresh,
                 resume, cancel, signals, stalls, faults>>
LockRecovery(l) ==
  /\ recovery[l] # None /\ recovery[l].at = "read"
  /\ \/ TryLock(l, Recovery) /\ Recover(l, "locked")
     \/ owner[l] # None /\ RecoverySettled(l) /\ UNCHANGED owner
  /\ UNCHANGED <<row, job, state, pc, lease, aborted, provisioned, deleting, refresh,
                 resume, cancel, signals, stalls, faults>>

\* queue.getJob(last_job_id) and its state
LiveJob(id) == id # None /\ state[id] \in {"pending", "active"}

CheckRecovery(l) ==
  /\ recovery[l] # None /\ recovery[l].at = "locked"
  /\ IF LiveJob(recovery[l].job)
     THEN RecoverySettled(l) /\ owner' = [owner EXCEPT ![l] = None]
     ELSE Recover(l, "dead") /\ UNCHANGED owner
  /\ UNCHANGED <<row, job, state, pc, lease, aborted, provisioned, deleting, refresh,
                 resume, cancel, signals, stalls, faults>>

WriteRecovery(l) ==
  LET seen == recovery[l] IN
  /\ recovery[l] # None /\ seen.at = "dead"
  /\ IF row[l] # None /\ row[l].status = seen.status /\ row[l].job = seen.job /\ row[l].run = seen.run
     THEN row' = [row EXCEPT ![l].status = "failed",
                             ![l].action = IF seen.status = "customizing" THEN "customize"
                                           ELSE "worker-restarted"]
     ELSE UNCHANGED row
  /\ RecoverySettled(l)
  /\ owner' = [owner EXCEPT ![l] = None]
  /\ UNCHANGED <<job, state, pc, lease, aborted, provisioned, deleting, refresh, resume,
                 cancel, signals, stalls, faults>>

---------------------------------------------------------------------------
(* Job processors: the locks and the claim *)

Occupied(q) == {j \in JobIds : pc[j] \notin {"off", "dead"} /\ QueueOf(j) = q}

\* The keys are tried in sorted order: 'global:...' before 'lab:...'.
FirstLock_LabOnly(j) == "lab"
FirstLock(j) == IF job[j].kind = "deploy" THEN "global" ELSE "lab"

TakeJob(j) ==
  /\ state[j] = "pending" /\ pc[j] = "off"
  /\ cancel = "idle"
  /\ Cardinality(Occupied(QueueOf(j))) < Slots[QueueOf(j)]
  /\ state' = [state EXCEPT ![j] = "active"]
  /\ Goto(j, FirstLock(j))
  /\ UNCHANGED <<row, job, lease, owner, aborted, provisioned, dashVars, faults>>

\* acquireJobLocks failed: the locks it got are dropped, the job is delayed.
Bounce(j) ==
  /\ DropSession(j)
  /\ Goto(j, "off")
  /\ state' = [state EXCEPT ![j] = IF @ = "active" THEN "pending" ELSE @]

LockGlobal(j) ==
  /\ pc[j] = "global"
  /\ \/ /\ TryLock(GlobalKey, j)
        /\ Goto(j, "lab")
        /\ UNCHANGED <<state, lease, aborted>>
     \/ owner[GlobalKey] # None /\ Bounce(j)
  /\ UNCHANGED <<row, job, provisioned, dashVars, faults>>

\* ... and lease.assertHeld() right after.
LockLab(j) ==
  LET l == job[j].lab IN
  /\ pc[j] = "lab"
  /\ \/ /\ TryLock(l, j)
        /\ lease' = [lease EXCEPT ![j] = "held"]
        /\ Goto(j, IF CanGo(j) THEN "claim" ELSE "catch")
        /\ UNCHANGED <<state, aborted>>
     \/ owner[l] # None /\ Bounce(j)
  /\ UNCHANGED <<row, job, provisioned, dashVars, faults>>

\* PostgreSQL fails while the locks are asked for: the catch block runs, without
\* a lease.
FailLock(j) ==
  /\ pc[j] \in {"global", "lab"}
  /\ Fault("session")
  /\ DropSession(j)
  /\ Goto(j, "catch")
  /\ UNCHANGED <<row, job, state, provisioned, dashVars>>

\* The in-progress status, fenced by the run: a job it does not reach is stale.
ClaimWork(j) ==
  /\ pc[j] = "claim"
  /\ \/ /\ OwnsRow(j)
        /\ SetRow(j, InProgress(job[j].kind), j)
        /\ Goto(j, "exec")
        /\ job' = [job EXCEPT ![j].checkpoints = (job[j].kind = "customize")]
        /\ UNCHANGED faults
     \/ ~OwnsRow(j) /\ Goto(j, "endOk") /\ UNCHANGED <<row, job, faults>>
     \/ OwnsRow(j) /\ Fault("write") /\ Goto(j, "endOk") /\ UNCHANGED <<row, job>>
  /\ UNCHANGED <<state, lease, owner, aborted, provisioned, dashVars>>

\* No target is left for the customization.
SkipCustomization(j) ==
  /\ pc[j] = "claim" /\ job[j].kind = "customize"
  /\ WriteRow(j, "deployed", j)
  /\ Goto(j, "endOk")
  /\ UNCHANGED <<job, state, lease, owner, aborted, provisioned, dashVars>>

---------------------------------------------------------------------------
(* Job processors: the work *)

At(j, kind, phase) == job[j].kind = kind /\ pc[j] = phase

\* A command or a request fails, a wait times out, an abort is noticed.  A
\* destroy that fails may have removed every VM all the same.
FailWork(j) ==
  /\ pc[j] \in {"claim", "exec", "applying", "applied"}
  /\ Goto(j, "catch")
  /\ \/ UNCHANGED provisioned
     \/ At(j, "destroy", "applying") /\ provisioned' = provisioned \ {job[j].lab}
  /\ UNCHANGED <<row, job, state, lease, owner, aborted, dashVars, faults>>

\* deploy: init, plan, the VMID check, assertHeld, then terraform apply.  From
\* here on VMs may exist, whatever becomes of the job.
BeginApply(j) ==
  /\ At(j, "deploy", "exec") /\ CanGo(j)
  /\ provisioned' \in {provisioned, provisioned \cup {job[j].lab}}
  /\ Goto(j, "applying")
  /\ UNCHANGED <<row, job, state, lease, owner, aborted, dashVars, faults>>

\* A Ceph cfs-lock timeout: plan again, and check again before the next apply.
RetryApply(j) ==
  /\ At(j, "deploy", "applying") /\ CanGo(j)
  /\ job[j].tries < MaxApplyRetries
  /\ job' = [job EXCEPT ![j].tries = @ + 1]
  /\ Goto(j, "exec")
  /\ UNCHANGED <<row, state, lease, owner, aborted, provisioned, dashVars, faults>>

EndApply(j) ==
  /\ At(j, "deploy", "applying") /\ CanGo(j)
  /\ provisioned' = provisioned \cup {job[j].lab}
  /\ Goto(j, "applied")
  /\ UNCHANGED <<row, job, state, lease, owner, aborted, dashVars, faults>>

BeginDestroy(j) ==
  /\ At(j, "destroy", "exec") /\ CanGo(j)
  /\ Goto(j, "applying")
  /\ UNCHANGED <<row, job, state, lease, owner, aborted, provisioned, dashVars, faults>>

EndDestroy(j) ==
  /\ At(j, "destroy", "applying") /\ CanGo(j)
  /\ provisioned' = provisioned \ {job[j].lab}
  /\ Goto(j, "applied")
  /\ UNCHANGED <<row, job, state, lease, owner, aborted, dashVars, faults>>

\* removeDestroyedDeployment
RemoveRow_ByRun(j) ==
  /\ At(j, "destroy", "applied") /\ CanGo(j)
  /\ row' = IF OwnsRow(j) THEN [row EXCEPT ![job[j].lab] = None] ELSE row
  /\ Goto(j, "endOk")
  /\ UNCHANGED <<job, state, lease, owner, aborted, provisioned, dashVars, faults>>
RemoveRow(j) ==
  LET l == job[j].lab IN
  /\ At(j, "destroy", "applied") /\ CanGo(j)
  /\ IF OwnsRow(j) /\ row[l].status = "destroying" /\ row[l].action = "destroy"
     THEN row' = [row EXCEPT ![l] = None]
     ELSE UNCHANGED row
  /\ Goto(j, "endOk")
  /\ UNCHANGED <<job, state, lease, owner, aborted, provisioned, dashVars, faults>>

\* start and stop: the power requests, each after assertHeld.
RequestPower(j) ==
  /\ At(j, "start", "exec") \/ (At(j, "stop", "exec") /\ job[j].tries = 0)
  /\ CanGo(j)
  /\ Goto(j, "applied")
  /\ UNCHANGED <<row, job, state, lease, owner, aborted, provisioned, dashVars, faults>>

\* stopVerificationOnly: only for a row still stopping under the same run.
VerifyStop(j) ==
  /\ At(j, "stop", "exec") /\ job[j].tries > 0
  /\ Goto(j, IF OwnsRow(j) /\ row[job[j].lab].status = "stopping" THEN "applied" ELSE "endOk")
  /\ UNCHANGED <<row, job, state, lease, owner, aborted, provisioned, dashVars, faults>>

\* The guests answer, the VMs stopped, every playbook passed: the last status.
FinishWork(j) ==
  /\ \/ At(j, "start", "applied") /\ WriteRow(j, "running", j)
     \/ At(j, "stop", "applied") /\ WriteRow(j, "stopped", j)
     \/ At(j, "deploy", "applied") /\ WriteRow(j, "deployed", j)
     \/ At(j, "customize", "exec") /\ WriteRow(j, "deployed", j)
  /\ CanGo(j)
  /\ Goto(j, "endOk")
  /\ UNCHANGED <<job, state, lease, owner, aborted, provisioned, dashVars>>

\* Queue.add of the job that carries the run on.
QueueNext_Released(j, c, kind, tries) ==
  /\ state[c] = "unused"
  /\ job' = [NewJob(c, job[j].lab, kind, job[j].run, tries) EXCEPT ![j].next = c]
  /\ state' = [state EXCEPT ![c] = "pending"]
  /\ Goto(j, "handoff") /\ DropSession(j)
  /\ UNCHANGED <<row, provisioned, dashVars, faults>>
QueueNext(j, c, kind, tries) ==
  /\ state[c] = "unused"
  /\ job' = [NewJob(c, job[j].lab, kind, job[j].run, tries) EXCEPT ![j].next = c]
  /\ state' = [state EXCEPT ![c] = "pending"]
  /\ Goto(j, "handoff")
  /\ UNCHANGED <<row, lease, owner, aborted, provisioned, dashVars, faults>>

\* Some VM still runs after the wait: look again later.  Nothing is asserted.
DelayStop(j, c) ==
  /\ At(j, "stop", "applied") /\ job[j].tries < MaxStopRetries
  /\ QueueNext(j, c, "stop", job[j].tries + 1)

\* The retries are used up: the row stays stopping.
GiveUpStop(j) ==
  /\ At(j, "stop", "applied") /\ job[j].tries = MaxStopRetries
  /\ WriteRow(j, "stopping", j)
  /\ Goto(j, "endOk")
  /\ UNCHANGED <<job, state, lease, owner, aborted, provisioned, dashVars>>

\* Some ready VM has something to customize.
QueueCustomization(j, c) ==
  /\ At(j, "deploy", "applied") /\ CanGo(j)
  /\ QueueNext(j, c, "customize", 0)

\* The row is pointed at the queued job after the add, again unasserted.
RecordNext(j) ==
  /\ pc[j] = "handoff"
  /\ WriteRow(j, IF job[j].kind = "stop" THEN "stopping" ELSE "customizing", job[j].next)
  /\ Goto(j, "endOk")
  /\ UNCHANGED <<job, state, lease, owner, aborted, provisioned, dashVars>>

\* The catch block
RecordFailure(j) ==
  /\ pc[j] = "catch"
  /\ WriteRow(j, "failed", j)
  /\ Goto(j, "endFail")
  /\ UNCHANGED <<job, state, lease, owner, aborted, provisioned, dashVars>>

\* The finally block
ReleaseLocks(j) ==
  /\ pc[j] \in {"endOk", "endFail"}
  /\ DropSession(j)
  /\ Goto(j, IF pc[j] = "endOk" THEN "settleOk" ELSE "settleFail")
  /\ UNCHANGED <<row, job, state, provisioned, dashVars, faults>>

\* BullMQ records the outcome of a job it still counts as active.
SettleJob(j) ==
  /\ pc[j] \in {"settleOk", "settleFail"}
  /\ state' = [state EXCEPT ![j] = IF @ # "active" THEN @
                                   ELSE IF pc[j] = "settleOk" THEN "completed" ELSE "failed"]
  /\ Goto(j, "off")
  /\ UNCHANGED <<row, job, lease, owner, aborted, provisioned, dashVars, faults>>

---------------------------------------------------------------------------
(* Faults *)

\* The worker process dies; PostgreSQL drops its sessions.
KillProcessor(j) ==
  /\ pc[j] \notin {"off", "dead"}
  /\ Fault("crash")
  /\ DropSession(j)
  /\ Goto(j, "dead")
  /\ UNCHANGED <<row, job, state, provisioned, dashVars>>

\* PostgreSQL loses the session first; the probe notices within seconds.
LoseSession(j) ==
  /\ lease[j] = "held"
  /\ Fault("session")
  /\ lease' = [lease EXCEPT ![j] = "broken"]
  /\ owner' = Without(j)
  /\ UNCHANGED <<row, job, state, pc, aborted, provisioned, dashVars>>

NoticeLoss(j) ==
  /\ lease[j] = "broken" /\ j \notin aborted
  /\ aborted' = aborted \cup {j}
  /\ UNCHANGED <<row, job, state, pc, lease, owner, provisioned, dashVars, faults>>

\* BullMQ fails a job whose worker stopped renewing it (maxStalledCount 0): the
\* worker is dead, or it is only late and works on.
StallJob(j) ==
  /\ state[j] = "active"
  /\ \/ pc[j] = "dead" /\ Goto(j, "off") /\ UNCHANGED faults
     \/ pc[j] \notin {"off", "dead"} /\ Fault("stall") /\ UNCHANGED pc
  /\ state' = [state EXCEPT ![j] = "failed"]
  /\ stalls' = stalls \cup {j}
  /\ UNCHANGED <<row, job, lease, owner, aborted, provisioned, deleting, refresh, resume,
                 recovery, cancel, signals>>

\* worker.on('stalled')
HandleStall(j) ==
  /\ j \in stalls
  /\ stalls' = stalls \ {j}
  /\ WriteRow(j, "failed", j)
  /\ UNCHANGED <<job, state, procVars, provisioned, deleting, refresh, resume, recovery,
                 cancel, signals>>

---------------------------------------------------------------------------
(* The specification *)

Dashboard ==
  \/ \E j \in JobIds :
       \/ \E l \in Labs, action \in Actions : CheckRequest(j, l, action)
       \/ ClaimRequest(j) \/ EnqueueRequest(j) \/ ForgetJob(j)
       \/ CheckResume(j) \/ ClaimResume(j) \/ RetryResume(j)
  \/ \E l \in Labs : CheckDelete(l) \/ DeleteRow(l) \/ ReadRefresh(l) \/ WriteRefresh(l)
  \/ StartCancel \/ ResetRows \/ EndCancel
  \/ \E q \in Queues : SweepQueue(q)

Recovering(l) == ReadRecovery(l) \/ LockRecovery(l) \/ CheckRecovery(l) \/ WriteRecovery(l)

Processor(j) ==
  \/ TakeJob(j) \/ LockGlobal(j) \/ LockLab(j) \/ ClaimWork(j) \/ SkipCustomization(j)
  \/ BeginApply(j) \/ RetryApply(j) \/ EndApply(j) \/ BeginDestroy(j) \/ EndDestroy(j)
  \/ RemoveRow(j) \/ RequestPower(j) \/ VerifyStop(j) \/ FinishWork(j) \/ GiveUpStop(j)
  \/ \E c \in JobIds : DelayStop(j, c) \/ QueueCustomization(j, c)
  \/ RecordNext(j) \/ FailWork(j) \/ RecordFailure(j) \/ ReleaseLocks(j) \/ SettleJob(j)

Faulty(j) ==
  \/ LoseRequest(j) \/ LoseResume(j)
  \/ KillProcessor(j) \/ FailLock(j) \/ LoseSession(j) \/ NoticeLoss(j) \/ StallJob(j) \/ HandleStall(j)

Next ==
  \/ Dashboard
  \/ \E l \in Labs : Recovering(l)
  \/ \E j \in JobIds : Processor(j) \/ Faulty(j)
  \/ \E q \in Queues : HandleAbort(q)

Spec == Init /\ [][Next]_vars

---------------------------------------------------------------------------
(* Safety *)

\* A processor that believes it holds its locks and whose session is alive.
Holds(j) == pc[j] \in Leased /\ lease[j] = "held"

\* README: "Terraform and Ansible share a lock per lab, preventing simultaneous
\* operations on that lab across worker processes."  Two processors between the
\* lock and its release are never on the same lab, whatever crashes, stalls and
\* cancellations happen, as long as their sessions live.
OneOperationPerLab ==
  \A i, j \in JobIds :
    i # j /\ Holds(i) /\ Holds(j) => job[i].lab # job[j].lab

\* README: "only one Terraform deploy job globally, including redeployments,
\* through VM readiness checks": plan, apply and readiness of two deploys never
\* overlap while both sessions live.
OneDeployment ==
  \A i, j \in JobIds :
    i # j /\ Holds(i) /\ Holds(j) => ~(job[i].kind = "deploy" /\ job[j].kind = "deploy")

\* A start-up recovery and a processor never hold the lab together: the verdict
\* "abandoned" is not reached, nor written, while a live session works on it.
RecoveryAlone ==
  \A l \in Labs : \A j \in JobIds :
    recovery[l] # None /\ recovery[l].at \in {"locked", "dead"} /\ Holds(j) => job[j].lab # l

\* A lab changes hands only when it is at rest, and only to a run that was never
\* queued before: no stale job, recovery, refresh or resume gives a row back to
\* an older run or takes a busy row from its own.
RunHandover ==
  [][\A l \in Labs :
       row[l] # None /\ row'[l] # None /\ row'[l].run # row[l].run
         => row[l].status \notin Busy /\ state[row'[l].run] = "checked"]_vars

\* A row is only ever removed by a destroy that is done: while its status says
\* destroying and once no VM of the lab is left (without the delete request).
RemovedWhenDestroyed ==
  [][\A l \in Labs :
       row[l] # None /\ row'[l] = None /\ l \notin deleting
         => row[l].status = "destroying" /\ l \notin provisioned]_vars

\* While a job works under live locks, the row of its run shows the operation,
\* so no request can claim the lab beside it.  Only cancel-all and a delete
\* may change it under the job's feet (and a stalled-event, a fault).
WorkIsShown ==
  \A j \in JobIds :
    pc[j] \in Working /\ lease[j] = "held" /\ row[job[j].lab] # None /\ OwnsRow(j)
      => \/ row[job[j].lab].status = InProgress(job[j].kind)
         \/ row[job[j].lab].action = "cancelled"

\* Something still stands behind a busy row: the request that claimed it, a job
\* of its run that is queued or active, a resume under way, a 'stalled' event
\* to handle.  Only a stop whose retries are used up leaves a row busy for good.
Backed(l) ==
  \/ \E j \in JobIds :
       /\ job[j].lab = l /\ job[j].run = row[l].run
       /\ \/ state[j] \in {"claimed", "pending", "active"} \/ resume[j] = "claimed"
          \/ pc[j] \notin {"off", "dead"} \/ j \in stalls
  \/ \E j \in JobIds :
       row[l].job = j /\ row[l].status = "stopping" /\ job[j].tries = MaxStopRetries

BusyIsBacked ==
  \A l \in Labs : row[l] # None /\ row[l].status \in Busy => Backed(l)

\* A follow-up job (a stop verification, a customization) is queued first and
\* recorded in the row after: while that record is outstanding the follow-up has
\* written nothing, so the record never turns back what it achieved.
FollowUpWaits ==
  \A j \in JobIds :
    pc[j] = "handoff" /\ row[job[j].lab] # None => row[job[j].lab].job # job[j].next

---------------------------------------------------------------------------
(* What the documentation says and the code does not keep *)

\* README: "Cancel all jobs separately cancels active and pending work": after
\* cancel-all has marked a run cancelled, that run is not busy again.
CancelledStaysCancelled ==
  [][\A l \in Labs :
       (/\ row[l] # None /\ row[l].action = "cancelled"
        /\ row'[l] # None /\ row'[l].status \in Busy)
         => row'[l].run # row[l].run]_vars

\* DELETE answers "deployment can only be deleted when it is not deployed": a
\* busy row is not removed, except by its own destroy.
DeletedOnlyAtRest ==
  [][\A l \in Labs :
       row[l] # None /\ row'[l] = None /\ row[l].status # "destroying"
         => row[l].status \in {"idle", "failed", "destroyed"}]_vars

---------------------------------------------------------------------------
(* Liveness *)

\* The dashboard finishes the requests it has begun, the workers take jobs and
\* their steps end, BullMQ reports a stalled job.  Nothing obliges a user to ask,
\* a fault to happen or a command to fail.
Fairness ==
  /\ \A j \in JobIds :
       /\ WF_vars(ClaimRequest(j) \/ EnqueueRequest(j))
       /\ WF_vars(ClaimResume(j) \/ RetryResume(j))
       /\ WF_vars(Processor(j))
       /\ WF_vars(StallJob(j) /\ pc[j] = "dead")
       /\ WF_vars(HandleStall(j) \/ NoticeLoss(j))
  /\ \A l \in Labs : WF_vars(LockRecovery(l) \/ CheckRecovery(l) \/ WriteRecovery(l))

FairSpec == Spec /\ Fairness

\* Every operation ends: a busy row comes to rest (or is removed), but for a
\* stop that has given up.
GivenUp(l) ==
  /\ row[l].status = "stopping"
  /\ \E j \in JobIds : row[l].job = j /\ job[j].tries = MaxStopRetries

EveryOperationEnds ==
  \A l \in Labs :
    row[l] # None /\ row[l].status \in Busy
      ~> row[l] = None \/ row[l].status \notin Busy \/ GivenUp(l)

===========================================================================
