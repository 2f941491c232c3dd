---------------------------- MODULE Executions ----------------------------
(***************************************************************************)
(* The executions API, its repository, and the scheduler, lock service and *)
(* launcher that consume what it queues (present as compiled modules in    *)
(* dist/).  The status of an execution is written unconditionally by the   *)
(* API's cancel, the scheduler and the launcher; what keeps two applies of *)
(* one environment apart are the scheduler's conflict query, a Redis lock  *)
(* with a TTL, and the concurrency of 1 of both workers.                   *)
(*                                                                         *)
(* A definition X_Bug above X is X with a plausible bug, not used here.    *)
(***************************************************************************)
EXTENDS Naturals, FiniteSets

CONSTANTS
  Executions,
  Type,       \* "terraform_plan", "terraform_apply" or "ansible_run"
  Env,        \* project and environment
  GivenKey,   \* lockKey of the request, or None
  None,
  Expiry,     \* whether a lock's TTL may pass before it is released
  Cancels     \* whether executions are cancelled

ASSUME ExecutionsAssumption ==
  /\ None \notin Executions
  /\ Type \in [Executions -> {"terraform_plan", "terraform_apply", "ansible_run"}]
  /\ Expiry \in BOOLEAN /\ Cancels \in BOOLEAN

\* computeLockKey; an Ansible run of a target has a key of its own
LockKey(e) ==
  IF GivenKey[e] # None THEN GivenKey[e]
  ELSE <<Env[e], IF Type[e] = "ansible_run" THEN "target" ELSE "terraform">>
Keys == {LockKey(e) : e \in Executions}

VARIABLES
  status,     \* executions.status, "none" before the row exists
  creating,   \* requests between the INSERT and queue.add
  cancelling, \* cancel requests past their status check
  waiting,    \* schedule jobs
  sched,      \* the scheduler: the execution in hand and the next step
  scheduled,  \* launch jobs
  launch,     \* the launcher, likewise
  pods,       \* executions whose Kubernetes Job runs
  lock,       \* holder of a Redis lock
  late        \* executions whose lock has expired under them

vars == <<status, creating, cancelling, waiting, sched, scheduled, launch, pods, lock, late>>
api == <<creating, cancelling>>

Active == {"scheduled", "preparing", "running"}
Final == {"succeeded", "failed", "cancelled"}
Off == [e |-> None, pc |-> "idle"]

TypeOK ==
  /\ status \in [Executions -> Active \cup Final \cup {"none", "queued"}]
  /\ creating \cup cancelling \cup waiting \cup scheduled \cup pods \cup late
       \subseteq {e \in Executions : status[e] # "none"}
  /\ sched \in [e : Executions \cup {None}, pc : {"idle", "check", "lock", "mark", "hand"}]
  /\ launch \in [e : Executions \cup {None},
                 pc : {"idle", "prepare", "create", "mark", "wait", "ok", "fail", "release"}]
  /\ lock \in [Keys -> Executions \cup {None}]

SetStatus(e, s) == status' = [status EXCEPT ![e] = s]

---------------------------------------------------------------------------
(* API *)

Create(e) ==
  /\ status[e] = "none"
  /\ SetStatus(e, "queued")
  /\ creating' = creating \cup {e}
  /\ UNCHANGED <<cancelling, waiting, sched, scheduled, launch, pods, lock, late>>

Enqueue(e) ==
  /\ e \in creating
  /\ creating' = creating \ {e}
  /\ waiting' = waiting \cup {e}
  /\ UNCHANGED <<status, cancelling, sched, scheduled, launch, pods, lock, late>>

CheckCancel(e) ==
  /\ Cancels
  /\ status[e] \notin Final \cup {"none"}
  /\ cancelling' = cancelling \cup {e}
  /\ UNCHANGED <<status, creating, waiting, sched, scheduled, launch, pods, lock, late>>

WriteCancel(e) ==
  /\ e \in cancelling
  /\ cancelling' = cancelling \ {e}
  /\ SetStatus(e, "cancelled")
  /\ UNCHANGED <<creating, waiting, sched, scheduled, launch, pods, lock, late>>

---------------------------------------------------------------------------
(* Scheduler, one job at a time *)

Conflicts_Running(e, f) ==
  /\ f # e /\ Env[f] = Env[e] /\ status[f] \in {"preparing", "running"}
  /\ Type[e] \in {"terraform_apply", "terraform_plan"} /\ Type[f] = "terraform_apply"

\* hasSchedulingConflict: applies exclude applies and plans of their
\* environment, Ansible runs those of their target
Conflicts(e, f) ==
  /\ f # e /\ Env[f] = Env[e] /\ status[f] \in Active
  /\ \/ Type[e] \in {"terraform_apply", "terraform_plan"} /\ Type[f] = "terraform_apply"
     \/ Type[e] = "ansible_run" /\ Type[f] = "ansible_run"

ToSched(e, pc) == sched' = [e |-> e, pc |-> pc]

TakeSchedule(e) ==
  /\ sched = Off /\ e \in waiting
  /\ waiting' = waiting \ {e}
  /\ IF status[e] = "queued" THEN ToSched(e, "check") ELSE UNCHANGED sched
  /\ UNCHANGED <<status, api, scheduled, launch, pods, lock, late>>

Requeue_Drops(e) == sched' = Off /\ UNCHANGED waiting

Requeue(e) == sched' = Off /\ waiting' = waiting \cup {e}

CheckConflict ==
  /\ sched.pc = "check"
  /\ IF \E f \in Executions : Conflicts(sched.e, f)
     THEN Requeue(sched.e)
     ELSE ToSched(sched.e, "lock") /\ UNCHANGED waiting
  /\ UNCHANGED <<status, api, scheduled, launch, pods, lock, late>>

\* SET key value NX PX ttl
Acquire ==
  LET k == LockKey(sched.e) IN
  /\ sched.pc = "lock"
  /\ IF lock[k] # None
     THEN Requeue(sched.e) /\ UNCHANGED <<lock, late>>
     ELSE /\ lock' = [lock EXCEPT ![k] = sched.e]
          /\ ToSched(sched.e, "mark")
          /\ UNCHANGED <<waiting, late>>
  /\ UNCHANGED <<status, api, scheduled, launch, pods>>

MarkScheduled ==
  /\ sched.pc = "mark"
  /\ SetStatus(sched.e, "scheduled")
  /\ ToSched(sched.e, "hand")
  /\ UNCHANGED <<api, waiting, scheduled, launch, pods, lock, late>>

HandOver ==
  /\ sched.pc = "hand"
  /\ scheduled' = scheduled \cup {sched.e}
  /\ sched' = Off
  /\ UNCHANGED <<status, api, waiting, launch, pods, lock, late>>

---------------------------------------------------------------------------
(* Launcher, one job at a time *)

ToLaunch(pc) == launch' = [launch EXCEPT !.pc = pc]

\* "Skipping launch": the lock of an execution cancelled meanwhile is left to
\* its TTL.
TakeLaunch(e) ==
  /\ launch = Off /\ e \in scheduled
  /\ scheduled' = scheduled \ {e}
  /\ IF status[e] = "scheduled" THEN launch' = [e |-> e, pc |-> "prepare"]
     ELSE UNCHANGED launch
  /\ UNCHANGED <<status, api, waiting, sched, pods, lock, late>>

Prepare ==
  /\ launch.pc = "prepare"
  /\ SetStatus(launch.e, "preparing")
  /\ ToLaunch("create")
  /\ UNCHANGED <<api, waiting, sched, scheduled, pods, lock, late>>

CreateJob ==
  /\ launch.pc = "create"
  /\ \/ pods' = pods \cup {launch.e} /\ ToLaunch("mark")
     \/ UNCHANGED pods /\ ToLaunch("fail")
  /\ UNCHANGED <<status, api, waiting, sched, scheduled, lock, late>>

MarkRunning ==
  /\ launch.pc = "mark"
  /\ SetStatus(launch.e, "running")
  /\ ToLaunch("wait")
  /\ UNCHANGED <<api, waiting, sched, scheduled, pods, lock, late>>

PodEnds(e) ==
  /\ e \in pods
  /\ pods' = pods \ {e}
  /\ UNCHANGED <<status, api, waiting, sched, scheduled, launch, lock, late>>

\* The Job has ended, either way, or the wait times out.
Await ==
  /\ launch.pc = "wait"
  /\ \/ launch.e \notin pods /\ ToLaunch("ok")
     \/ ToLaunch("fail")
  /\ UNCHANGED <<status, api, waiting, sched, scheduled, pods, lock, late>>

Conclude ==
  /\ launch.pc \in {"ok", "fail"}
  /\ SetStatus(launch.e, IF launch.pc = "ok" THEN "succeeded" ELSE "failed")
  /\ ToLaunch("release")
  /\ UNCHANGED <<api, waiting, sched, scheduled, pods, lock, late>>

Freed_Any(k) == TRUE

\* The script compares the owner before it deletes the key.
Freed(k) == lock[k] = launch.e

Release ==
  LET k == LockKey(launch.e) IN
  /\ launch.pc = "release"
  /\ lock' = IF Freed(k) THEN [lock EXCEPT ![k] = None] ELSE lock
  /\ launch' = Off
  /\ UNCHANGED <<status, api, waiting, sched, scheduled, pods, late>>

\* The TTL passes; assumed after the holder has been handed over or dropped
\* unless Expiry.
Expire(k) ==
  /\ lock[k] # None
  /\ Expiry \/ lock[k] \notin {sched.e, launch.e} \cup scheduled \cup pods
  /\ lock' = [lock EXCEPT ![k] = None]
  /\ late' = late \cup {lock[k]}
  /\ UNCHANGED <<status, api, waiting, sched, scheduled, launch, pods>>

---------------------------------------------------------------------------
Init ==
  /\ status = [e \in Executions |-> "none"]
  /\ creating = {} /\ cancelling = {} /\ waiting = {} /\ scheduled = {} /\ pods = {}
  /\ sched = Off /\ launch = Off
  /\ lock = [k \in Keys |-> None] /\ late = {}

SchedulerNext == CheckConflict \/ Acquire \/ MarkScheduled \/ HandOver
LauncherNext == Prepare \/ CreateJob \/ MarkRunning \/ Await \/ Conclude \/ Release

Next ==
  \/ SchedulerNext \/ LauncherNext
  \/ \E e \in Executions :
       \/ Create(e) \/ Enqueue(e) \/ CheckCancel(e) \/ WriteCancel(e)
       \/ TakeSchedule(e) \/ TakeLaunch(e) \/ PodEnds(e)
  \/ \E k \in Keys : Expire(k)

Spec == Init /\ [][Next]_vars

\* Both workers run and do not die or throw between a status write and what they
\* queue next, queued jobs are taken in turn, a Job ends, a TTL passes.
FairSpec ==
  /\ Spec
  /\ WF_vars(SchedulerNext) /\ WF_vars(LauncherNext)
  /\ \A e \in Executions :
       /\ WF_vars(Enqueue(e)) /\ WF_vars(WriteCancel(e)) /\ WF_vars(PodEnds(e))
       /\ SF_vars(TakeSchedule(e)) /\ SF_vars(TakeLaunch(e))
       /\ SF_vars(Acquire /\ sched.e = e /\ lock[LockKey(e)] = None)
       /\ SF_vars(CheckConflict /\ sched.e = e /\ ~ \E f \in Executions : Conflicts(e, f))
  /\ \A k \in Keys : WF_vars(Expire(k))

---------------------------------------------------------------------------
(* Properties *)

\* "only one terraform apply per environment": two applies of an environment
\* are never both scheduled, preparing or running.
OneApplyPerEnvironment ==
  \A e, f \in Executions :
    /\ e # f /\ Env[e] = Env[f]
    /\ Type[e] = "terraform_apply" /\ Type[f] = "terraform_apply"
    => ~ (status[e] \in Active /\ status[f] \in Active)

\* An execution past the scheduler holds its lock until it is concluded or
\* its TTL has passed: nobody releases or takes another's lock, also not an
\* execution that outlived its own.
LockHeld ==
  \A e \in Executions :
    /\ e \notin late
    /\ \/ sched.e = e /\ sched.pc \in {"mark", "hand"}
       \/ e \in scheduled
       \/ launch.e = e
    => lock[LockKey(e)] = e

\* Every execution that is created comes to a final status, whatever it
\* conflicts with and whoever is cancelled in between.
EveryExecutionEnds ==
  \A e \in Executions : (status[e] = "queued") ~> (status[e] \in Final)
===========================================================================
