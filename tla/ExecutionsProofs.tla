-------------------------- MODULE ExecutionsProofs --------------------------
(***************************************************************************)
(* Proofs about Executions, for any number of executions, environments and *)
(* keys: types, the lock an execution holds on its way through the         *)
(* scheduler and the launcher, and the two mechanisms that keep the        *)
(* applies of an environment apart, each of which is enough alone under    *)
(* its own assumption: the scheduler's conflict query when nobody cancels, *)
(* the lock when the keys are computed and no TTL passes under a holder.   *)
(***************************************************************************)
EXTENDS Executions, TLAPS

\* The executions a step can change the status of or hand on
LEMMA Fields ==
  ASSUME TypeOK
  PROVE  /\ sched.e \in Executions \cup {None} /\ launch.e \in Executions \cup {None}
         /\ sched = [e |-> sched.e, pc |-> sched.pc] /\ launch = [e |-> launch.e, pc |-> launch.pc]
         /\ sched.pc \in {"idle", "check", "lock", "mark", "hand"}
         /\ launch.pc \in {"idle", "prepare", "create", "mark", "wait", "ok", "fail", "release"}
BY DEF TypeOK

---------------------------------------------------------------------------
(* Where an execution is *)

\* An execution is in one place of the pipeline at most: between its INSERT
\* and its first queue, in one of the queues, or in the hands of the scheduler
\* or the launcher; before it is created it is in none.  A lock is held under
\* its holder's key.
Pipeline ==
  /\ sched.pc = "idle" <=> sched.e = None
  /\ launch.pc = "idle" <=> launch.e = None
  /\ creating \cap (waiting \cup scheduled) = {} /\ waiting \cap scheduled = {}
  /\ {sched.e, launch.e} \cap (creating \cup waiting \cup scheduled) = {}
  /\ sched.e = launch.e => sched.e = None
  /\ \A e \in {sched.e, launch.e} \ {None} : status[e] # "none"
  /\ \A k \in Keys : lock[k] # None => LockKey(lock[k]) = k /\ status[lock[k]] # "none"

Placed == TypeOK /\ Pipeline

\* Every step keeps the types, and moves an execution from one place to the next.
LEMMA PlacedStep == Placed /\ [Next]_vars => Placed'
<1> SUFFICES ASSUME TypeOK, Pipeline, [Next]_vars PROVE TypeOK' /\ Pipeline'
  BY DEF Placed
<1> USE ExecutionsAssumption DEF Off, Active, Final, SetStatus, ToSched, ToLaunch, api
<1>1. CASE SchedulerNext
  BY <1>1, Fields DEF SchedulerNext, CheckConflict, Acquire, MarkScheduled, HandOver, Requeue, TypeOK, Pipeline, Keys
<1>2. CASE LauncherNext
  BY <1>2, Fields DEF LauncherNext, Prepare, CreateJob, MarkRunning, Await, Conclude, Release, TypeOK, Pipeline, Keys
<1>3. ASSUME NEW e \in Executions, Create(e) \/ Enqueue(e) \/ CheckCancel(e) \/ WriteCancel(e)
      PROVE  TypeOK' /\ Pipeline'
  <2>1. CASE Create(e)
    BY <2>1, Fields DEF Create, TypeOK, Pipeline
  <2>2. CASE Enqueue(e)
    BY <2>2, Fields DEF Enqueue, TypeOK, Pipeline
  <2>3. CASE CheckCancel(e)
    BY <2>3, Fields DEF CheckCancel, TypeOK, Pipeline
  <2>4. CASE WriteCancel(e)
    BY <2>4, Fields DEF WriteCancel, TypeOK, Pipeline
  <2> QED BY <1>3, <2>1, <2>2, <2>3, <2>4
<1>4. ASSUME NEW e \in Executions, TakeSchedule(e) \/ TakeLaunch(e) \/ PodEnds(e)
      PROVE  TypeOK' /\ Pipeline'
  BY <1>4, Fields DEF TakeSchedule, TakeLaunch, PodEnds, TypeOK, Pipeline
<1>5. ASSUME NEW k \in Keys, Expire(k) PROVE TypeOK' /\ Pipeline'
  BY <1>5, Fields DEF Expire, TypeOK, Pipeline
<1>6. CASE UNCHANGED vars
  BY <1>6 DEF vars, TypeOK, Pipeline
<1> QED BY <1>1, <1>2, <1>3, <1>4, <1>5, <1>6 DEF Next

\* Every reachable state is well typed: each status is one of the code's, and
\* what is queued, cancelled or runs in a pod is an execution that was created.
THEOREM ExecutionTypes == Spec => []TypeOK
<1>1. Init => Placed
  BY ExecutionsAssumption DEF Init, Placed, TypeOK, Pipeline, Off, Active, Final
<1>2. Placed => TypeOK
  BY DEF Placed
<1> QED BY <1>1, <1>2, PlacedStep, PTL DEF Spec

---------------------------------------------------------------------------
(* The lock *)

\* The lock of an execution past the scheduler is its own: nobody takes it
\* while it is held, and an execution that outlived its own lock does not
\* release the one another has taken since.
LEMMA LockStep == Placed /\ LockHeld /\ [Next]_vars => LockHeld'
<1> SUFFICES ASSUME TypeOK, Pipeline, LockHeld, [Next]_vars PROVE LockHeld'
  BY DEF Placed
<1> USE ExecutionsAssumption DEF Off, Active, Final, SetStatus, ToSched, ToLaunch, api
<1>1. CASE SchedulerNext
  <2>1. CASE CheckConflict
    BY <2>1, Fields DEF CheckConflict, Requeue, TypeOK, Pipeline, LockHeld
  <2>2. CASE Acquire
    BY <2>2, Fields DEF Acquire, Requeue, TypeOK, Pipeline, LockHeld, Keys
  <2>3. CASE MarkScheduled \/ HandOver
    BY <2>3, Fields DEF MarkScheduled, HandOver, TypeOK, Pipeline, LockHeld
  <2> QED BY <1>1, <2>1, <2>2, <2>3 DEF SchedulerNext
<1>2. CASE LauncherNext
  <2>1. CASE Release
    BY <2>1, Fields DEF Release, Freed, TypeOK, Pipeline, LockHeld, Keys
  <2>2. CASE Prepare \/ CreateJob \/ MarkRunning \/ Await \/ Conclude
    BY <2>2, Fields DEF Prepare, CreateJob, MarkRunning, Await, Conclude, TypeOK, Pipeline, LockHeld
  <2> QED BY <1>2, <2>1, <2>2 DEF LauncherNext
<1>3. ASSUME NEW e \in Executions,
             Create(e) \/ Enqueue(e) \/ CheckCancel(e) \/ WriteCancel(e) \/ PodEnds(e)
      PROVE  LockHeld'
  BY <1>3 DEF Create, Enqueue, CheckCancel, WriteCancel, PodEnds, LockHeld
<1>4. ASSUME NEW e \in Executions, TakeSchedule(e) \/ TakeLaunch(e)
      PROVE  LockHeld'
  BY <1>4, Fields DEF TakeSchedule, TakeLaunch, LockHeld
<1>5. ASSUME NEW k \in Keys, Expire(k) PROVE LockHeld'
  BY <1>5 DEF Expire, TypeOK, Pipeline, LockHeld
<1>6. CASE UNCHANGED vars
  BY <1>6 DEF vars, LockHeld
<1> QED BY <1>1, <1>2, <1>3, <1>4, <1>5, <1>6 DEF Next

\* An execution past the scheduler holds its lock until it is concluded or its
\* TTL has passed, whatever keys are given, whoever is cancelled, and also
\* when locks expire under their holders.
THEOREM LocksAreHeld == Spec => []LockHeld
<1>1. Init => Placed /\ LockHeld
  BY ExecutionsAssumption DEF Init, Placed, TypeOK, Pipeline, Off, Active, Final, LockHeld
<1> QED BY <1>1, PlacedStep, LockStep, PTL DEF Spec

---------------------------------------------------------------------------
(* The scheduler's query *)

Launched == {launch.e} \cap Executions

\* As long as nobody cancels, an execution's status says where it is, and
\* whoever is past the conflict query still has no conflict.
Honest ==
  /\ cancelling = {}
  /\ \A e \in creating \cup waiting : status[e] = "queued"
  /\ sched.pc \in {"check", "lock", "mark"} => status[sched.e] = "queued"
  /\ sched.pc = "hand" => status[sched.e] = "scheduled"
  /\ \A e \in scheduled : status[e] = "scheduled"
  /\ launch.pc \in {"prepare", "create", "mark", "wait"} => status[launch.e] \in Active
Unopposed ==
  sched.pc \in {"lock", "mark"} => \A f \in Executions : ~ Conflicts(sched.e, f)

\* Only the scheduler makes an execution active, the one it has just checked.
LEMMA QueryStep ==
  ASSUME ~ Cancels, Placed, Honest, [Next]_vars
  PROVE  /\ Honest'
         /\ Unopposed => Unopposed'
         /\ Unopposed /\ OneApplyPerEnvironment => OneApplyPerEnvironment'
<1> USE ExecutionsAssumption DEF Placed, Off, Active, Final, SetStatus, ToSched, ToLaunch, api
<1> DEFINE Goal == /\ Honest'
                   /\ Unopposed => Unopposed'
                   /\ Unopposed /\ OneApplyPerEnvironment => OneApplyPerEnvironment'
<1>1. CASE CheckConflict \/ Acquire \/ HandOver
  BY <1>1, Fields DEF CheckConflict, Acquire, HandOver, Requeue, TypeOK, Pipeline, Honest, Unopposed,
     Conflicts, OneApplyPerEnvironment
<1>2. CASE MarkScheduled
  BY <1>2, Fields DEF MarkScheduled, TypeOK, Pipeline, Honest, Unopposed, Conflicts, OneApplyPerEnvironment
<1>3. CASE LauncherNext
  <2>1. Honest'
    BY <1>3, Fields DEF LauncherNext, Prepare, CreateJob, MarkRunning, Await, Conclude, Release,
       TypeOK, Pipeline, Honest
  <2>2. \A e \in Executions : status'[e] \in Active => status[e] \in Active
    BY <1>3, Fields DEF LauncherNext, Prepare, CreateJob, MarkRunning, Await, Conclude, Release, TypeOK, Honest
  <2>3. sched' = sched
    BY <1>3 DEF LauncherNext, Prepare, CreateJob, MarkRunning, Await, Conclude, Release
  <2> QED BY <2>1, <2>2, <2>3, Fields DEF Unopposed, Conflicts, OneApplyPerEnvironment
<1>4. ASSUME NEW e \in Executions,
             Create(e) \/ Enqueue(e) \/ CheckCancel(e) \/ WriteCancel(e) \/ PodEnds(e)
      PROVE  Goal
  BY <1>4, Fields DEF Create, Enqueue, CheckCancel, WriteCancel, PodEnds, TypeOK, Pipeline, Honest,
     Unopposed, Conflicts, OneApplyPerEnvironment
<1>5. ASSUME NEW e \in Executions, TakeSchedule(e) \/ TakeLaunch(e)
      PROVE  Goal
  BY <1>5, Fields DEF TakeSchedule, TakeLaunch, TypeOK, Pipeline, Honest, Unopposed, Conflicts,
     OneApplyPerEnvironment
<1>6. ASSUME NEW k \in Keys, Expire(k) PROVE Goal
  BY <1>6 DEF Expire, Honest, Unopposed, Conflicts, OneApplyPerEnvironment
<1>7. CASE UNCHANGED vars
  BY <1>7 DEF vars, Honest, Unopposed, Conflicts, OneApplyPerEnvironment
<1> QED BY <1>1, <1>2, <1>3, <1>4, <1>5, <1>6, <1>7 DEF Next, SchedulerNext

---------------------------------------------------------------------------
(* The lock, where it keeps applies apart *)

Computed == \A e \in Executions : GivenKey[e] = None

\* As long as no TTL passes under a holder, an execution whose status is
\* active is past the scheduler, with its lock, also when cancelled executions
\* leave theirs behind or are written back to an active status.
Owned ==
  /\ \A k \in Keys : lock[k] # None =>
       /\ lock[k] \notin creating \cup waiting
       /\ sched.e = lock[k] => sched.pc \in {"mark", "hand"}
  /\ late \cap (creating \cup waiting \cup scheduled \cup {sched.e, launch.e}) = {}
  /\ \A e \in Executions : status[e] \in Active =>
       \/ sched.e = e /\ sched.pc = "hand"
       \/ e \in scheduled
       \/ launch.e = e /\ launch.pc # "release"
  /\ \A e \in scheduled : status[e] \in Active => status[e] = "scheduled"
  /\ sched.pc = "hand" /\ status[sched.e] \in Active => status[sched.e] = "scheduled"

LEMMA OwnedStep == ~ Expiry /\ Placed /\ Owned /\ [Next]_vars => Owned'
<1> SUFFICES ASSUME ~ Expiry, TypeOK, Pipeline, Owned, [Next]_vars PROVE Owned'
  BY DEF Placed
<1> USE ExecutionsAssumption DEF Off, Active, Final, SetStatus, ToSched, ToLaunch, api
<1>1. CASE SchedulerNext
  <2>1. CASE CheckConflict \/ MarkScheduled \/ HandOver
    BY <2>1, Fields DEF CheckConflict, Requeue, MarkScheduled, HandOver, TypeOK, Pipeline, Owned
  <2>2. CASE Acquire
    BY <2>2, Fields DEF Acquire, Requeue, TypeOK, Pipeline, Owned, Keys
  <2> QED BY <1>1, <2>1, <2>2 DEF SchedulerNext
<1>2. CASE LauncherNext
  BY <1>2, Fields DEF LauncherNext, Prepare, CreateJob, MarkRunning, Await, Conclude, Release, Freed,
     TypeOK, Pipeline, Owned, Keys
<1>3. ASSUME NEW e \in Executions,
             Create(e) \/ Enqueue(e) \/ CheckCancel(e) \/ WriteCancel(e) \/ PodEnds(e)
      PROVE  Owned'
  BY <1>3, Fields DEF Create, Enqueue, CheckCancel, WriteCancel, PodEnds, TypeOK, Pipeline, Owned
<1>4. ASSUME NEW e \in Executions, TakeSchedule(e) \/ TakeLaunch(e)
      PROVE  Owned'
  BY <1>4, Fields DEF TakeSchedule, TakeLaunch, TypeOK, Pipeline, Owned
<1>5. ASSUME NEW k \in Keys, Expire(k) PROVE Owned'
  BY <1>5, Fields DEF Expire, TypeOK, Pipeline, Owned
<1>6. CASE UNCHANGED vars
  BY <1>6 DEF vars, Owned
<1> QED BY <1>1, <1>2, <1>3, <1>4, <1>5, <1>6 DEF Next

\* Two applies of an environment have the same key, and only one of them holds
\* its lock.
LEMMA OwnersApart ==
  ASSUME Computed, Placed, LockHeld, Owned
  PROVE  OneApplyPerEnvironment
<1> SUFFICES ASSUME NEW e \in Executions, NEW f \in Executions, Env[e] = Env[f],
                    Type[e] = "terraform_apply", Type[f] = "terraform_apply",
                    status[e] \in Active, status[f] \in Active
             PROVE  e = f
  BY DEF OneApplyPerEnvironment
<1>1. ASSUME NEW g \in {e, f} PROVE lock[LockKey(g)] = g
  BY DEF Owned, LockHeld
<1>2. LockKey(e) = LockKey(f)
  BY DEF LockKey, Computed
<1> QED BY <1>1, <1>2

---------------------------------------------------------------------------

\* "only one terraform apply per environment": two applies of an environment
\* are never both scheduled, preparing or running, if nobody cancels (then the
\* query alone keeps them apart, whatever keys requests give), or if keys are
\* computed and no lock expires under its holder (then the lock does, whoever
\* is cancelled).  Each assumption is needed: a cancelled execution the
\* launcher holds is invisible to the query until it is written back.
THEOREM AppliesAreApart ==
  ASSUME ~ Cancels \/ (Computed /\ ~ Expiry)
  PROVE  Spec => []OneApplyPerEnvironment
<1>1. Init => Placed /\ LockHeld
  BY ExecutionsAssumption DEF Init, Placed, TypeOK, Pipeline, Off, Active, Final, LockHeld
<1>2. CASE ~ Cancels
  <2>1. Init => Honest /\ Unopposed /\ OneApplyPerEnvironment
    BY DEF Init, Honest, Unopposed, OneApplyPerEnvironment, Off, Active
  <2>2. Placed /\ Honest /\ Unopposed /\ OneApplyPerEnvironment /\ [Next]_vars
          => (Honest /\ Unopposed /\ OneApplyPerEnvironment)'
    BY <1>2, QueryStep
  <2> QED BY <1>1, <2>1, <2>2, PlacedStep, PTL DEF Spec
<1>3. CASE Computed /\ ~ Expiry
  <2>1. Init => Owned
    BY ExecutionsAssumption DEF Init, Owned, Off, Active
  <2>2. Placed /\ Owned /\ [Next]_vars => Owned'
    BY <1>3, OwnedStep
  <2>3. Placed /\ LockHeld /\ Owned => OneApplyPerEnvironment
    BY <1>3, OwnersApart
  <2> QED BY <1>1, <2>1, <2>2, <2>3, PlacedStep, LockStep, PTL DEF Spec
<1> QED BY <1>2, <1>3

===========================================================================
