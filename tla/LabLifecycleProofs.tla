------------------------ MODULE LabLifecycleProofs ------------------------
(***************************************************************************)
(* Theorems about LabLifecycle for every number of labs, jobs and workers, *)
(* every mix of operations and any number of faults: the lifecycle is well *)
(* typed, the advisory locks exclude what they are meant to exclude, and a *)
(* row changes hands only when it is at rest.                              *)
(*                                                                         *)
(* What a row says about the work on its lab follows: it is removed only   *)
(* when the VMs are gone, a working job is shown by its row, a follow-up   *)
(* waits until it is recorded, and something stands behind every busy row. *)
(* The advisory locks alone do not give this: each of these theorems names *)
(* the faults it excludes.                                                 *)
(***************************************************************************)
EXTENDS LabLifecycle, TLAPS

\* A job that is worked on, stalled or resumed was created by a request or by
\* its parent, for a lab; a processor that records a follow-up job has one.
JobsTaken ==
  \A j \in JobIds :
    /\ state[j] # "unused" => job[j].lab \in Labs
    /\ pc[j] # "off" \/ j \in stalls \/ resume[j] # "no" => state[j] # "unused"
    /\ pc[j] = "handoff" => job[j].next \in JobIds

\* What stands behind a lease: as long as its session lives, the session owns
\* the advisory lock of the lab and, for a deploy, the global one.
LocksHeld ==
  /\ \A j \in JobIds :
       /\ pc[j] \notin Leased => lease[j] = "none"
       /\ Holds(j) => owner[job[j].lab] = j
       /\ Holds(j) \/ pc[j] = "lab" =>
            (job[j].kind = "deploy" => owner[GlobalKey] = j)
  /\ \A l \in Labs :
       recovery[l] # None /\ recovery[l].at \in {"locked", "dead"} => owner[l] = Recovery

IInv == TypeOK /\ JobsTaken /\ LocksHeld

---------------------------------------------------------------------------
(* Values *)

\* The status strings of the code are statuses of the row.
LEMMA StatusTypes ==
  /\ \A kind \in Kinds : InitialStatus(kind) \in Busy /\ InProgress(kind) \in Busy
  /\ Busy \subseteq Status /\ Resting \subseteq Status
  /\ Status = Busy \cup Resting
BY DEF InitialStatus, InProgress, Kinds, Actions, Busy, Resting, Status

\* Refreshing a row at rest leaves it at rest.
LEMMA DerivedRests ==
  ASSUME TypeOK, NEW l \in Labs, row[l] # None, row[l].status \notin Busy
  PROVE  Derived(l, TRUE) \subseteq Resting
<1>1. row[l].status \in Resting
  BY StatusTypes DEF TypeOK, Row
<1>. QED
  BY <1>1 DEF Derived, Resting

\* Changing the status, or the status and the action, of a row.
RowAction == Kinds \cup {"prepare", "refresh", "cancelled", "worker-restarted"}

LEMMA RowUpdate ==
  ASSUME NEW r \in Row, NEW status \in Status, NEW action \in RowAction
  PROVE  /\ [r EXCEPT !.status = status] \in Row
         /\ [r EXCEPT !.status = status, !.action = action] \in Row
<1>1. ASSUME NEW q \in Row PROVE [q EXCEPT !.status = status] \in Row
  BY <1>1 DEF Row
<1>2. ASSUME NEW q \in Row PROVE [q EXCEPT !.action = action] \in Row
  BY <1>2 DEF Row, RowAction
<1>. QED
  BY <1>1, <1>2

\* A fenced write keeps the rows well typed.
LEMMA SetRowType ==
  ASSUME TypeOK, NEW j \in JobIds, NEW status \in Status, NEW id \in JobIds,
         SetRow(j, status, id)
  PROVE  row' \in [Labs -> Row \cup {None}]
<1>1. [status |-> status, action |-> job[id].kind, job |-> id, run |-> job[j].run] \in Row
  BY DEF TypeOK, Job, Row
<1>. QED
  BY <1>1 DEF TypeOK, SetRow

\* So does the swallowing write built on it, which may also count a fault.
LEMMA WriteRowType ==
  ASSUME TypeOK, NEW j \in JobIds, NEW status \in Status, NEW id \in JobIds,
         WriteRow(j, status, id)
  PROVE  row' \in [Labs -> Row \cup {None}] /\ faults' \in 0 .. MaxFaults
<1>1. ASSUME NEW kind, Fault(kind) PROVE faults' \in 0 .. MaxFaults
  BY <1>1, ConstantsAssumption DEF Fault, TypeOK
<1>2. CASE OwnsRow(j) /\ SetRow(j, status, id) /\ UNCHANGED faults
  BY <1>2, SetRowType DEF TypeOK
<1>3. CASE ~OwnsRow(j) /\ UNCHANGED <<row, faults>>
  BY <1>3 DEF TypeOK
<1>4. CASE OwnsRow(j) /\ Fault("write") /\ UNCHANGED row
  BY <1>1, <1>4 DEF TypeOK
<1>. QED
  BY <1>2, <1>3, <1>4 DEF WriteRow

\* A new job is well typed, and creating it touches no other job.
LEMMA NewJobType ==
  ASSUME TypeOK, NEW j \in JobIds, NEW l \in Labs \cup {None}, NEW kind \in Kinds,
         NEW run \in JobIds \cup {None}, NEW tries \in Nat
  PROVE  /\ NewJob(j, l, kind, run, tries) \in [JobIds -> Job]
         /\ \A i \in JobIds \ {j} : NewJob(j, l, kind, run, tries)[i] = job[i]
         /\ NewJob(j, l, kind, run, tries)[j].lab = l
BY DEF NewJob, Job, TypeOK

---------------------------------------------------------------------------
(* Type correctness *)

\* A step of the dashboard (request, claim, enqueue, resume, delete, refresh,
\* cancel-all) keeps every variable well typed.
LEMMA TypeDashboard == ASSUME IInv, Dashboard PROVE TypeOK'
<1>. USE DEF IInv, dashVars, procVars
<1>1. ASSUME NEW j \in JobIds, NEW l \in Labs, NEW action \in Actions, CheckRequest(j, l, action)
      PROVE  TypeOK'
  <2>1. job' \in [JobIds -> Job]
    BY <1>1, NewJobType DEF CheckRequest, Kinds
  <2>. QED
    BY <1>1, <2>1 DEF CheckRequest, TypeOK, JobState
<1>2. ASSUME NEW j \in JobIds, ClaimRequest(j) PROVE TypeOK'
  <2>1. [status |-> InitialStatus(job[j].kind), action |-> job[j].kind, job |-> j, run |-> j] \in Row
    BY StatusTypes DEF TypeOK, Job, Row
  <2>2. row' \in [Labs -> Row \cup {None}]
    BY <1>2, <2>1 DEF ClaimRequest, TypeOK
  <2>. QED
    BY <1>2, <2>2 DEF ClaimRequest, TypeOK, JobState
<1>3. ASSUME NEW j \in JobIds, EnqueueRequest(j) \/ ForgetJob(j) PROVE TypeOK'
  BY <1>3 DEF EnqueueRequest, ForgetJob, TypeOK, JobState
<1>4. ASSUME NEW j \in JobIds, CheckResume(j) PROVE TypeOK'
  BY <1>4 DEF CheckResume, TypeOK
<1>5. ASSUME NEW j \in JobIds, ClaimResume(j) PROVE TypeOK'
  <2>1. row' \in [Labs -> Row \cup {None}]
    BY <1>5 DEF ClaimResume, Resumable, JobsTaken, TypeOK, Row, Status, Busy
  <2>. QED
    BY <1>5, <2>1 DEF ClaimResume, TypeOK
<1>6. ASSUME NEW j \in JobIds, RetryResume(j) PROVE TypeOK'
  <2>1. row' \in [Labs -> Row \cup {None}]
    BY <1>6 DEF RetryResume, Resumable, JobsTaken, TypeOK, Row, Status, Resting
  <2>. QED
    BY <1>6, <2>1 DEF RetryResume, TypeOK, JobState
<1>7. ASSUME NEW l \in Labs, CheckDelete(l) \/ DeleteRow(l) PROVE TypeOK'
  BY <1>7 DEF CheckDelete, DeleteRow, TypeOK
<1>8. ASSUME NEW l \in Labs, ReadRefresh(l) PROVE TypeOK'
  <2>1. row[l].status \in Resting /\ row[l].run \in JobIds \cup {None}
    BY <1>8, StatusTypes DEF ReadRefresh, TypeOK, Row
  <2>2. Derived(l, TRUE) \subseteq Resting
    BY <1>8, DerivedRests DEF ReadRefresh
  <2>3. PICK to \in Resting :
          refresh' = [refresh EXCEPT ![l] = [status |-> row[l].status, run |-> row[l].run, to |-> to]]
    BY <1>8, <2>2 DEF ReadRefresh
  <2>4. [status |-> row[l].status, run |-> row[l].run, to |-> to]
          \in [status : Resting, run : JobIds \cup {None}, to : Resting]
    BY <2>1
  <2>. QED
    BY <1>8, <2>3, <2>4 DEF ReadRefresh, TypeOK
<1>9. ASSUME NEW l \in Labs, WriteRefresh(l) PROVE TypeOK'
  <2>1. row' \in [Labs -> Row \cup {None}]
    <3>1. refresh[l].to \in Status
      BY <1>9, StatusTypes DEF WriteRefresh, TypeOK
    <3>2. row[l] # None => [row[l] EXCEPT !.status = refresh[l].to, !.action = "refresh"] \in Row
      BY <3>1, RowUpdate DEF TypeOK, RowAction
    <3>. QED
      BY <1>9, <3>2 DEF WriteRefresh, TypeOK
  <2>. QED
    BY <1>9, <2>1 DEF WriteRefresh, TypeOK
<1>10. ASSUME StartCancel \/ EndCancel PROVE TypeOK'
  BY <1>10 DEF StartCancel, EndCancel, TypeOK
<1>11. ASSUME ResetRows PROVE TypeOK'
  <2>1. ASSUME NEW l \in Labs, row[l] # None
        PROVE  [row[l] EXCEPT !.status = "failed", !.action = "cancelled"] \in Row
    BY <2>1, RowUpdate DEF TypeOK, RowAction, Status, Resting
  <2>2. row' \in [Labs -> Row \cup {None}]
    BY <1>11, <2>1 DEF ResetRows, TypeOK
  <2>. QED
    BY <1>11, <2>2 DEF ResetRows, TypeOK
<1>12. ASSUME NEW q \in Queues, SweepQueue(q) PROVE TypeOK'
  BY <1>12 DEF SweepQueue, TypeOK, JobState
<1>. QED
  BY <1>1, <1>2, <1>3, <1>4, <1>5, <1>6, <1>7, <1>8, <1>9, <1>10, <1>11, <1>12 DEF Dashboard

\* A step of the start-up recovery keeps every variable well typed.
LEMMA TypeRecovery ==
  ASSUME IInv, NEW l \in Labs, Recovering(l)
  PROVE  TypeOK'
<1>. USE DEF IInv, dashVars, procVars
<1>1. CASE ReadRecovery(l)
  <2>1. row[l] \in Row
    BY <1>1 DEF ReadRecovery, TypeOK
  <2>. QED
    BY <1>1, <2>1 DEF ReadRecovery, TypeOK, Row
<1>2. CASE LockRecovery(l)
  BY <1>2 DEF LockRecovery, TryLock, Recover, RecoverySettled, TypeOK, Keys
<1>3. CASE CheckRecovery(l)
  BY <1>3 DEF CheckRecovery, Recover, RecoverySettled, TypeOK, Keys
<1>4. CASE WriteRecovery(l)
  <2>1. row' \in [Labs -> Row \cup {None}]
    <3>. DEFINE action == IF recovery[l].status = "customizing" THEN "customize"
                          ELSE "worker-restarted"
    <3>1. action \in RowAction
      BY DEF RowAction, Kinds
    <3>. HIDE DEF action
    <3>2. row[l] # None => [row[l] EXCEPT !.status = "failed", !.action = action] \in Row
      BY <3>1, RowUpdate DEF TypeOK, Status, Resting
    <3>3. \/ UNCHANGED row
          \/ /\ row[l] # None
             /\ row' = [row EXCEPT ![l] = [@ EXCEPT !.status = "failed", !.action = action]]
      BY <1>4 DEF WriteRecovery, action, TypeOK
    <3>. QED
      BY <3>2, <3>3 DEF TypeOK
  <2>. QED
    BY <1>4, <2>1 DEF WriteRecovery, RecoverySettled, TypeOK, Keys
<1>. QED
  BY <1>1, <1>2, <1>3, <1>4 DEF Recovering

\* Releasing a session keeps locks, leases and aborts well typed.
LEMMA DropSessionType ==
  ASSUME TypeOK, NEW j \in JobIds, DropSession(j)
  PROVE  /\ owner' \in [Keys -> JobIds \cup {Recovery, None}]
         /\ lease' \in [JobIds -> {"none", "held", "broken"}]
         /\ aborted' \subseteq JobIds
BY DEF DropSession, Without, TypeOK

\* A job sent back for want of a lock is well typed, and holds nothing.
LEMMA BounceType ==
  ASSUME TypeOK, NEW j \in JobIds, Bounce(j)
  PROVE  /\ owner' \in [Keys -> JobIds \cup {Recovery, None}]
         /\ lease' \in [JobIds -> {"none", "held", "broken"}]
         /\ aborted' \subseteq JobIds
         /\ pc' \in [JobIds -> Phase]
         /\ state' \in [JobIds -> JobState]
BY DropSessionType DEF Bounce, Goto, TypeOK, Phase, JobState

\* Queueing the job that carries a run on.
LEMMA QueueNextType ==
  ASSUME IInv, NEW j \in JobIds, pc[j] # "off", NEW c \in JobIds, NEW kind \in Kinds,
         NEW tries \in Nat, QueueNext(j, c, kind, tries)
  PROVE  TypeOK'
<1>. DEFINE new == NewJob(c, job[j].lab, kind, job[j].run, tries)
<1>1. job[j].lab \in Labs /\ job[j].run \in JobIds \cup {None}
  BY DEF IInv, JobsTaken, TypeOK, Job
<1>2. new \in [JobIds -> Job]
  BY <1>1, NewJobType DEF IInv
<1>3. [new[j] EXCEPT !.next = c] \in Job
  BY <1>2 DEF Job
<1>4. job' = [new EXCEPT ![j] = [new[j] EXCEPT !.next = c]]
  BY <1>2 DEF QueueNext
<1>5. job' \in [JobIds -> Job]
  BY <1>2, <1>3, <1>4
<1>6. pc' \in [JobIds -> Phase] /\ state' \in [JobIds -> JobState]
  BY DEF QueueNext, Goto, IInv, TypeOK, Phase, Leased, Working, JobState
<1>. QED
  BY <1>5, <1>6 DEF QueueNext, IInv, TypeOK, dashVars

\* A step of a job processor keeps every variable well typed: the status it
\* writes and the phase it moves to exist.
LEMMA TypeProcessor ==
  ASSUME IInv, NEW j \in JobIds, Processor(j)
  PROVE  TypeOK'
<1>. USE DEF IInv, dashVars, procVars, Phase, Leased, Working
<1>1. CASE TakeJob(j)
  BY <1>1 DEF TakeJob, FirstLock, Goto, TypeOK, JobState
<1>2. CASE LockGlobal(j)
  <2>1. CASE Bounce(j)
    BY <1>2, <2>1, BounceType DEF LockGlobal, TypeOK
  <2>2. CASE TryLock(GlobalKey, j) /\ Goto(j, "lab") /\ UNCHANGED <<state, lease, aborted>>
    BY <1>2, <2>2 DEF LockGlobal, TryLock, Goto, TypeOK, Keys
  <2>. QED
    BY <1>2, <2>1, <2>2 DEF LockGlobal
<1>3. CASE LockLab(j)
  <2>1. CASE Bounce(j)
    BY <1>3, <2>1, BounceType DEF LockLab, TypeOK
  <2>2. CASE ~Bounce(j)
    BY <1>3, <2>2 DEF LockLab, TryLock, Goto, TypeOK
  <2>. QED
    BY <2>1, <2>2
<1>4. CASE ClaimWork(j)
  <2>1. InProgress(job[j].kind) \in Status
    BY StatusTypes DEF TypeOK, Job
  <2>2. OwnsRow(j) /\ SetRow(j, InProgress(job[j].kind), j) => row' \in [Labs -> Row \cup {None}]
    BY <2>1, SetRowType
  <2>3. job' \in [JobIds -> Job]
    <3>1. ASSUME NEW b \in BOOLEAN PROVE [job[j] EXCEPT !.checkpoints = b] \in Job
      BY DEF TypeOK, Job
    <3>2. PICK b \in BOOLEAN :
            UNCHANGED job \/ job' = [job EXCEPT ![j] = [job[j] EXCEPT !.checkpoints = b]]
      BY <1>4 DEF ClaimWork, TypeOK
    <3>. QED
      BY <3>1, <3>2 DEF TypeOK
  <2>4. row' \in [Labs -> Row \cup {None}] /\ faults' \in 0 .. MaxFaults
    BY <1>4, <2>2, ConstantsAssumption DEF ClaimWork, Fault, TypeOK
  <2>. QED
    BY <1>4, <2>3, <2>4 DEF ClaimWork, Goto, TypeOK
<1>5. CASE SkipCustomization(j)
  <2>1. row' \in [Labs -> Row \cup {None}] /\ faults' \in 0 .. MaxFaults
    BY <1>5, WriteRowType DEF SkipCustomization, Status, Resting
  <2>. QED
    BY <1>5, <2>1 DEF SkipCustomization, Goto, TypeOK
<1>6. CASE BeginApply(j) \/ EndApply(j) \/ BeginDestroy(j) \/ EndDestroy(j)
  <2>1. job[j].lab \in Labs
    BY <1>6 DEF BeginApply, EndApply, BeginDestroy, EndDestroy, At, JobsTaken
  <2>. QED
    BY <1>6, <2>1 DEF BeginApply, EndApply, BeginDestroy, EndDestroy, Goto, TypeOK
<1>7. CASE RetryApply(j)
  <2>1. [job[j] EXCEPT !.tries = @ + 1] \in Job
    BY DEF TypeOK, Job
  <2>2. job' \in [JobIds -> Job]
    BY <1>7, <2>1 DEF RetryApply, TypeOK
  <2>. QED
    BY <1>7, <2>2 DEF RetryApply, Goto, TypeOK
<1>8. CASE RemoveRow(j)
  BY <1>8 DEF RemoveRow, Goto, TypeOK
<1>9. CASE RequestPower(j) \/ VerifyStop(j)
  BY <1>9 DEF RequestPower, VerifyStop, Goto, TypeOK
<1>10. CASE FinishWork(j) \/ GiveUpStop(j)
  <2>1. PICK status \in Status : WriteRow(j, status, j)
    BY <1>10 DEF FinishWork, GiveUpStop, Status, Busy, Resting
  <2>2. row' \in [Labs -> Row \cup {None}] /\ faults' \in 0 .. MaxFaults
    BY <2>1, WriteRowType
  <2>. QED
    BY <1>10, <2>2 DEF FinishWork, GiveUpStop, Goto, TypeOK
<1>11. ASSUME NEW c \in JobIds, DelayStop(j, c) \/ QueueCustomization(j, c)
       PROVE  TypeOK'
  <2>1. job[j].tries + 1 \in Nat /\ 0 \in Nat /\ {"stop", "customize"} \subseteq Kinds
    BY DEF TypeOK, Job, Kinds, Actions
  <2>2. pc[j] # "off"
    BY <1>11 DEF DelayStop, QueueCustomization, At
  <2>. QED
    BY <1>11, <2>1, <2>2, QueueNextType DEF DelayStop, QueueCustomization
<1>12. CASE RecordNext(j)
  <2>1. job[j].next \in JobIds
    BY <1>12 DEF RecordNext, JobsTaken
  <2>2. PICK status \in Status : WriteRow(j, status, job[j].next)
    BY <1>12 DEF RecordNext, Status, Busy
  <2>3. row' \in [Labs -> Row \cup {None}] /\ faults' \in 0 .. MaxFaults
    BY <2>1, <2>2, WriteRowType
  <2>. QED
    BY <1>12, <2>3 DEF RecordNext, Goto, TypeOK
<1>13. CASE FailWork(j)
  BY <1>13 DEF FailWork, Goto, TypeOK
<1>14. CASE RecordFailure(j)
  <2>1. row' \in [Labs -> Row \cup {None}] /\ faults' \in 0 .. MaxFaults
    BY <1>14, WriteRowType DEF RecordFailure, Status, Resting
  <2>. QED
    BY <1>14, <2>1 DEF RecordFailure, Goto, TypeOK
<1>15. CASE ReleaseLocks(j)
  BY <1>15, DropSessionType DEF ReleaseLocks, Goto, TypeOK
<1>16. CASE SettleJob(j)
  BY <1>16 DEF SettleJob, Goto, TypeOK, JobState
<1>. QED
  BY <1>1, <1>2, <1>3, <1>4, <1>5, <1>6, <1>7, <1>8, <1>9, <1>10, <1>11, <1>12, <1>13,
     <1>14, <1>15, <1>16 DEF Processor

\* A fault, or what notices one, keeps every variable well typed.
LEMMA TypeFaulty ==
  ASSUME IInv, NEW j \in JobIds, Faulty(j)
  PROVE  TypeOK'
<1>. USE DEF IInv, dashVars, procVars, Phase, Leased, Working
<1>1. ASSUME NEW kind, Fault(kind) PROVE faults' \in 0 .. MaxFaults
  BY <1>1, ConstantsAssumption DEF Fault, TypeOK
<1>2. CASE LoseRequest(j) \/ LoseResume(j)
  BY <1>1, <1>2 DEF LoseRequest, LoseResume, TypeOK, JobState
<1>3. CASE KillProcessor(j) \/ FailLock(j)
  <2>1. DropSession(j) /\ faults' \in 0 .. MaxFaults
    BY <1>1, <1>3 DEF KillProcessor, FailLock
  <2>. QED
    BY <1>3, <2>1, DropSessionType DEF KillProcessor, FailLock, Goto, TypeOK
<1>4. CASE LoseSession(j)
  BY <1>1, <1>4 DEF LoseSession, Without, TypeOK
<1>5. CASE NoticeLoss(j)
  BY <1>5 DEF NoticeLoss, TypeOK
<1>6. CASE StallJob(j)
  BY <1>1, <1>6 DEF StallJob, Goto, TypeOK, JobState
<1>7. CASE HandleStall(j)
  <2>1. row' \in [Labs -> Row \cup {None}] /\ faults' \in 0 .. MaxFaults
    BY <1>7, WriteRowType DEF HandleStall, Status, Resting
  <2>. QED
    BY <1>7, <2>1 DEF HandleStall, TypeOK
<1>. QED
  BY <1>2, <1>3, <1>4, <1>5, <1>6, <1>7 DEF Faulty

\* Type correctness is kept by every step of the system.
LEMMA TypeStep == ASSUME IInv, [Next]_vars PROVE TypeOK'
<1>1. ASSUME NEW q \in Queues, HandleAbort(q) PROVE TypeOK'
  BY <1>1 DEF HandleAbort, IInv, TypeOK
<1>2. CASE UNCHANGED vars
  BY <1>2 DEF vars, dashVars, procVars, IInv, TypeOK
<1>. QED
  BY <1>1, <1>2, TypeDashboard, TypeRecovery, TypeProcessor, TypeFaulty DEF Next

---------------------------------------------------------------------------
(* Jobs *)

\* The lab and the kind of a job are set when its id is taken, and stay.
JobsKept ==
  \A i \in JobIds : state[i] # "unused" =>
    state'[i] # "unused" /\ job'[i].lab = job[i].lab /\ job'[i].kind = job[i].kind

\* Queueing a follow-up takes a fresh id and leaves every taken id as it was.
LEMMA QueueNextJobs ==
  ASSUME IInv, NEW j \in JobIds, pc[j] # "off", NEW c \in JobIds, NEW kind \in Kinds,
         NEW tries \in Nat, QueueNext(j, c, kind, tries)
  PROVE  JobsTaken' /\ JobsKept
<1>. DEFINE new == NewJob(c, job[j].lab, kind, job[j].run, tries)
<1>1. job[j].lab \in Labs /\ job[j].run \in JobIds \cup {None} /\ c # j /\ pc[c] = "off"
  BY DEF IInv, JobsTaken, TypeOK, Job, QueueNext
<1>2. /\ new \in [JobIds -> Job]
      /\ \A i \in JobIds \ {c} : new[i] = job[i]
      /\ new[c].lab = job[j].lab
  <2>1. new \in [JobIds -> Job]
    BY <1>1, NewJobType DEF IInv
  <2>2. \A i \in JobIds \ {c} : new[i] = job[i]
    BY DEF NewJob, IInv, TypeOK
  <2>3. new[c].lab = job[j].lab
    BY DEF NewJob, IInv, TypeOK
  <2>. QED
    BY <2>1, <2>2, <2>3
<1>3. job' = [new EXCEPT ![j] = [job[j] EXCEPT !.next = c]]
  <2>1. job' = [new EXCEPT ![j] = [new[j] EXCEPT !.next = c]]
    BY <1>2 DEF QueueNext
  <2>2. new[j] = job[j]
    BY <1>1, <1>2
  <2>. HIDE DEF new
  <2>. QED
    BY <2>1, <2>2
<1>4. /\ \A i \in JobIds : job'[i].lab = new[i].lab /\ job'[i].kind = new[i].kind
      /\ \A i \in JobIds \ {j} : job'[i] = new[i]
      /\ job'[j].next = c
  <2>1. /\ [job[j] EXCEPT !.next = c].lab = job[j].lab
        /\ [job[j] EXCEPT !.next = c].kind = job[j].kind
        /\ [job[j] EXCEPT !.next = c].next = c
    BY DEF IInv, TypeOK, Job
  <2>2. job'[j] = [job[j] EXCEPT !.next = c] /\ new[j] = job[j]
    BY <1>1, <1>2, <1>3
  <2>3. \A i \in JobIds \ {j} : job'[i] = new[i]
    BY <1>2, <1>3
  <2>. QED
    BY <2>1, <2>2, <2>3
<1>5. /\ \A i \in JobIds : state'[i] # "unused" <=> state[i] # "unused" \/ i = c
      /\ \A i \in JobIds \ {j} : pc'[i] = pc[i]
      /\ stalls' = stalls /\ resume' = resume
  BY DEF QueueNext, Goto, IInv, TypeOK, dashVars
<1>6. JobsKept
  <2>1. state[c] = "unused"
    BY DEF QueueNext
  <2>. QED
    BY <1>2, <1>4, <1>5, <2>1 DEF JobsKept
<1>7. JobsTaken'
  BY <1>1, <1>2, <1>4, <1>5 DEF IInv, JobsTaken
<1>. QED
  BY <1>6, <1>7

\* The dashboard takes fresh ids only and never changes the lab of a job.
LEMMA JobsDashboard == ASSUME IInv, Dashboard PROVE JobsTaken' /\ JobsKept
<1>. USE DEF IInv, dashVars, procVars, JobsTaken, JobsKept, TypeOK
<1>1. ASSUME NEW j \in JobIds, NEW l \in Labs, NEW action \in Actions, CheckRequest(j, l, action)
      PROVE  JobsTaken' /\ JobsKept
  <2>1. /\ \A i \in JobIds \ {j} : job'[i] = job[i]
        /\ job'[j].lab = l
    BY <1>1, NewJobType DEF CheckRequest, Kinds
  <2>. QED
    BY <1>1, <2>1 DEF CheckRequest
<1>2. ASSUME NEW j \in JobIds, ClaimRequest(j) \/ EnqueueRequest(j) \/ ForgetJob(j)
      PROVE  JobsTaken' /\ JobsKept
  BY <1>2 DEF ClaimRequest, EnqueueRequest, ForgetJob
<1>3. ASSUME NEW j \in JobIds, CheckResume(j) \/ ClaimResume(j) \/ RetryResume(j)
      PROVE  JobsTaken' /\ JobsKept
  BY <1>3 DEF CheckResume, ClaimResume, RetryResume
<1>4. ASSUME NEW l \in Labs, CheckDelete(l) \/ DeleteRow(l) \/ ReadRefresh(l) \/ WriteRefresh(l)
      PROVE  JobsTaken' /\ JobsKept
  BY <1>4 DEF CheckDelete, DeleteRow, ReadRefresh, WriteRefresh
<1>5. ASSUME StartCancel \/ ResetRows \/ EndCancel PROVE JobsTaken' /\ JobsKept
  BY <1>5 DEF StartCancel, ResetRows, EndCancel
<1>6. ASSUME NEW q \in Queues, SweepQueue(q) PROVE JobsTaken' /\ JobsKept
  BY <1>6 DEF SweepQueue
<1>. QED
  BY <1>1, <1>2, <1>3, <1>4, <1>5, <1>6 DEF Dashboard

\* Neither does a processor.
LEMMA JobsProcessor ==
  ASSUME IInv, NEW j \in JobIds, Processor(j)
  PROVE  JobsTaken' /\ JobsKept
<1>. USE DEF IInv, dashVars, procVars, JobsTaken, JobsKept, TypeOK, Goto
<1>1. CASE TakeJob(j)
  BY <1>1 DEF TakeJob, FirstLock
<1>2. CASE LockGlobal(j) \/ LockLab(j)
  BY <1>2 DEF LockGlobal, LockLab, Bounce
<1>3. CASE ClaimWork(j)
  <2>1. \A i \in JobIds : /\ job'[i].lab = job[i].lab /\ job'[i].kind = job[i].kind
                          /\ job'[i].next = job[i].next
    BY <1>3 DEF ClaimWork, Job
  <2>. QED
    BY <1>3, <2>1 DEF ClaimWork
<1>4. CASE RetryApply(j)
  <2>1. \A i \in JobIds : /\ job'[i].lab = job[i].lab /\ job'[i].kind = job[i].kind
                          /\ job'[i].next = job[i].next
    BY <1>4 DEF RetryApply, Job
  <2>. QED
    BY <1>4, <2>1 DEF RetryApply, At
<1>5. CASE SkipCustomization(j) \/ FinishWork(j) \/ GiveUpStop(j) \/ RecordNext(j) \/ RecordFailure(j)
  BY <1>5 DEF SkipCustomization, FinishWork, GiveUpStop, RecordNext, RecordFailure, At
<1>6. CASE BeginApply(j) \/ EndApply(j) \/ BeginDestroy(j) \/ EndDestroy(j) \/ RemoveRow(j)
  BY <1>6 DEF BeginApply, EndApply, BeginDestroy, EndDestroy, RemoveRow, At
<1>7. CASE RequestPower(j) \/ VerifyStop(j) \/ FailWork(j)
  BY <1>7 DEF RequestPower, VerifyStop, FailWork, At
<1>8. CASE ReleaseLocks(j) \/ SettleJob(j)
  BY <1>8 DEF ReleaseLocks, SettleJob
<1>9. ASSUME NEW c \in JobIds, DelayStop(j, c) \/ QueueCustomization(j, c)
      PROVE  JobsTaken' /\ JobsKept
  <2>1. job[j].tries + 1 \in Nat /\ 0 \in Nat /\ {"stop", "customize"} \subseteq Kinds
    BY DEF Job, Kinds, Actions
  <2>2. pc[j] # "off"
    BY <1>9 DEF DelayStop, QueueCustomization, At
  <2>. QED
    BY <1>9, <2>1, <2>2, QueueNextJobs DEF DelayStop, QueueCustomization
<1>. QED
  BY <1>1, <1>2, <1>3, <1>4, <1>5, <1>6, <1>7, <1>8, <1>9 DEF Processor

\* What is known of jobs is kept by every step of the system.
LEMMA JobsStep == ASSUME IInv, [Next]_vars PROVE JobsTaken' /\ JobsKept
<1>. USE DEF IInv, dashVars, procVars, JobsTaken, JobsKept, TypeOK
<1>1. ASSUME NEW j \in JobIds, Faulty(j) PROVE JobsTaken' /\ JobsKept
  BY <1>1 DEF Faulty, LoseRequest, LoseResume, KillProcessor, FailLock, LoseSession, NoticeLoss,
              StallJob, HandleStall, Goto
<1>2. ASSUME NEW l \in Labs, Recovering(l) PROVE JobsTaken' /\ JobsKept
  BY <1>2 DEF Recovering, ReadRecovery, LockRecovery, CheckRecovery, WriteRecovery
<1>3. ASSUME NEW q \in Queues, HandleAbort(q) PROVE JobsTaken' /\ JobsKept
  BY <1>3 DEF HandleAbort
<1>4. CASE UNCHANGED vars
  BY <1>4 DEF vars
<1>. QED
  BY <1>1, <1>2, <1>3, <1>4, JobsDashboard, JobsProcessor DEF Next

---------------------------------------------------------------------------
(* Locks *)

\* A step that touches no processor and no lock.
LEMMA LocksFrame ==
  ASSUME IInv, JobsKept, UNCHANGED <<pc, lease, owner, recovery>>
  PROVE  LocksHeld'
BY DEF IInv, JobsKept, JobsTaken, LocksHeld, Holds, Leased, Working

\* A processor moves on under the lease it has.
LEMMA LocksGoto ==
  ASSUME IInv, JobsKept, UNCHANGED <<lease, owner, recovery>>,
         NEW j \in JobIds, pc[j] \in Leased, NEW phase \in Leased, Goto(j, phase)
  PROVE  LocksHeld'
<1>1. pc' = [pc EXCEPT ![j] = phase] /\ pc \in [JobIds -> Phase] /\ "off" \notin Leased /\ "lab" \notin Leased
  BY DEF Goto, IInv, TypeOK, Leased, Working
<1>. QED
  BY <1>1 DEF IInv, JobsKept, JobsTaken, LocksHeld, Holds

\* A processor gives its session up: nobody else loses a lock.
LEMMA LocksDrop ==
  ASSUME IInv, JobsKept, UNCHANGED recovery,
         NEW j \in JobIds, DropSession(j), NEW phase \in Phase \ {"lab"}, Goto(j, phase)
  PROVE  LocksHeld'
<1>1. /\ lease'[j] = "none" /\ pc'[j] # "lab"
      /\ \A i \in JobIds \ {j} : lease'[i] = lease[i] /\ pc'[i] = pc[i]
      /\ \A k \in Keys : owner[k] # j => owner'[k] = owner[k]
  BY DEF DropSession, Without, Goto, IInv, TypeOK
<1>2. \A i \in JobIds : pc[i] # "off" => /\ job'[i].lab = job[i].lab /\ job'[i].kind = job[i].kind
                                        /\ job[i].lab \in Keys
  BY DEF IInv, JobsTaken, JobsKept, Keys
<1>3. Recovery # j /\ GlobalKey \in Keys /\ Labs \subseteq Keys /\ "off" \notin Leased
  BY ConstantsAssumption DEF Keys, Leased, Working
<1>4. \A i \in JobIds :
        /\ pc'[i] \notin Leased => lease'[i] = "none"
        /\ Holds(i)' => owner'[job'[i].lab] = i
        /\ Holds(i)' \/ pc'[i] = "lab" => (job'[i].kind = "deploy" => owner'[GlobalKey] = i)
  BY <1>1, <1>2, <1>3 DEF IInv, LocksHeld, Holds
<1>. QED
  BY <1>1, <1>3, <1>4 DEF IInv, LocksHeld

\* The steps of the lock protocol itself.
LEMMA LocksProcessor ==
  ASSUME IInv, JobsKept, NEW j \in JobIds, Processor(j)
  PROVE  LocksHeld'
<1>. USE DEF dashVars
<1>1. CASE TakeJob(j)
  <2>1. /\ pc[j] = "off" /\ pc'[j] \in {"global", "lab"} /\ UNCHANGED <<job, lease, owner, recovery>>
        /\ pc'[j] = "lab" => job[j].kind # "deploy"
        /\ \A i \in JobIds \ {j} : pc'[i] = pc[i]
    BY <1>1 DEF TakeJob, FirstLock, Goto, IInv, TypeOK
  <2>. QED
    BY <2>1 DEF IInv, LocksHeld, Holds, Leased, Working
<1>2. CASE LockGlobal(j)
  <2>1. CASE Bounce(j)
    BY <1>2, <2>1, LocksDrop DEF LockGlobal, Bounce, Phase
  <2>2. CASE TryLock(GlobalKey, j) /\ Goto(j, "lab") /\ UNCHANGED <<state, lease, aborted>>
    <3>1. /\ owner[GlobalKey] = None /\ owner'[GlobalKey] = j
          /\ \A l \in Labs : owner'[l] = owner[l]
          /\ pc[j] = "global" /\ pc'[j] = "lab" /\ UNCHANGED <<job, lease, recovery>>
          /\ \A i \in JobIds \ {j} : pc'[i] = pc[i]
          /\ None \notin JobIds
      BY <1>2, <2>2, ConstantsAssumption DEF LockGlobal, TryLock, Goto, IInv, TypeOK, Keys
    <3>. QED
      BY <3>1 DEF IInv, JobsTaken, LocksHeld, Holds, Leased, Working
  <2>. QED
    BY <1>2, <2>1, <2>2 DEF LockGlobal
<1>3. CASE LockLab(j)
  <2>1. CASE Bounce(j)
    BY <1>3, <2>1, LocksDrop DEF LockLab, Bounce, Phase
  <2>2. CASE ~Bounce(j)
    <3>. DEFINE l == job[j].lab
    <3>1. l \in Labs /\ l # GlobalKey /\ None \notin JobIds
      BY <1>3, ConstantsAssumption DEF LockLab, IInv, JobsTaken
    <3>2. /\ owner[l] = None /\ owner'[l] = j
          /\ \A k \in Keys \ {l} : owner'[k] = owner[k]
          /\ pc[j] = "lab" /\ pc'[j] \in Leased /\ UNCHANGED <<job, recovery>>
          /\ \A i \in JobIds \ {j} : pc'[i] = pc[i] /\ lease'[i] = lease[i]
      BY <1>3, <2>2, <3>1 DEF LockLab, TryLock, Goto, IInv, TypeOK, Keys, Leased, Working
    <3>3. owner'[GlobalKey] = owner[GlobalKey]
      BY <3>1, <3>2 DEF Keys
    <3>4. ASSUME NEW i \in JobIds
          PROVE  /\ pc'[i] \notin Leased => lease'[i] = "none"
                 /\ Holds(i)' => owner'[job'[i].lab] = i
                 /\ Holds(i)' \/ pc'[i] = "lab" => (job'[i].kind = "deploy" => owner'[GlobalKey] = i)
      <4>1. CASE i = j
        BY <3>2, <3>3, <4>1 DEF IInv, LocksHeld, Holds, Leased, Working
      <4>2. CASE i # j
        <5>1. Holds(i) => job[i].lab \in Labs /\ owner[job[i].lab] = i /\ job[i].lab # l
          BY <3>1, <3>2 DEF IInv, JobsTaken, LocksHeld, Holds, Leased, Working
        <5>. QED
          BY <3>2, <3>3, <4>2, <5>1 DEF IInv, LocksHeld, Holds, Keys
      <4>. QED
        BY <4>1, <4>2
    <3>5. ASSUME NEW m \in Labs, recovery'[m] # None, recovery'[m].at \in {"locked", "dead"}
          PROVE  owner'[m] = Recovery
      <4>1. owner[m] = Recovery /\ Recovery # None
        BY <3>2, <3>5, ConstantsAssumption DEF IInv, LocksHeld
      <4>. QED
        BY <3>2, <4>1 DEF Keys
    <3>. QED
      BY <3>4, <3>5 DEF LocksHeld
  <2>. QED
    BY <2>1, <2>2
<1>4. CASE ClaimWork(j) \/ SkipCustomization(j) \/ RecordNext(j) \/ RecordFailure(j) \/ FailWork(j)
  <2>1. pc[j] \in Leased /\ \E phase \in Leased : Goto(j, phase)
    BY <1>4 DEF ClaimWork, SkipCustomization, RecordNext, RecordFailure, FailWork, Leased, Working
  <2>. QED
    BY <1>4, <2>1, LocksGoto
    DEF ClaimWork, SkipCustomization, RecordNext, RecordFailure, FailWork
<1>5. CASE BeginApply(j) \/ RetryApply(j) \/ EndApply(j) \/ BeginDestroy(j) \/ EndDestroy(j)
  <2>1. pc[j] \in Leased /\ \E phase \in Leased : Goto(j, phase)
    BY <1>5 DEF BeginApply, RetryApply, EndApply, BeginDestroy, EndDestroy, At, Leased, Working
  <2>. QED
    BY <1>5, <2>1, LocksGoto DEF BeginApply, RetryApply, EndApply, BeginDestroy, EndDestroy
<1>6. CASE RemoveRow(j) \/ RequestPower(j) \/ VerifyStop(j) \/ FinishWork(j) \/ GiveUpStop(j)
  <2>1. pc[j] \in Leased /\ \E phase \in Leased : Goto(j, phase)
    BY <1>6 DEF RemoveRow, RequestPower, VerifyStop, FinishWork, GiveUpStop, At, Leased, Working
  <2>. QED
    BY <1>6, <2>1, LocksGoto DEF RemoveRow, RequestPower, VerifyStop, FinishWork, GiveUpStop
<1>7. ASSUME NEW c \in JobIds, DelayStop(j, c) \/ QueueCustomization(j, c)
      PROVE  LocksHeld'
  <2>1. /\ pc[j] \in Leased /\ "handoff" \in Leased /\ Goto(j, "handoff")
        /\ UNCHANGED <<lease, owner, recovery>>
    BY <1>7 DEF DelayStop, QueueCustomization, QueueNext, At, Leased, Working
  <2>. QED
    BY <2>1, LocksGoto
<1>8. CASE ReleaseLocks(j)
  BY <1>8, LocksDrop DEF ReleaseLocks, Phase
<1>9. CASE SettleJob(j)
  <2>1. /\ pc[j] \in {"settleOk", "settleFail"} /\ pc'[j] = "off"
        /\ UNCHANGED <<job, lease, owner, recovery>>
        /\ \A i \in JobIds \ {j} : pc'[i] = pc[i]
    BY <1>9 DEF SettleJob, Goto, IInv, TypeOK
  <2>. QED
    BY <2>1 DEF IInv, LocksHeld, Holds, Leased, Working
<1>. QED
  BY <1>1, <1>2, <1>3, <1>4, <1>5, <1>6, <1>7, <1>8, <1>9 DEF Processor

\* A crash, a lost session or a stall only ever frees locks.
LEMMA LocksFaulty ==
  ASSUME IInv, JobsKept, NEW j \in JobIds, Faulty(j)
  PROVE  LocksHeld'
<1>. USE DEF dashVars, procVars
<1>1. CASE LoseRequest(j) \/ LoseResume(j) \/ NoticeLoss(j) \/ HandleStall(j)
  BY <1>1, LocksFrame DEF LoseRequest, LoseResume, NoticeLoss, HandleStall
<1>2. CASE KillProcessor(j) \/ FailLock(j)
  BY <1>2, LocksDrop DEF KillProcessor, FailLock, Phase, Leased
<1>3. CASE LoseSession(j)
  <2>1. /\ lease'[j] = "broken" /\ lease[j] = "held"
        /\ \A i \in JobIds \ {j} : lease'[i] = lease[i]
        /\ \A k \in Keys : owner[k] # j => owner'[k] = owner[k]
        /\ UNCHANGED <<job, pc, recovery>>
    BY <1>3 DEF LoseSession, Without, IInv, TypeOK
  <2>2. Recovery # j /\ GlobalKey \in Keys /\ Labs \subseteq Keys /\ "off" \notin Leased /\ "lab" \notin Leased
    BY ConstantsAssumption DEF Keys, Leased, Working
  <2>3. \A i \in JobIds : pc[i] # "off" => job[i].lab \in Keys
    BY DEF IInv, JobsTaken, Keys
  <2>. QED
    BY <2>1, <2>2, <2>3 DEF IInv, LocksHeld, Holds
<1>4. CASE StallJob(j)
  <2>1. /\ UNCHANGED <<job, lease, owner, recovery>>
        /\ \A i \in JobIds : pc'[i] = pc[i] \/ (pc[i] = "dead" /\ pc'[i] = "off")
    BY <1>4 DEF StallJob, Goto, IInv, TypeOK
  <2>. QED
    BY <2>1 DEF IInv, LocksHeld, Holds, Leased, Working
<1>. QED
  BY <1>1, <1>2, <1>3, <1>4 DEF Faulty

\* A recovery only takes a free lab and only frees its own.
LEMMA LocksRecovery ==
  ASSUME IInv, JobsKept, NEW l \in Labs, Recovering(l)
  PROVE  LocksHeld'
<1>. USE DEF dashVars
<1>1. /\ UNCHANGED <<job, pc, lease>>
      /\ \A k \in Keys \ {l} : owner'[k] = owner[k]
      /\ \A m \in Labs \ {l} : recovery'[m] = recovery[m]
  BY DEF Recovering, ReadRecovery, LockRecovery, CheckRecovery, WriteRecovery, TryLock,
         Recover, RecoverySettled, IInv, TypeOK, procVars
<1>2. owner'[l] = owner[l] \/ owner[l] \in {None, Recovery}
  BY DEF Recovering, ReadRecovery, LockRecovery, CheckRecovery, WriteRecovery, TryLock,
         IInv, TypeOK, LocksHeld, procVars
<1>3. recovery'[l] # None /\ recovery'[l].at \in {"locked", "dead"} => owner'[l] = Recovery
  <2>1. CASE ReadRecovery(l)
    BY <2>1 DEF ReadRecovery, IInv, TypeOK
  <2>2. CASE LockRecovery(l)
    BY <2>2 DEF LockRecovery, TryLock, Recover, RecoverySettled, IInv, TypeOK, Keys
  <2>3. CASE CheckRecovery(l)
    BY <2>3 DEF CheckRecovery, Recover, RecoverySettled, IInv, TypeOK, LocksHeld
  <2>4. CASE WriteRecovery(l)
    BY <2>4 DEF WriteRecovery, RecoverySettled, IInv, TypeOK
  <2>. QED
    BY <2>1, <2>2, <2>3, <2>4 DEF Recovering
<1>4. GlobalKey # l /\ GlobalKey \in Keys /\ Labs \subseteq Keys
      /\ None \notin JobIds /\ Recovery \notin JobIds
  BY ConstantsAssumption DEF Keys
<1>5. \A i \in JobIds : Holds(i) => job[i].lab \in Keys
  BY DEF IInv, JobsTaken, Holds, Leased, Working, Keys
<1>6. \A i \in JobIds : Holds(i)' => owner'[job'[i].lab] = i
  BY <1>1, <1>2, <1>4, <1>5 DEF IInv, LocksHeld, Holds
<1>. QED
  BY <1>1, <1>3, <1>4, <1>6 DEF IInv, LocksHeld, Holds

\* What is known of locks is kept by every step of the system.
LEMMA LocksStep == ASSUME IInv, JobsKept, [Next]_vars PROVE LocksHeld'
<1>. USE DEF dashVars, procVars
<1>1. CASE Dashboard
  <2>1. UNCHANGED <<pc, lease, owner, recovery>>
    BY <1>1 DEF Dashboard, CheckRequest, ClaimRequest, EnqueueRequest, ForgetJob, CheckResume,
       ClaimResume, RetryResume, CheckDelete, DeleteRow, ReadRefresh, WriteRefresh, StartCancel,
       SweepQueue, ResetRows, EndCancel
  <2>. QED
    BY <2>1, LocksFrame
<1>2. ASSUME NEW q \in Queues, HandleAbort(q) PROVE LocksHeld'
  BY <1>2, LocksFrame DEF HandleAbort
<1>3. CASE UNCHANGED vars
  BY <1>3, LocksFrame DEF vars
<1>. QED
  BY <1>1, <1>2, <1>3, LocksRecovery, LocksProcessor, LocksFaulty DEF Next

---------------------------------------------------------------------------
(* The theorems *)

\* The inductive invariant holds in every reachable state.
LEMMA Invariance == Spec => []IInv
<1>1. Init => IInv
  <2>1. NoJob \in Job
    BY DEF NoJob, Job, Kinds, Actions
  <2>2. [status |-> "idle", action |-> "prepare", job |-> None, run |-> None] \in Row
    BY DEF Row, Status, Resting
  <2>3. Init => TypeOK
    BY <2>1, <2>2, ConstantsAssumption DEF Init, TypeOK, JobState, Phase
  <2>. QED
    BY <2>3 DEF Init, IInv, JobsTaken, LocksHeld, Holds, Leased, Working
<1>2. IInv /\ [Next]_vars => IInv'
  BY TypeStep, JobsStep, LocksStep DEF IInv
<1>. QED
  BY <1>1, <1>2, PTL DEF Spec

\* Every reachable state is well typed: in particular each status the code
\* writes is one the dashboard knows to be busy or at rest.
THEOREM TypeCorrect == Spec => []TypeOK
BY Invariance, PTL DEF IInv

\* Two processors that hold live leases are never on the same lab, for any
\* number of workers and labs, through every crash, session loss, stall,
\* cancellation, refresh, resume and delete.
THEOREM LabExclusion == Spec => []OneOperationPerLab
<1>1. IInv => OneOperationPerLab
  BY DEF IInv, LocksHeld, OneOperationPerLab
<1>. QED
  BY <1>1, Invariance, PTL

\* At most one deploy with a live lease is under way in the whole system.
THEOREM DeployExclusion == Spec => []OneDeployment
<1>1. IInv => OneDeployment
  BY DEF IInv, LocksHeld, OneDeployment
<1>. QED
  BY <1>1, Invariance, PTL

\* A start-up recovery that holds a lab's lock is alone on it.
THEOREM RecoveryExclusion == Spec => []RecoveryAlone
<1>1. IInv => RecoveryAlone
  BY ConstantsAssumption DEF IInv, LocksHeld, RecoveryAlone
<1>. QED
  BY <1>1, Invariance, PTL

---------------------------------------------------------------------------
(* A row changes hands only at rest *)

\* No row that stays changes its run.
KeepsRun ==
  \A l \in Labs : row[l] # None /\ row'[l] # None => row'[l].run = row[l].run

\* The step formula of RunHandover.
Handover ==
  \A l \in Labs :
    row[l] # None /\ row'[l] # None /\ row'[l].run # row[l].run
      => row[l].status \notin Busy /\ state[row'[l].run] = "checked"

\* The fence of the workers' status updates: they never change the run.
LEMMA WriteRowKeepsRun ==
  ASSUME IInv, NEW j \in JobIds, NEW status, NEW id, WriteRow(j, status, id)
  PROVE  KeepsRun
<1>1. CASE UNCHANGED row
  BY <1>1 DEF KeepsRun
<1>2. CASE OwnsRow(j) /\ SetRow(j, status, id)
  <2>. DEFINE new == [status |-> status, action |-> job[id].kind, job |-> id, run |-> job[j].run]
  <2>1. new.run = job[j].run
    OBVIOUS
  <2>2. row' = [row EXCEPT ![job[j].lab] = new]
    BY <1>2 DEF SetRow
  <2>. HIDE DEF new
  <2>. QED
    BY <1>2, <2>1, <2>2 DEF OwnsRow, KeepsRun, IInv, TypeOK
<1>. QED
  BY <1>1, <1>2 DEF WriteRow

\* Neither does an update of the status and the action alone.
LEMMA RowUpdateKeepsRun ==
  ASSUME NEW r \in Row, NEW status, NEW action
  PROVE  /\ [r EXCEPT !.status = status].run = r.run
         /\ [r EXCEPT !.status = status, !.action = action].run = r.run
<1>1. ASSUME NEW q \in Row PROVE [q EXCEPT !.status = status].run = q.run
  BY <1>1 DEF Row
<1>2. [r EXCEPT !.status = status, !.action = action] = [[r EXCEPT !.status = status] EXCEPT !.action = action]
  OBVIOUS
<1>3. [r EXCEPT !.status = status, !.action = action].run = r.run
  BY <1>2 DEF Row
<1>. QED
  BY <1>1, <1>3

\* A row replaced by one of the same run keeps every lab's run.
LEMMA RowEditKeepsRun ==
  ASSUME IInv, NEW l \in Labs, NEW r, row' = [row EXCEPT ![l] = r],
         row[l] # None => r.run = row[l].run
  PROVE  KeepsRun
BY DEF KeepsRun, IInv, TypeOK

\* Of the dashboard's steps only the claim of a request gives a row to a new
\* run, and its conditional update finds the row at rest.
LEMMA HandoverDashboard == ASSUME IInv, Dashboard PROVE Handover
<1>. USE DEF dashVars, procVars
<1>1. ASSUME NEW j \in JobIds, ClaimRequest(j) PROVE Handover
  <2>1. job[j].lab \in Labs /\ state[j] = "checked"
    BY <1>1 DEF ClaimRequest, IInv, JobsTaken
  <2>2. CASE UNCHANGED row
    BY <2>2 DEF Handover
  <2>3. CASE ~UNCHANGED row
    <3>. DEFINE l == job[j].lab
                new == [status |-> InitialStatus(job[j].kind), action |-> job[j].kind,
                        job |-> j, run |-> j]
    <3>1. row[l].status \notin Busy /\ row' = [row EXCEPT ![l] = new]
      BY <1>1, <2>3 DEF ClaimRequest
    <3>2. new.run = j
      OBVIOUS
    <3>. HIDE DEF new
    <3>. QED
      BY <2>1, <3>1, <3>2 DEF Handover, IInv, TypeOK
  <2>. QED
    BY <2>2, <2>3
<1>2. ASSUME KeepsRun PROVE Handover
  BY <1>2 DEF KeepsRun, Handover
<1>3. ASSUME UNCHANGED row PROVE KeepsRun
  BY <1>3 DEF KeepsRun
<1>4. ASSUME NEW j \in JobIds, ClaimResume(j) \/ RetryResume(j) PROVE KeepsRun
  <2>. DEFINE l == job[j].lab
  <2>1. l \in Labs
    BY <1>4 DEF ClaimResume, RetryResume, IInv, JobsTaken
  <2>2. row[l] # None => row[l] \in Row
    BY <2>1 DEF IInv, TypeOK
  <2>3. PICK status :
          \/ UNCHANGED row
          \/ row[l] # None /\ row' = [row EXCEPT ![l] = [row[l] EXCEPT !.status = status]]
    BY <1>4 DEF ClaimResume, RetryResume, Resumable
  <2>4. row[l] # None => [row[l] EXCEPT !.status = status].run = row[l].run
    BY <2>2, RowUpdateKeepsRun
  <2>. HIDE DEF l
  <2>. QED
    BY <1>3, <2>1, <2>3, <2>4, RowEditKeepsRun
<1>5. ASSUME NEW l \in Labs, WriteRefresh(l) PROVE KeepsRun
  <2>1. row[l] # None => [row[l] EXCEPT !.status = refresh[l].to, !.action = "refresh"].run = row[l].run
    BY RowUpdateKeepsRun DEF IInv, TypeOK
  <2>2. \/ UNCHANGED row
        \/ row' = [row EXCEPT ![l] = [row[l] EXCEPT !.status = refresh[l].to, !.action = "refresh"]]
    BY <1>5 DEF WriteRefresh
  <2>. QED
    BY <1>3, <2>1, <2>2, RowEditKeepsRun
<1>6. ASSUME NEW l \in Labs, DeleteRow(l) PROVE KeepsRun
  BY <1>6 DEF DeleteRow, KeepsRun, IInv, TypeOK
<1>7. ASSUME ResetRows PROVE KeepsRun
  <2>1. ASSUME NEW l \in Labs, row[l] # None
        PROVE  [row[l] EXCEPT !.status = "failed", !.action = "cancelled"].run = row[l].run
    BY <2>1, RowUpdateKeepsRun DEF IInv, TypeOK
  <2>. QED
    BY <1>7, <2>1 DEF ResetRows, KeepsRun
<1>. QED
  BY <1>1, <1>2, <1>4, <1>5, <1>6, <1>7, <1>3
  DEF Dashboard, CheckRequest, EnqueueRequest, ForgetJob, CheckResume, CheckDelete,
      ReadRefresh, StartCancel, SweepQueue, EndCancel

\* No other step of the system changes the run of a row.
LEMMA HandoverStep == ASSUME IInv, [Next]_vars PROVE Handover
<1>. USE DEF dashVars, procVars
<1>1. ASSUME KeepsRun PROVE Handover
  BY <1>1 DEF KeepsRun, Handover
<1>2. ASSUME UNCHANGED row PROVE KeepsRun
  BY <1>2 DEF KeepsRun
<1>3. ASSUME NEW l \in Labs, Recovering(l) PROVE KeepsRun
  <2>1. CASE WriteRecovery(l)
    <3>. DEFINE action == IF recovery[l].status = "customizing" THEN "customize"
                          ELSE "worker-restarted"
                new == [row[l] EXCEPT !.status = "failed", !.action = action]
    <3>1. row[l] # None => new.run = row[l].run
      BY RowUpdateKeepsRun DEF IInv, TypeOK
    <3>2. UNCHANGED row \/ row' = [row EXCEPT ![l] = new]
      BY <2>1 DEF WriteRecovery
    <3>. HIDE DEF new
    <3>. QED
      BY <1>2, <3>1, <3>2, RowEditKeepsRun
  <2>. QED
    BY <1>2, <1>3, <2>1 DEF Recovering, ReadRecovery, LockRecovery, CheckRecovery
<1>4. ASSUME NEW j \in JobIds, Processor(j) PROVE KeepsRun
  <2>1. CASE ClaimWork(j)
    <3>1. UNCHANGED row \/ WriteRow(j, InProgress(job[j].kind), j)
      BY <2>1 DEF ClaimWork, WriteRow
    <3>. QED
      BY <1>2, <3>1, WriteRowKeepsRun
  <2>2. CASE RemoveRow(j)
    BY <2>2 DEF RemoveRow, KeepsRun, IInv, TypeOK
  <2>3. CASE SkipCustomization(j) \/ FinishWork(j) \/ GiveUpStop(j) \/ RecordNext(j) \/ RecordFailure(j)
    BY <2>3, WriteRowKeepsRun
    DEF SkipCustomization, FinishWork, GiveUpStop, RecordNext, RecordFailure
  <2>. QED
    BY <1>2, <1>4, <2>1, <2>2, <2>3
    DEF Processor, TakeJob, LockGlobal, LockLab, BeginApply, RetryApply, EndApply, BeginDestroy,
        EndDestroy, RequestPower, VerifyStop, DelayStop, QueueCustomization, QueueNext, FailWork,
        ReleaseLocks, SettleJob
<1>5. ASSUME NEW j \in JobIds, Faulty(j) PROVE KeepsRun
  BY <1>2, <1>5, WriteRowKeepsRun
  DEF Faulty, LoseRequest, LoseResume, KillProcessor, FailLock, LoseSession, NoticeLoss,
      StallJob, HandleStall
<1>6. ASSUME NEW q \in Queues, HandleAbort(q) PROVE KeepsRun
  BY <1>2, <1>6 DEF HandleAbort
<1>. QED
  BY <1>1, <1>2, <1>3, <1>4, <1>5, <1>6, HandoverDashboard DEF Next, vars

\* A busy row belongs to its run until that run brings it to rest: no worker,
\* recovery, refresh or resume gives it to another one, and the next run is one
\* whose job was never queued.
THEOREM RunsHandOverAtRest == Spec => RunHandover
<1>1. IInv /\ [Next]_vars => [Handover]_vars
  BY HandoverStep
<1>2. IInv /\ [Next]_vars =>
        [\A l \in Labs :
           row[l] # None /\ row'[l] # None /\ row'[l].run # row[l].run
             => row[l].status \notin Busy /\ state[row'[l].run] = "checked"]_vars
  BY <1>1 DEF Handover
<1>. QED
  BY <1>2, Invariance, PTL DEF Spec, RunHandover

---------------------------------------------------------------------------
(* Sessions that live *)

\* No processor works on after its session is gone.
Steady == \A j \in JobIds : pc[j] \in Leased => lease[j] = "held"

\* A step of one processor leaves the phase and the lease of the others.
OnlyMoves(j) == \A i \in JobIds \ {j} : pc'[i] = pc[i] /\ lease'[i] = lease[i]

\* How a processor moves: on under the lease it has, into the lease with the
\* lock of the lab, or to a phase without one.
LEMMA ProcessorMoves ==
  ASSUME IInv, NEW j \in JobIds, Processor(j)
  PROVE  /\ OnlyMoves(j)
         /\ \/ pc[j] \in Leased /\ pc'[j] \in Leased /\ lease' = lease
            \/ LockLab(j) /\ pc'[j] \in {"claim", "catch"} /\ lease'[j] = "held"
            \/ pc'[j] \notin Leased
<1>. USE DEF IInv, TypeOK, OnlyMoves, Goto, Leased, Working
<1>1. CASE TakeJob(j)
  BY <1>1 DEF TakeJob, FirstLock
<1>2. CASE LockGlobal(j) \/ LockLab(j)
  BY <1>2 DEF LockGlobal, LockLab, Bounce, DropSession
<1>3. CASE ClaimWork(j) \/ SkipCustomization(j) \/ RecordNext(j) \/ RecordFailure(j) \/ FailWork(j)
  BY <1>3 DEF ClaimWork, SkipCustomization, RecordNext, RecordFailure, FailWork
<1>4. CASE BeginApply(j) \/ RetryApply(j) \/ EndApply(j) \/ BeginDestroy(j) \/ EndDestroy(j)
  BY <1>4 DEF BeginApply, RetryApply, EndApply, BeginDestroy, EndDestroy, At
<1>5. CASE RemoveRow(j) \/ RequestPower(j) \/ VerifyStop(j) \/ FinishWork(j) \/ GiveUpStop(j)
  BY <1>5 DEF RemoveRow, RequestPower, VerifyStop, FinishWork, GiveUpStop, At
<1>6. ASSUME NEW c \in JobIds, DelayStop(j, c) \/ QueueCustomization(j, c)
      PROVE  OnlyMoves(j) /\ pc[j] \in Leased /\ pc'[j] \in Leased /\ lease' = lease
  BY <1>6 DEF DelayStop, QueueCustomization, QueueNext, At
<1>7. CASE ReleaseLocks(j) \/ SettleJob(j)
  BY <1>7 DEF ReleaseLocks, SettleJob, DropSession, procVars
<1>. QED
  BY <1>1, <1>2, <1>3, <1>4, <1>5, <1>6, <1>7 DEF Processor

\* While PostgreSQL loses no session, every working processor holds its locks.
LEMMA SteadyStep ==
  ASSUME "session" \notin FaultKinds, IInv, Steady, [Next]_vars
  PROVE  Steady'
<1>. USE DEF dashVars, procVars
<1>1. ASSUME UNCHANGED <<pc, lease>> PROVE Steady'
  BY <1>1 DEF Steady
<1>2. CASE Dashboard
  BY <1>1, <1>2 DEF Dashboard, CheckRequest, ClaimRequest, EnqueueRequest, ForgetJob, CheckResume,
     ClaimResume, RetryResume, CheckDelete, DeleteRow, ReadRefresh, WriteRefresh, StartCancel,
     SweepQueue, ResetRows, EndCancel
<1>3. ASSUME NEW l \in Labs, Recovering(l) PROVE Steady'
  BY <1>1, <1>3 DEF Recovering, ReadRecovery, LockRecovery, CheckRecovery, WriteRecovery
<1>4. ASSUME NEW j \in JobIds, Processor(j) PROVE Steady'
  BY <1>4, ProcessorMoves DEF Steady, OnlyMoves
<1>5. ASSUME NEW j \in JobIds, Faulty(j) PROVE Steady'
  <2>1. CASE LoseRequest(j) \/ LoseResume(j) \/ NoticeLoss(j) \/ HandleStall(j)
    BY <1>1, <2>1 DEF LoseRequest, LoseResume, NoticeLoss, HandleStall
  <2>2. CASE KillProcessor(j)
    BY <2>2 DEF KillProcessor, DropSession, Goto, Steady, IInv, TypeOK, Leased, Working
  <2>3. CASE StallJob(j)
    BY <2>3 DEF StallJob, Goto, Steady, IInv, TypeOK, Leased, Working
  <2>. QED
    BY <1>5, <2>1, <2>2, <2>3 DEF Faulty, FailLock, LoseSession, Fault
<1>6. ASSUME NEW q \in Queues, HandleAbort(q) PROVE Steady'
  BY <1>1, <1>6 DEF HandleAbort
<1>. QED
  BY <1>1, <1>2, <1>3, <1>4, <1>5, <1>6 DEF Next, vars

\* Two processors past the lock of the lab are then never on the same lab.
LEMMA SteadyAlone ==
  ASSUME IInv, Steady, NEW i \in JobIds, NEW j \in JobIds, i # j,
         pc[i] \in Leased, pc[j] \in Leased
  PROVE  job[i].lab # job[j].lab
BY DEF IInv, LocksHeld, Holds, Steady

---------------------------------------------------------------------------
(* A row is removed when its lab is destroyed *)

\* Between the end of a destroy and the removal of the row no VM comes back.
DestroyedIsGone ==
  \A j \in JobIds : At(j, "destroy", "applied") => job[j].lab \notin provisioned

\* The VMs of a lab are changed by the processor that works on it.
LEMMA ProvisionedStep ==
  ASSUME IInv, [Next]_vars, ~UNCHANGED provisioned
  PROVE  \E j \in JobIds :
           /\ Processor(j) /\ pc[j] \in Leased
           /\ provisioned' \subseteq provisioned \cup {job[j].lab}
           /\ provisioned \subseteq provisioned' \cup {job[j].lab}
<1>. USE DEF dashVars, procVars
<1>1. ASSUME NEW j \in JobIds, Processor(j)
      PROVE  /\ pc[j] \in Leased
             /\ provisioned' \subseteq provisioned \cup {job[j].lab}
             /\ provisioned \subseteq provisioned' \cup {job[j].lab}
  BY <1>1 DEF Processor, TakeJob, LockGlobal, LockLab, ClaimWork, SkipCustomization, BeginApply,
     RetryApply, EndApply, BeginDestroy, EndDestroy, RemoveRow, RequestPower, VerifyStop, FinishWork,
     GiveUpStop, DelayStop, QueueCustomization, QueueNext, RecordNext, FailWork, RecordFailure,
     ReleaseLocks, SettleJob, At, Leased, Working
<1>2. ASSUME NEW j \in JobIds, Faulty(j) PROVE UNCHANGED provisioned
  BY <1>2 DEF Faulty, LoseRequest, LoseResume, KillProcessor, FailLock, LoseSession, NoticeLoss,
              StallJob, HandleStall
<1>3. ASSUME NEW l \in Labs, Recovering(l) PROVE UNCHANGED provisioned
  BY <1>3 DEF Recovering, ReadRecovery, LockRecovery, CheckRecovery, WriteRecovery
<1>4. CASE Dashboard
  BY <1>4 DEF Dashboard, CheckRequest, ClaimRequest, EnqueueRequest, ForgetJob, CheckResume,
     ClaimResume, RetryResume, CheckDelete, DeleteRow, ReadRefresh, WriteRefresh, StartCancel,
     SweepQueue, ResetRows, EndCancel
<1>5. ASSUME NEW q \in Queues, HandleAbort(q) PROVE UNCHANGED provisioned
  BY <1>5 DEF HandleAbort
<1>. QED
  BY <1>1, <1>2, <1>3, <1>4, <1>5 DEF Next, vars

\* A processor reaches the end of a destroy only with its VMs gone.
LEMMA DestroyEnds ==
  ASSUME IInv, NEW j \in JobIds, Processor(j), pc'[j] = "applied", job'[j].kind = "destroy"
  PROVE  EndDestroy(j)
<1>. USE DEF IInv, TypeOK, Goto, At
<1>1. job[j].kind = "destroy"
  BY JobsProcessor DEF JobsKept, Processor, TakeJob, LockGlobal, LockLab, ClaimWork, SkipCustomization, BeginApply,
     RetryApply, EndApply, BeginDestroy, EndDestroy, RemoveRow, RequestPower, VerifyStop, FinishWork,
     GiveUpStop, DelayStop, QueueCustomization, QueueNext, RecordNext, FailWork, RecordFailure,
     ReleaseLocks, SettleJob, JobsTaken, Bounce
<1>. QED
  BY <1>1 DEF Processor, TakeJob, LockGlobal, LockLab, ClaimWork, SkipCustomization, BeginApply,
     RetryApply, EndApply, BeginDestroy, EndDestroy, RemoveRow, RequestPower, VerifyStop, FinishWork,
     GiveUpStop, DelayStop, QueueCustomization, QueueNext, RecordNext, FailWork, RecordFailure,
     ReleaseLocks, SettleJob, Bounce, FirstLock

\* A destroy that is done stays done until its row is removed.
LEMMA DestroyedStep ==
  ASSUME IInv, JobsKept, Steady, DestroyedIsGone, [Next]_vars
  PROVE  DestroyedIsGone'
<1>. SUFFICES ASSUME NEW i \in JobIds, At(i, "destroy", "applied")'
              PROVE  job'[i].lab \notin provisioned'
  BY DEF DestroyedIsGone
<1>1. CASE Processor(i)
  <2>1. EndDestroy(i)
    BY <1>1, DestroyEnds DEF At
  <2>. QED
    BY <2>1 DEF EndDestroy
<1>2. CASE ~Processor(i)
  <2>1. pc[i] = "applied"
    <3>1. ASSUME NEW j \in JobIds, Processor(j) PROVE pc'[i] = pc[i]
      BY <1>2, <3>1, ProcessorMoves DEF OnlyMoves
    <3>2. ASSUME NEW j \in JobIds, Faulty(j) PROVE pc'[i] = pc[i] \/ pc'[i] \in {"off", "dead", "catch"}
      BY <3>2 DEF Faulty, LoseRequest, LoseResume, KillProcessor, FailLock, LoseSession, NoticeLoss,
                  StallJob, HandleStall, Goto, IInv, TypeOK, procVars
    <3>3. \/ \E j \in JobIds : Processor(j) \/ Faulty(j)
          \/ UNCHANGED pc
      BY DEF Next, vars, procVars, Dashboard, CheckRequest, ClaimRequest, EnqueueRequest, ForgetJob,
         CheckResume, ClaimResume, RetryResume, CheckDelete, DeleteRow, ReadRefresh, WriteRefresh,
         StartCancel, SweepQueue, ResetRows, EndCancel, Recovering, ReadRecovery, LockRecovery,
         CheckRecovery, WriteRecovery, HandleAbort
    <3>. QED
      BY <3>1, <3>2, <3>3 DEF At
  <2>2. pc[i] \in Leased /\ state[i] # "unused"
    BY <2>1 DEF Leased, Working, IInv, JobsTaken
  <2>3. job'[i].lab = job[i].lab /\ At(i, "destroy", "applied")
    BY <2>1, <2>2 DEF JobsKept, At
  <2>4. job[i].lab \notin provisioned
    BY <2>3 DEF DestroyedIsGone
  <2>5. CASE UNCHANGED provisioned
    BY <2>3, <2>4, <2>5
  <2>6. CASE ~UNCHANGED provisioned
    <3>1. PICK j \in JobIds : /\ Processor(j) /\ pc[j] \in Leased
                              /\ provisioned' \subseteq provisioned \cup {job[j].lab}
      BY <2>6, ProvisionedStep
    <3>2. job[j].lab # job[i].lab
      BY <1>2, <2>2, <3>1, SteadyAlone
    <3>. QED
      BY <2>3, <2>4, <3>1, <3>2
  <2>. QED
    BY <2>5, <2>6
<1>. QED
  BY <1>1, <1>2

\* The step formula of RemovedWhenDestroyed.
Removal ==
  \A l \in Labs :
    row[l] # None /\ row'[l] = None /\ l \notin deleting
      => row[l].status = "destroying" /\ l \notin provisioned

\* An update of a status, or of a status and an action, is no removal.
LEMMA WriteRowKeepsRow ==
  ASSUME IInv, NEW j \in JobIds, NEW status \in Status, NEW id \in JobIds,
         WriteRow(j, status, id)
  PROVE  \A l \in Labs : row[l] # None => row'[l] # None
<1>. DEFINE new == [status |-> status, action |-> job[id].kind, job |-> id, run |-> job[j].run]
<1>1. UNCHANGED row \/ row' = [row EXCEPT ![job[j].lab] = new]
  BY DEF WriteRow, SetRow
<1>2. new # None
  <2>1. new \in Row
    BY DEF IInv, TypeOK, Job, Row
  <2>. QED
    BY <2>1, NoRowAssumption
<1>. HIDE DEF new
<1>. QED
  BY <1>1, <1>2 DEF IInv, TypeOK

\* Rows are removed by a delete request and by a destroy that is done.
LEMMA RemovalStep == ASSUME IInv, DestroyedIsGone, [Next]_vars PROVE Removal
<1>. USE DEF dashVars, procVars
<1>. DEFINE Stays == \A l \in Labs : row[l] # None => row'[l] # None
<1>1. ASSUME Stays PROVE Removal
  BY <1>1 DEF Removal
<1>2. ASSUME UNCHANGED row PROVE Stays
  BY <1>2
<1>3. ASSUME NEW l \in Labs, NEW r \in Row, row' = [row EXCEPT ![l] = r] PROVE Stays
  BY <1>3, NoRowAssumption DEF IInv, TypeOK
<1>. HIDE DEF Stays
<1>4. ASSUME NEW j \in JobIds, Processor(j) PROVE Removal
  <2>1. CASE RemoveRow(j)
    <3>1. job[j].lab \notin provisioned
      BY <2>1 DEF RemoveRow, DestroyedIsGone
    <3>2. \/ UNCHANGED row
          \/ row' = [row EXCEPT ![job[j].lab] = None] /\ row[job[j].lab].status = "destroying"
      BY <2>1 DEF RemoveRow
    <3>. QED
      BY <1>1, <1>2, <3>1, <3>2 DEF Removal, IInv, TypeOK
  <2>2. CASE ClaimWork(j)
    <3>1. InProgress(job[j].kind) \in Status
      BY StatusTypes DEF IInv, TypeOK, Job
    <3>2. UNCHANGED row \/ WriteRow(j, InProgress(job[j].kind), j)
      BY <2>2 DEF ClaimWork, WriteRow
    <3>. QED
      BY <1>1, <1>2, <3>1, <3>2, WriteRowKeepsRow DEF Stays
  <2>3. CASE SkipCustomization(j) \/ FinishWork(j) \/ GiveUpStop(j) \/ RecordFailure(j)
    <3>1. PICK status \in Status : WriteRow(j, status, j)
      BY <2>3 DEF SkipCustomization, FinishWork, GiveUpStop, RecordFailure, Status, Busy, Resting
    <3>. QED
      BY <1>1, <3>1, WriteRowKeepsRow DEF Stays
  <2>4. CASE RecordNext(j)
    <3>1. job[j].next \in JobIds
      BY <2>4 DEF RecordNext, IInv, JobsTaken
    <3>2. PICK status \in Status : WriteRow(j, status, job[j].next)
      BY <2>4 DEF RecordNext, Status, Busy
    <3>. QED
      BY <1>1, <3>1, <3>2, WriteRowKeepsRow DEF Stays
  <2>. QED
    BY <1>1, <1>2, <1>4, <2>1, <2>2, <2>3, <2>4
    DEF Processor, TakeJob, LockGlobal, LockLab, BeginApply, RetryApply, EndApply, BeginDestroy,
        EndDestroy, RequestPower, VerifyStop, DelayStop, QueueCustomization, QueueNext, FailWork,
        ReleaseLocks, SettleJob
<1>5. ASSUME NEW j \in JobIds, Faulty(j) PROVE Removal
  <2>1. CASE HandleStall(j)
    <3>1. WriteRow(j, "failed", j) /\ "failed" \in Status
      BY <2>1 DEF HandleStall, Status, Resting
    <3>. QED
      BY <1>1, <3>1, WriteRowKeepsRow DEF Stays
  <2>. QED
    BY <1>1, <1>2, <1>5, <2>1 DEF Faulty, LoseRequest, LoseResume, KillProcessor, FailLock,
       LoseSession, NoticeLoss, StallJob
<1>6. ASSUME NEW l \in Labs, Recovering(l) PROVE Removal
  <2>1. CASE WriteRecovery(l)
    <3>. DEFINE action == IF recovery[l].status = "customizing" THEN "customize"
                          ELSE "worker-restarted"
                new == [row[l] EXCEPT !.status = "failed", !.action = action]
    <3>1. row[l] # None => new \in Row
      BY RowUpdate DEF IInv, TypeOK, Status, Resting, RowAction, Kinds
    <3>2. UNCHANGED row \/ (row[l] # None /\ row' = [row EXCEPT ![l] = new])
      BY <2>1 DEF WriteRecovery
    <3>. HIDE DEF new
    <3>. QED
      BY <1>1, <1>2, <1>3, <3>1, <3>2
  <2>. QED
    BY <1>1, <1>2, <1>6, <2>1 DEF Recovering, ReadRecovery, LockRecovery, CheckRecovery
<1>7. CASE Dashboard
  <2>1. ASSUME NEW j \in JobIds, ClaimRequest(j) PROVE Removal
    <3>. DEFINE new == [status |-> InitialStatus(job[j].kind), action |-> job[j].kind,
                        job |-> j, run |-> j]
    <3>1. new \in Row
      BY StatusTypes DEF IInv, TypeOK, Job, Row
    <3>2. UNCHANGED row \/ row' = [row EXCEPT ![job[j].lab] = new]
      BY <2>1 DEF ClaimRequest
    <3>3. job[j].lab \in Labs
      BY <2>1 DEF ClaimRequest, IInv, JobsTaken
    <3>. HIDE DEF new
    <3>. QED
      BY <1>1, <1>2, <1>3, <3>1, <3>2, <3>3
  <2>2. ASSUME NEW j \in JobIds, ClaimResume(j) \/ RetryResume(j) PROVE Removal
    <3>1. job[j].lab \in Labs
      BY <2>2 DEF ClaimResume, RetryResume, IInv, JobsTaken
    <3>2. PICK status \in Status :
            \/ UNCHANGED row
            \/ /\ row[job[j].lab] # None
               /\ row' = [row EXCEPT ![job[j].lab] = [row[job[j].lab] EXCEPT !.status = status]]
      BY <2>2 DEF ClaimResume, RetryResume, Resumable, Status, Busy, Resting
    <3>3. row[job[j].lab] # None => [row[job[j].lab] EXCEPT !.status = status] \in Row
      BY <3>1, RowUpdate DEF IInv, TypeOK, RowAction
    <3>. QED
      BY <1>1, <1>2, <1>3, <3>1, <3>2, <3>3
  <2>3. ASSUME NEW l \in Labs, WriteRefresh(l) PROVE Removal
    <3>1. row[l] # None =>
            [row[l] EXCEPT !.status = refresh[l].to, !.action = "refresh"] \in Row
      BY <2>3, RowUpdate, StatusTypes DEF WriteRefresh, IInv, TypeOK, RowAction
    <3>2. \/ UNCHANGED row
          \/ /\ row[l] # None
             /\ row' = [row EXCEPT ![l] = [row[l] EXCEPT !.status = refresh[l].to, !.action = "refresh"]]
      BY <2>3 DEF WriteRefresh
    <3>. QED
      BY <1>1, <1>2, <1>3, <3>1, <3>2
  <2>4. ASSUME NEW l \in Labs, DeleteRow(l) PROVE Removal
    BY <2>4 DEF DeleteRow, Removal, IInv, TypeOK
  <2>5. ASSUME ResetRows PROVE Stays
    <3>1. ASSUME NEW l \in Labs, row[l] # None
          PROVE  [row[l] EXCEPT !.status = "failed", !.action = "cancelled"] \in Row
      BY <3>1, RowUpdate DEF IInv, TypeOK, Status, Resting, RowAction
    <3>. QED
      BY <2>5, <3>1, NoRowAssumption DEF ResetRows, Stays
  <2>. QED
    BY <1>1, <1>2, <1>7, <2>1, <2>2, <2>3, <2>4, <2>5
    DEF Dashboard, CheckRequest, EnqueueRequest, ForgetJob, CheckResume, CheckDelete,
        ReadRefresh, StartCancel, SweepQueue, EndCancel
<1>8. ASSUME NEW q \in Queues, HandleAbort(q) PROVE Removal
  BY <1>1, <1>2, <1>8 DEF HandleAbort
<1>. QED
  BY <1>1, <1>2, <1>4, <1>5, <1>6, <1>7, <1>8 DEF Next, vars

\* As long as PostgreSQL loses no session, a row is removed by a delete request
\* or by a destroy of its lab that has left no VM of it, whatever else crashes,
\* stalls, is cancelled or resumed: a row never goes while VMs remain behind it.
THEOREM DestroyRemoves ==
  ASSUME "session" \notin FaultKinds PROVE Spec => RemovedWhenDestroyed
<1>. DEFINE DInv == Steady /\ DestroyedIsGone
<1>1. Init => DInv
  BY DEF Init, Steady, DestroyedIsGone, At, Leased, Working
<1>2. IInv /\ DInv /\ [Next]_vars => DInv'
  BY SteadyStep, DestroyedStep, JobsStep
<1>3. IInv /\ DInv /\ [Next]_vars =>
        [\A l \in Labs :
           row[l] # None /\ row'[l] = None /\ l \notin deleting
             => row[l].status = "destroying" /\ l \notin provisioned]_vars
  BY RemovalStep DEF Removal
<1>4. Spec => []DInv
  <2>. HIDE DEF DInv
  <2>. QED
    BY <1>1, <1>2, Invariance, PTL DEF Spec
<1>. QED
  BY <1>3, <1>4, Invariance, PTL DEF Spec, RemovedWhenDestroyed

---------------------------------------------------------------------------
(* Every way a row can change *)

\* The request of job j has won the row of lab l, which was at rest.
Claimed(j, l) ==
  /\ ClaimRequest(j) /\ job[j].lab = l
  /\ row[l].status \notin Busy
  /\ row'[l].job = j /\ row'[l].run = j
  /\ state[j] = "checked" /\ state'[j] = "claimed"

\* Job j, which owns the row of lab l, has written it for itself or for the
\* follow-up it has queued.
Written(j, l) ==
  /\ \/ Processor(j) /\ pc[j] \in Leased
     \/ HandleStall(j)
  /\ job[j].lab = l /\ OwnsRow(j)
  /\ row'[l].run = row[l].run
  /\ \/ row'[l].job = j
     \/ RecordNext(j) /\ row'[l].job = job[j].next

\* The resume request of job j has claimed the row, or takes the claim back.
Resumed(j, l) ==
  /\ job[j].lab = l
  /\ \/ ClaimResume(j) /\ Resumable(j, "failed") /\ row'[l].status = "customizing"
     \/ /\ RetryResume(j) /\ Resumable(j, "customizing") /\ row'[l].status = "failed"
        /\ state[j] # "failed"
  /\ row'[l].action = row[l].action

\* The status has been changed in place: the row keeps its job and its run.
Edited(l) ==
  /\ row[l] # None /\ row'[l].job = row[l].job /\ row'[l].run = row[l].run
  /\ \/ \E j \in JobIds : Resumed(j, l)
     \/ WriteRefresh(l) /\ row[l].status = refresh[l].status /\ row'[l].status = refresh[l].to
     \/ ResetRows /\ row'[l].status = "failed" /\ row'[l].action = "cancelled"
     \/ WriteRecovery(l) /\ row'[l].status = "failed"

Changed(l) ==
  \/ \E j \in JobIds : Claimed(j, l) \/ Written(j, l)
  \/ Edited(l)

\* What a record update does to the fields of a row.
LEMMA RowFields ==
  ASSUME NEW r \in Row, NEW status, NEW action
  PROVE  /\ LET s == [r EXCEPT !.status = status] IN
              s.status = status /\ s.action = r.action /\ s.job = r.job /\ s.run = r.run
         /\ LET s == [r EXCEPT !.status = status, !.action = action] IN
              s.status = status /\ s.action = action /\ s.job = r.job /\ s.run = r.run
<1>1. ASSUME NEW q \in Row, NEW s, s = [q EXCEPT !.status = status]
      PROVE  /\ s.status = status /\ s.action = q.action /\ s.job = q.job /\ s.run = q.run
             /\ s = [status |-> status, action |-> q.action, job |-> q.job, run |-> q.run]
  BY <1>1 DEF Row
<1>. DEFINE s == [status |-> status, action |-> r.action, job |-> r.job, run |-> r.run]
<1>3. /\ [s EXCEPT !.action = action].status = status
      /\ [s EXCEPT !.action = action].action = action
      /\ [s EXCEPT !.action = action].job = r.job
      /\ [s EXCEPT !.action = action].run = r.run
  OBVIOUS
<1>4. [r EXCEPT !.status = status, !.action = action] = [s EXCEPT !.action = action]
  BY <1>1
<1>. QED
  BY <1>1, <1>3, <1>4

\* The swallowing write of a job changes no row but that of its lab, which it
\* gives to job id under the same run.
LEMMA WriteRowFields ==
  ASSUME IInv, NEW j \in JobIds, NEW status, NEW id, WriteRow(j, status, id),
         NEW l \in Labs, row'[l] # row[l]
  PROVE  /\ job[j].lab = l /\ OwnsRow(j)
         /\ row'[l].status = status /\ row'[l].action = job[id].kind
         /\ row'[l].job = id /\ row'[l].run = job[j].run /\ row'[l].run = row[l].run
<1>. DEFINE new == [status |-> status, action |-> job[id].kind, job |-> id, run |-> job[j].run]
<1>1. UNCHANGED row \/ (OwnsRow(j) /\ row' = [row EXCEPT ![job[j].lab] = new])
  BY DEF WriteRow, SetRow
<1>. HIDE DEF new
<1>2. OwnsRow(j) /\ job[j].lab = l /\ row'[l] = new
  BY <1>1 DEF IInv, TypeOK
<1>3. new.status = status /\ new.action = job[id].kind /\ new.job = id /\ new.run = job[j].run
  BY DEF new
<1>. QED
  BY <1>2, <1>3 DEF OwnsRow

\* No other step of the system changes a row that stays.
LEMMA RowChanges ==
  ASSUME IInv, [Next]_vars, NEW l \in Labs, row'[l] # row[l], row'[l] # None
  PROVE  Changed(l)
<1>. USE DEF dashVars, procVars
<1>0. row \in [Labs -> Row \cup {None}]
  BY DEF IInv, TypeOK
<1>1. ASSUME NEW j \in JobIds, Processor(j) PROVE Changed(l)
  <2>1. CASE RemoveRow(j)
    BY <1>0, <2>1 DEF RemoveRow
  <2>2. CASE RecordNext(j)
    <3>1. PICK status : WriteRow(j, status, job[j].next)
      BY <2>2 DEF RecordNext
    <3>2. pc[j] \in Leased
      BY <2>2 DEF RecordNext, Leased, Working
    <3>. QED
      BY <1>1, <2>2, <3>1, <3>2, WriteRowFields DEF Changed, Written
  <2>3. ASSUME NEW status, WriteRow(j, status, j), pc[j] \in Leased
        PROVE  Changed(l)
    BY <1>1, <2>3, WriteRowFields DEF Changed, Written
  <2>4. CASE ClaimWork(j)
    <3>1. WriteRow(j, InProgress(job[j].kind), j) /\ pc[j] \in Leased
      BY <2>4 DEF ClaimWork, WriteRow, Leased
    <3>. QED
      BY <2>3, <3>1
  <2>5. CASE SkipCustomization(j) \/ FinishWork(j) \/ GiveUpStop(j) \/ RecordFailure(j)
    BY <2>3, <2>5 DEF SkipCustomization, FinishWork, GiveUpStop, RecordFailure, At, Leased, Working
  <2>. QED
    BY <1>1, <2>1, <2>2, <2>4, <2>5
    DEF Processor, TakeJob, LockGlobal, LockLab, BeginApply, RetryApply, EndApply, BeginDestroy,
        EndDestroy, RequestPower, VerifyStop, DelayStop, QueueCustomization, QueueNext, FailWork,
        ReleaseLocks, SettleJob
<1>2. ASSUME NEW j \in JobIds, Faulty(j) PROVE Changed(l)
  <2>1. HandleStall(j) /\ WriteRow(j, "failed", j)
    BY <1>2 DEF Faulty, LoseRequest, LoseResume, KillProcessor, FailLock, LoseSession, NoticeLoss,
                StallJob, HandleStall
  <2>. QED
    BY <2>1, WriteRowFields DEF Changed, Written
<1>3. ASSUME NEW m \in Labs, Recovering(m) PROVE Changed(l)
  <2>. DEFINE action == IF recovery[l].status = "customizing" THEN "customize"
                        ELSE "worker-restarted"
              new == [row[l] EXCEPT !.status = "failed", !.action = action]
  <2>1. WriteRecovery(m)
    BY <1>3 DEF Recovering, ReadRecovery, LockRecovery, CheckRecovery
  <2>2. m = l /\ row[l] # None /\ row'[l] = new
    BY <1>0, <2>1 DEF WriteRecovery
  <2>3. new.status = "failed" /\ new.job = row[l].job /\ new.run = row[l].run
    BY <1>0, <2>2, RowFields
  <2>. HIDE DEF new
  <2>. QED
    BY <2>1, <2>2, <2>3 DEF Changed, Edited
<1>4. ASSUME NEW j \in JobIds, ClaimRequest(j) PROVE Changed(l)
  <2>. DEFINE new == [status |-> InitialStatus(job[j].kind), action |-> job[j].kind,
                      job |-> j, run |-> j]
  <2>1. /\ row[job[j].lab].status \notin Busy /\ row' = [row EXCEPT ![job[j].lab] = new]
        /\ state[j] = "checked" /\ state' = [state EXCEPT ![j] = "claimed"]
    BY <1>4 DEF ClaimRequest
  <2>2. new.job = j /\ new.run = j
    OBVIOUS
  <2>. HIDE DEF new
  <2>3. job[j].lab = l /\ row'[l] = new /\ state'[j] = "claimed"
    BY <1>0, <2>1 DEF IInv, TypeOK
  <2>. QED
    BY <1>4, <2>1, <2>2, <2>3 DEF Changed, Claimed
<1>5. ASSUME NEW j \in JobIds, ClaimResume(j) PROVE Changed(l)
  <2>. DEFINE new == [row[l] EXCEPT !.status = "customizing"]
  <2>1. /\ Resumable(j, "failed")
        /\ row' = [row EXCEPT ![job[j].lab] = [row[job[j].lab] EXCEPT !.status = "customizing"]]
    BY <1>5 DEF ClaimResume
  <2>2. job[j].lab = l /\ row[l] # None /\ row'[l] = new
    BY <1>0, <2>1 DEF Resumable
  <2>3. new.status = "customizing" /\ new.action = row[l].action /\ new.job = row[l].job /\ new.run = row[l].run
    BY <1>0, <2>2, RowFields
  <2>. HIDE DEF new
  <2>. QED
    BY <1>5, <2>1, <2>2, <2>3 DEF Changed, Edited, Resumed
<1>6. ASSUME NEW j \in JobIds, RetryResume(j) PROVE Changed(l)
  <2>. DEFINE new == [row[l] EXCEPT !.status = "failed"]
  <2>1. /\ Resumable(j, "customizing") /\ state[j] # "failed"
        /\ row' = [row EXCEPT ![job[j].lab] = [row[job[j].lab] EXCEPT !.status = "failed"]]
    BY <1>6 DEF RetryResume
  <2>2. job[j].lab = l /\ row[l] # None /\ row'[l] = new
    BY <1>0, <2>1 DEF Resumable
  <2>3. new.status = "failed" /\ new.action = row[l].action /\ new.job = row[l].job /\ new.run = row[l].run
    BY <1>0, <2>2, RowFields
  <2>. HIDE DEF new
  <2>. QED
    BY <1>6, <2>1, <2>2, <2>3 DEF Changed, Edited, Resumed
<1>7. ASSUME NEW m \in Labs, WriteRefresh(m) PROVE Changed(l)
  <2>. DEFINE new == [row[l] EXCEPT !.status = refresh[l].to, !.action = "refresh"]
  <2>1. /\ row[m] # None /\ row[m].status = refresh[m].status
        /\ row' = [row EXCEPT ![m] = [row[m] EXCEPT !.status = refresh[m].to, !.action = "refresh"]]
    BY <1>7 DEF WriteRefresh
  <2>2. m = l /\ row'[l] = new
    BY <1>0, <2>1
  <2>3. new.status = refresh[l].to /\ new.job = row[l].job /\ new.run = row[l].run
    BY <1>0, <2>1, <2>2, RowFields
  <2>. HIDE DEF new
  <2>. QED
    BY <1>7, <2>1, <2>2, <2>3 DEF Changed, Edited
<1>8. CASE ResetRows
  <2>. DEFINE new == [row[l] EXCEPT !.status = "failed", !.action = "cancelled"]
  <2>1. row[l] # None /\ row'[l] = new
    BY <1>0, <1>8 DEF ResetRows
  <2>2. new.status = "failed" /\ new.action = "cancelled" /\ new.job = row[l].job /\ new.run = row[l].run
    BY <1>0, <2>1, RowFields
  <2>. HIDE DEF new
  <2>. QED
    BY <1>8, <2>1, <2>2 DEF Changed, Edited
<1>9. ASSUME NEW m \in Labs, DeleteRow(m) PROVE Changed(l)
  BY <1>0, <1>9 DEF DeleteRow
<1>10. CASE Dashboard
  BY <1>4, <1>5, <1>6, <1>7, <1>8, <1>9, <1>10
  DEF Dashboard, CheckRequest, EnqueueRequest, ForgetJob, CheckResume, CheckDelete,
      ReadRefresh, StartCancel, SweepQueue, EndCancel
<1>11. ASSUME NEW q \in Queues, HandleAbort(q) PROVE Changed(l)
  BY <1>11 DEF HandleAbort
<1>. QED
  BY <1>1, <1>2, <1>3, <1>10, <1>11 DEF Next, vars

---------------------------------------------------------------------------
(* Every way a job can change *)

\* The jobs that have been claimed for their run or queued by a job of it.
Begun == {j \in JobIds : state[j] \notin {"unused", "checked"}}

\* Only a deploy counts in its data what it tries.
SameJob(i) ==
  /\ job'[i].lab = job[i].lab /\ job'[i].kind = job[i].kind
  /\ job'[i].run = job[i].run /\ job'[i].next = job[i].next
  /\ job[i].kind = "stop" => job'[i].tries = job[i].tries

\* The job keeps its data, and goes through its states in order.
Proceeds(i) ==
  /\ SameJob(i)
  /\ state'[i] = "unused" <=> state[i] = "unused"
  /\ state'[i] = "checked" => state[i] = "checked"
  /\ state'[i] = "claimed" => state[i] \in {"checked", "claimed"}
  /\ i \in Begun => i \in Begun'
  /\ pc'[i] = "handoff" => pc[i] = "handoff"

\* A request takes the id j.
Requests(j) ==
  /\ state[j] = "unused" /\ state'[j] = "checked" /\ job'[j].run = j
  /\ UNCHANGED <<row, pc, lease, resume, stalls>>
  /\ \A i \in JobIds \ {j} : Proceeds(i)

\* Job j queues c to carry its run on.
HandsOver(j, c) ==
  /\ c # j
  /\ pc[j] = "applied" /\ pc'[j] = "handoff" /\ job'[j].next = c
  /\ job'[j].lab = job[j].lab /\ job'[j].kind = job[j].kind /\ job'[j].run = job[j].run
  /\ job'[j].tries = job[j].tries /\ state'[j] = state[j]
  /\ state[c] = "unused" /\ state'[c] = "pending"
  /\ job'[c].lab = job[j].lab /\ job'[c].run = job[j].run
  /\ UNCHANGED <<row, lease, resume, stalls>>
  /\ \A i \in JobIds \ {j} : pc'[i] = pc[i]
  /\ \A i \in JobIds \ {j, c} : Proceeds(i)

\* Updates of a job that leave its identity alone.
LEMMA JobFields ==
  ASSUME NEW q \in Job, NEW b, NEW n
  PROVE  /\ LET s == [q EXCEPT !.checkpoints = b] IN
              s.lab = q.lab /\ s.kind = q.kind /\ s.run = q.run /\ s.next = q.next /\ s.tries = q.tries
         /\ LET s == [q EXCEPT !.tries = n] IN
              s.lab = q.lab /\ s.kind = q.kind /\ s.run = q.run /\ s.next = q.next
         /\ LET s == [q EXCEPT !.next = n] IN
              /\ s.lab = q.lab /\ s.kind = q.kind /\ s.run = q.run /\ s.tries = q.tries
              /\ s.next = n
BY DEF Job

\* Queueing a follow-up.
LEMMA QueueNextHands ==
  ASSUME IInv, NEW j \in JobIds, pc[j] = "applied", NEW c \in JobIds, NEW kind \in Kinds,
         NEW tries \in Nat, QueueNext(j, c, kind, tries)
  PROVE  HandsOver(j, c)
<1>. DEFINE new == NewJob(c, job[j].lab, kind, job[j].run, tries)
            fresh == [lab |-> job[j].lab, kind |-> kind, run |-> job[j].run, tries |-> tries,
                      next |-> None, checkpoints |-> FALSE]
<1>1. c # j /\ state[c] = "unused" /\ state[j] # "unused" /\ pc[c] = "off"
  BY DEF IInv, JobsTaken, QueueNext
<1>2. fresh.lab = job[j].lab /\ fresh.run = job[j].run
  OBVIOUS
<1>3. new = [job EXCEPT ![c] = fresh]
  BY DEF NewJob
<1>. HIDE DEF fresh
<1>4. job' = [new EXCEPT ![j] = [new[j] EXCEPT !.next = c]]
  BY <1>1, <1>3 DEF QueueNext, IInv, TypeOK
<1>. HIDE DEF new
<1>5. /\ new[j] = job[j] /\ job'[c] = fresh /\ job'[j] = [job[j] EXCEPT !.next = c]
      /\ \A i \in JobIds \ {j, c} : job'[i] = job[i]
  BY <1>1, <1>3, <1>4 DEF IInv, TypeOK
<1>6. /\ job'[j].lab = job[j].lab /\ job'[j].kind = job[j].kind /\ job'[j].run = job[j].run
      /\ job'[j].tries = job[j].tries /\ job'[j].next = c
  BY <1>5, JobFields DEF IInv, TypeOK
<1>7. /\ state'[c] = "pending" /\ pc'[j] = "handoff"
      /\ \A i \in JobIds \ {c} : state'[i] = state[i]
      /\ \A i \in JobIds \ {j} : pc'[i] = pc[i]
      /\ UNCHANGED <<row, lease, resume, stalls>>
  BY <1>1 DEF QueueNext, Goto, IInv, TypeOK, dashVars
<1>8. \A i \in JobIds \ {j, c} : Proceeds(i)
  BY <1>5, <1>7 DEF Proceeds, SameJob, Begun
<1>. QED
  BY <1>1, <1>2, <1>5, <1>6, <1>7, <1>8 DEF HandsOver

\* No other step takes an id or changes the identity of a job.
LEMMA JobChanges ==
  ASSUME IInv, [Next]_vars
  PROVE  \/ \A i \in JobIds : Proceeds(i)
         \/ \E j \in JobIds : Requests(j)
         \/ \E j, c \in JobIds : HandsOver(j, c)
<1>. USE DEF dashVars, procVars
<1>. DEFINE Rest == \A i \in JobIds : Proceeds(i)
<1>1. ASSUME NEW j \in JobIds, NEW l \in Labs, NEW action \in Actions, CheckRequest(j, l, action)
      PROVE  Requests(j)
  <2>1. /\ job'[j].run = j
        /\ \A i \in JobIds \ {j} : job'[i] = job[i]
    BY <1>1 DEF CheckRequest, NewJob, IInv, TypeOK
  <2>. QED
    BY <1>1, <2>1 DEF CheckRequest, Requests, Proceeds, SameJob, Begun, IInv, TypeOK
<1>2. ASSUME UNCHANGED job, UNCHANGED pc,
             \A i \in JobIds : \/ state'[i] = state[i]
                               \/ /\ state[i] # "unused"
                                  /\ state'[i] \notin {"unused", "checked", "claimed"}
                               \/ state[i] = "checked" /\ state'[i] = "claimed"
      PROVE  Rest
  BY <1>2 DEF Proceeds, SameJob, Begun
<1>3. ASSUME NEW j \in JobIds,
             \/ ClaimRequest(j) \/ EnqueueRequest(j) \/ ForgetJob(j)
             \/ CheckResume(j) \/ ClaimResume(j) \/ RetryResume(j)
      PROVE  Rest
  BY <1>2, <1>3 DEF ClaimRequest, EnqueueRequest, ForgetJob, CheckResume, ClaimResume, RetryResume,
                    IInv, TypeOK
<1>4. ASSUME NEW l \in Labs, CheckDelete(l) \/ DeleteRow(l) \/ ReadRefresh(l) \/ WriteRefresh(l)
      PROVE  Rest
  BY <1>2, <1>4 DEF CheckDelete, DeleteRow, ReadRefresh, WriteRefresh
<1>5. ASSUME StartCancel \/ ResetRows \/ EndCancel PROVE Rest
  BY <1>2, <1>5 DEF StartCancel, ResetRows, EndCancel
<1>6. ASSUME NEW q \in Queues, SweepQueue(q) \/ HandleAbort(q) PROVE Rest
  BY <1>2, <1>6 DEF SweepQueue, HandleAbort
<1>7. ASSUME NEW l \in Labs, Recovering(l) PROVE Rest
  BY <1>2, <1>7 DEF Recovering, ReadRecovery, LockRecovery, CheckRecovery, WriteRecovery
<1>8. ASSUME NEW j \in JobIds, Faulty(j) PROVE Rest
  <2>1. CASE LoseRequest(j) \/ LoseResume(j) \/ LoseSession(j) \/ NoticeLoss(j) \/ HandleStall(j)
    BY <1>2, <2>1 DEF LoseRequest, LoseResume, LoseSession, NoticeLoss, HandleStall, IInv, TypeOK
  <2>2. CASE KillProcessor(j) \/ FailLock(j)
    BY <2>2 DEF KillProcessor, FailLock, Goto, Proceeds, SameJob, Begun, IInv, TypeOK
  <2>3. CASE StallJob(j)
    BY <2>3 DEF StallJob, Goto, Proceeds, SameJob, Begun, IInv, TypeOK
  <2>. QED
    BY <1>8, <2>1, <2>2, <2>3 DEF Faulty
<1>9. ASSUME NEW j \in JobIds, Processor(j)
      PROVE  Rest \/ \E c \in JobIds : HandsOver(j, c)
  <2>. USE DEF IInv, TypeOK, Goto
  <2>1. CASE ClaimWork(j)
    <3>1. PICK b \in BOOLEAN :
            UNCHANGED job \/ job' = [job EXCEPT ![j] = [job[j] EXCEPT !.checkpoints = b]]
      BY <2>1 DEF ClaimWork
    <3>2. \A i \in JobIds : SameJob(i)
      <4>1. LET s == [job[j] EXCEPT !.checkpoints = b] IN
              /\ s.lab = job[j].lab /\ s.kind = job[j].kind /\ s.run = job[j].run
              /\ s.next = job[j].next /\ s.tries = job[j].tries
        BY JobFields
      <4>. QED
        BY <3>1, <4>1 DEF SameJob
    <3>. QED
      BY <2>1, <3>2 DEF ClaimWork, Proceeds, Begun
  <2>2. CASE RetryApply(j)
    <3>1. PICK n : job' = [job EXCEPT ![j] = [job[j] EXCEPT !.tries = n]]
      BY <2>2 DEF RetryApply
    <3>2. \A i \in JobIds : SameJob(i)
      BY <2>2, <3>1, JobFields DEF SameJob, RetryApply, At
    <3>. QED
      BY <2>2, <3>2 DEF RetryApply, Proceeds, Begun
  <2>3. ASSUME NEW c \in JobIds, DelayStop(j, c) \/ QueueCustomization(j, c)
        PROVE  HandsOver(j, c)
    <3>1. job[j].tries + 1 \in Nat /\ 0 \in Nat /\ {"stop", "customize"} \subseteq Kinds
      BY DEF Job, Kinds, Actions
    <3>. QED
      BY <2>3, <3>1, QueueNextHands DEF DelayStop, QueueCustomization, At
  <2>4. CASE TakeJob(j) \/ LockGlobal(j) \/ LockLab(j)
    BY <2>4 DEF TakeJob, FirstLock, LockGlobal, LockLab, Bounce, Proceeds, SameJob, Begun
  <2>5. CASE SettleJob(j) \/ ReleaseLocks(j)
    BY <2>5 DEF SettleJob, ReleaseLocks, Proceeds, SameJob, Begun
  <2>6. ASSUME UNCHANGED job, UNCHANGED state, NEW phase, phase # "handoff", Goto(j, phase) PROVE Rest
    BY <2>6 DEF Proceeds, SameJob, Begun
  <2>7. CASE BeginApply(j) \/ EndApply(j) \/ BeginDestroy(j) \/ EndDestroy(j) \/ RemoveRow(j)
    BY <2>6, <2>7 DEF BeginApply, EndApply, BeginDestroy, EndDestroy, RemoveRow
  <2>8. CASE RequestPower(j) \/ VerifyStop(j) \/ FinishWork(j) \/ GiveUpStop(j)
    BY <2>6, <2>8 DEF RequestPower, VerifyStop, FinishWork, GiveUpStop
  <2>9. CASE SkipCustomization(j) \/ RecordNext(j) \/ FailWork(j) \/ RecordFailure(j)
    BY <2>6, <2>9 DEF SkipCustomization, RecordNext, FailWork, RecordFailure
  <2>. QED
    BY <1>9, <2>1, <2>2, <2>3, <2>4, <2>5, <2>7, <2>8, <2>9 DEF Processor
<1>10. CASE UNCHANGED vars
  BY <1>2, <1>10 DEF vars
<1>. QED
  BY <1>1, <1>3, <1>4, <1>5, <1>6, <1>7, <1>8, <1>9, <1>10 DEF Next, Dashboard

---------------------------------------------------------------------------
(* Runs *)

\* A processor, a 'stalled' event or a resume request has to do with the job.
Engaged(j) == pc[j] # "off" \/ j \in stalls \/ resume[j] # "no"

\* A run has begun before any job of it is worked on or named by a row, and a
\* follow-up that is to be recorded is queued for the lab and the run of its job.
RunsBegun ==
  /\ \A j \in JobIds :
       /\ state[j] \in {"checked", "claimed"} => job[j].run = j
       /\ j \in Begun => job[j].run \in JobIds /\ job[j].run \in Begun
       /\ Engaged(j) => j \in Begun
       /\ pc[j] = "handoff" => /\ job[j].next \in Begun
                               /\ job[job[j].next].lab = job[j].lab
                               /\ job[job[j].next].run = job[j].run
  /\ \A l \in Labs : row[l] # None /\ row[l].job # None => row[l].job \in Begun

\* Only a job that has begun becomes engaged.
LEMMA EngagedStep ==
  ASSUME IInv, [Next]_vars, NEW i \in JobIds, Engaged(i)'
  PROVE  Engaged(i) \/ i \in Begun
<1>. USE DEF dashVars, procVars, IInv, TypeOK, Goto, Begun, Engaged
<1>1. ASSUME UNCHANGED <<pc, stalls, resume>> PROVE Engaged(i)
  BY <1>1
<1>2. ASSUME NEW j \in JobIds, Processor(j) PROVE Engaged(i) \/ i \in Begun
  <2>1. UNCHANGED <<stalls, resume>> /\ (i # j => pc'[i] = pc[i])
    <3>1. i # j => pc'[i] = pc[i]
      BY <1>2, ProcessorMoves DEF OnlyMoves
    <3>. QED
      BY <1>2, <3>1 DEF Processor, TakeJob, LockGlobal, LockLab, ClaimWork, SkipCustomization, BeginApply,
       RetryApply, EndApply, BeginDestroy, EndDestroy, RemoveRow, RequestPower, VerifyStop, FinishWork,
       GiveUpStop, DelayStop, QueueCustomization, QueueNext, RecordNext, FailWork, RecordFailure,
       ReleaseLocks, SettleJob
  <2>2. pc[j] # "off" \/ state[j] = "pending"
    BY <1>2 DEF Processor, TakeJob, LockGlobal, LockLab, ClaimWork, SkipCustomization, BeginApply,
       RetryApply, EndApply, BeginDestroy, EndDestroy, RemoveRow, RequestPower, VerifyStop, FinishWork,
       GiveUpStop, DelayStop, QueueCustomization, QueueNext, RecordNext, FailWork, RecordFailure,
       ReleaseLocks, SettleJob, At
  <2>. QED
    BY <2>1, <2>2
<1>3. ASSUME NEW j \in JobIds, Faulty(j) PROVE Engaged(i) \/ i \in Begun
  BY <1>3 DEF Faulty, LoseRequest, LoseResume, KillProcessor, FailLock, LoseSession, NoticeLoss,
              StallJob, HandleStall
<1>4. ASSUME NEW l \in Labs, Recovering(l) PROVE Engaged(i)
  BY <1>1, <1>4 DEF Recovering, ReadRecovery, LockRecovery, CheckRecovery, WriteRecovery
<1>5. CASE Dashboard
  BY <1>5 DEF Dashboard, CheckRequest, ClaimRequest, EnqueueRequest, ForgetJob, CheckResume,
     ClaimResume, RetryResume, CheckDelete, DeleteRow, ReadRefresh, WriteRefresh, StartCancel,
     SweepQueue, ResetRows, EndCancel
<1>6. ASSUME NEW q \in Queues, HandleAbort(q) PROVE Engaged(i)
  BY <1>1, <1>6 DEF HandleAbort
<1>. QED
  BY <1>1, <1>2, <1>3, <1>4, <1>5, <1>6 DEF Next, vars

\* A row names only jobs that have begun.
LEMMA RowJobBegun ==
  ASSUME IInv, RunsBegun, [Next]_vars, NEW l \in Labs, row'[l] # None, row'[l].job # None,
         \A i \in JobIds : i \in Begun => i \in Begun'
  PROVE  row'[l].job \in Begun'
<1>1. CASE row'[l] = row[l]
  <2>1. row[l].job \in JobIds /\ row[l].job \in Begun
    BY <1>1 DEF RunsBegun, IInv, TypeOK, Row
  <2>2. row[l].job \in Begun'
    BY <2>1
  <2>. QED
    BY <1>1, <2>2
<1>2. CASE row'[l] # row[l]
  <2>1. CASE Edited(l)
    <3>1. row[l] # None /\ row'[l].job = row[l].job
      BY <2>1 DEF Edited
    <3>2. row[l].job \in JobIds /\ row[l].job \in Begun
      BY <3>1 DEF RunsBegun, IInv, TypeOK, Row
    <3>. QED
      BY <3>1, <3>2
  <2>2. ASSUME NEW j \in JobIds, Claimed(j, l) PROVE row'[l].job \in Begun'
    BY <2>2 DEF Claimed, Begun
  <2>3. ASSUME NEW j \in JobIds, Written(j, l) PROVE row'[l].job \in Begun'
    <3>1. j \in Begun
      BY <2>3 DEF Written, HandleStall, RunsBegun, Engaged, Leased, Working
    <3>2. RecordNext(j) => job[j].next \in Begun /\ job[j].next \in JobIds
      BY DEF RecordNext, RunsBegun, IInv, JobsTaken
    <3>. QED
      BY <2>3, <3>1, <3>2 DEF Written
  <2>. QED
    BY <1>2, <2>1, <2>2, <2>3, RowChanges DEF Changed
<1>. QED
  BY <1>1, <1>2

\* What is known of runs is kept by every step of the system, faults included.
LEMMA RunsStep == ASSUME IInv, RunsBegun, [Next]_vars PROVE RunsBegun'
<1>. DEFINE Steps == \A i \in JobIds : i \in Begun => i \in Begun'
            Good(j) == /\ state[j] \in {"checked", "claimed"} => job[j].run = j
                       /\ j \in Begun => job[j].run \in JobIds /\ job[j].run \in Begun
                       /\ pc[j] = "handoff" => /\ job[j].next \in Begun
                                               /\ job[job[j].next].lab = job[j].lab
                                               /\ job[job[j].next].run = job[j].run
<1>1. Steps /\ \A j \in JobIds : Good(j)'
  <2>1. CASE \A i \in JobIds : Proceeds(i)
    <3>1. ASSUME NEW j \in JobIds PROVE Good(j)'
      <4>1. state'[j] \in {"checked", "claimed"} => job'[j].run = j
        BY <2>1 DEF Proceeds, SameJob, RunsBegun
      <4>2. j \in Begun' => job'[j].run \in JobIds /\ job'[j].run \in Begun'
        BY <2>1 DEF Proceeds, SameJob, RunsBegun, Begun, IInv, TypeOK, JobState
      <4>3. ASSUME pc'[j] = "handoff"
            PROVE  /\ job'[j].next \in Begun'
                   /\ job'[job'[j].next].lab = job'[j].lab
                   /\ job'[job'[j].next].run = job'[j].run
        <5>1. pc[j] = "handoff" /\ job[j].next \in JobIds /\ job'[j].next = job[j].next
          BY <2>1, <4>3 DEF Proceeds, SameJob, IInv, JobsTaken
        <5>. QED
          BY <2>1, <5>1 DEF Proceeds, SameJob, RunsBegun
      <4>. QED
        BY <4>1, <4>2, <4>3
    <3>. QED
      BY <2>1, <3>1 DEF Proceeds
  <2>2. ASSUME NEW k \in JobIds, Requests(k) PROVE Steps /\ \A j \in JobIds : Good(j)'
    <3>1. Steps
      BY <2>2 DEF Requests, Proceeds, Begun
    <3>2. ASSUME NEW j \in JobIds PROVE Good(j)'
      <4>1. CASE j = k
        <5>1. pc[k] = "off"
          BY <2>2 DEF Requests, IInv, JobsTaken
        <5>. QED
          BY <2>2, <4>1, <5>1 DEF Requests, Begun
      <4>2. CASE j # k
        <5>1. Proceeds(j) /\ k \notin Begun
          BY <2>2, <4>2 DEF Requests, Begun
        <5>2. state'[j] \in {"checked", "claimed"} => job'[j].run = j
          BY <5>1 DEF Proceeds, SameJob, RunsBegun
        <5>3. j \in Begun' => job'[j].run \in JobIds /\ job'[j].run \in Begun'
          BY <3>1, <4>2, <5>1 DEF Proceeds, SameJob, RunsBegun, Begun, IInv, TypeOK, JobState
        <5>4. ASSUME pc'[j] = "handoff"
              PROVE  /\ job'[j].next \in Begun'
                     /\ job'[job'[j].next].lab = job'[j].lab
                     /\ job'[job'[j].next].run = job'[j].run
          <6>1. pc[j] = "handoff" /\ job[j].next \in JobIds /\ job'[j].next = job[j].next
            BY <5>1, <5>4 DEF Proceeds, SameJob, IInv, JobsTaken
          <6>2. job[j].next # k
            BY <5>1, <6>1 DEF RunsBegun
          <6>. QED
            BY <2>2, <3>1, <5>1, <6>1, <6>2 DEF Requests, Proceeds, SameJob, RunsBegun
        <5>. QED
          BY <5>2, <5>3, <5>4
      <4>. QED
        BY <4>1, <4>2
    <3>. QED
      BY <3>1, <3>2
  <2>3. ASSUME NEW k \in JobIds, NEW c \in JobIds, HandsOver(k, c)
        PROVE  Steps /\ \A j \in JobIds : Good(j)'
    <3>0. k \in Begun /\ c \notin Begun /\ c \in Begun' /\ k \in Begun' /\ pc[c] = "off" /\ pc'[c] = "off"
      BY <2>3 DEF HandsOver, RunsBegun, Engaged, Begun, IInv, JobsTaken
    <3>1. Steps
      BY <2>3, <3>0 DEF HandsOver, Proceeds
    <3>2. job[k].run \in JobIds /\ job[k].run \in Begun /\ job[k].run # c
      BY <3>0 DEF RunsBegun
    <3>3. Good(k)'
      BY <2>3, <3>0, <3>1, <3>2 DEF HandsOver, RunsBegun
    <3>4. Good(c)'
      BY <2>3, <3>0, <3>1, <3>2 DEF HandsOver, Begun
    <3>5. ASSUME NEW j \in JobIds \ {k, c} PROVE Good(j)'
      <4>1. Proceeds(j)
        BY <2>3 DEF HandsOver
      <4>2. state'[j] \in {"checked", "claimed"} => job'[j].run = j
        BY <4>1 DEF Proceeds, SameJob, RunsBegun
      <4>3. j \in Begun' => job'[j].run \in JobIds /\ job'[j].run \in Begun'
        BY <3>1, <4>1 DEF Proceeds, SameJob, RunsBegun, Begun, IInv, TypeOK, JobState
      <4>4. ASSUME pc'[j] = "handoff"
            PROVE  /\ job'[j].next \in Begun'
                   /\ job'[job'[j].next].lab = job'[j].lab
                   /\ job'[job'[j].next].run = job'[j].run
        <5>1. pc[j] = "handoff" /\ job[j].next \in JobIds /\ job'[j].next = job[j].next
          BY <4>1, <4>4 DEF Proceeds, SameJob, IInv, JobsTaken
        <5>2. job[j].next # c
          BY <3>0, <5>1 DEF RunsBegun
        <5>. QED
          BY <2>3, <3>1, <4>1, <5>1, <5>2 DEF HandsOver, Proceeds, SameJob, RunsBegun
      <4>. QED
        BY <4>2, <4>3, <4>4
    <3>. QED
      BY <3>1, <3>3, <3>4, <3>5
  <2>. QED
    BY <2>1, <2>2, <2>3, JobChanges
<1>2. \A j \in JobIds : Engaged(j)' => j \in Begun'
  BY <1>1, EngagedStep DEF RunsBegun
<1>3. \A l \in Labs : row'[l] # None /\ row'[l].job # None => row'[l].job \in Begun'
  BY <1>1, RowJobBegun
<1>. QED
  BY <1>1, <1>2, <1>3 DEF RunsBegun

---------------------------------------------------------------------------
(* Workers that live *)

\* Workers do not die and are not taken for dead, sessions are not lost.
Quiet == FaultKinds \cap {"crash", "session", "stall"} = {}

\* BullMQ then knows exactly the jobs that are worked on, and only a job that
\* is over can be resumed.
ActiveJobs ==
  /\ \A j \in JobIds :
       /\ state[j] = "active" <=> pc[j] # "off"
       /\ pc[j] # "dead"
       /\ resume[j] # "no" => state[j] \in {"failed", "removed"}
  /\ stalls = {}

LEMMA ActiveStep ==
  ASSUME Quiet, IInv, ActiveJobs, [Next]_vars
  PROVE  ActiveJobs'
<1>. USE DEF dashVars, procVars, IInv, TypeOK, JobsTaken, ActiveJobs, Goto
<1>1. ASSUME UNCHANGED <<state, pc, resume, stalls>> PROVE ActiveJobs'
  BY <1>1
<1>2. ASSUME NEW j \in JobIds, Processor(j) PROVE ActiveJobs'
  <2>1. ASSUME NEW phase, phase \notin {"off", "dead"}, Goto(j, phase), pc[j] # "off",
               UNCHANGED <<state, resume, stalls>>
        PROVE  ActiveJobs'
    BY <2>1
  <2>2. CASE TakeJob(j)
    BY <2>2 DEF TakeJob, FirstLock
  <2>3. CASE LockGlobal(j) \/ LockLab(j)
    BY <2>3 DEF LockGlobal, LockLab, Bounce
  <2>4. CASE ClaimWork(j) \/ SkipCustomization(j) \/ RecordNext(j) \/ FailWork(j) \/ RecordFailure(j)
    BY <2>1, <2>4 DEF ClaimWork, SkipCustomization, RecordNext, FailWork, RecordFailure
  <2>5. CASE BeginApply(j) \/ RetryApply(j) \/ EndApply(j) \/ BeginDestroy(j) \/ EndDestroy(j)
    BY <2>1, <2>5 DEF BeginApply, RetryApply, EndApply, BeginDestroy, EndDestroy, At
  <2>6. CASE RemoveRow(j) \/ RequestPower(j) \/ VerifyStop(j) \/ FinishWork(j) \/ GiveUpStop(j)
    BY <2>1, <2>6 DEF RemoveRow, RequestPower, VerifyStop, FinishWork, GiveUpStop, At
  <2>7. ASSUME NEW c \in JobIds, DelayStop(j, c) \/ QueueCustomization(j, c) PROVE ActiveJobs'
    BY <2>7 DEF DelayStop, QueueCustomization, QueueNext, At
  <2>8. CASE ReleaseLocks(j)
    BY <2>1, <2>8 DEF ReleaseLocks
  <2>9. CASE SettleJob(j)
    BY <2>9 DEF SettleJob
  <2>. QED
    BY <1>2, <2>2, <2>3, <2>4, <2>5, <2>6, <2>7, <2>8, <2>9 DEF Processor
<1>3. ASSUME NEW j \in JobIds, Faulty(j) PROVE ActiveJobs'
  BY <1>3 DEF Quiet, Faulty, LoseRequest, LoseResume, KillProcessor, FailLock, LoseSession, NoticeLoss,
              StallJob, HandleStall, Fault
<1>4. ASSUME NEW l \in Labs, Recovering(l) PROVE ActiveJobs'
  BY <1>1, <1>4 DEF Recovering, ReadRecovery, LockRecovery, CheckRecovery, WriteRecovery
<1>5. CASE Dashboard
  <2>1. ASSUME NEW j \in JobIds, NEW l \in Labs, NEW action \in Actions, CheckRequest(j, l, action)
        PROVE  ActiveJobs'
    BY <2>1 DEF CheckRequest
  <2>2. ASSUME NEW j \in JobIds, ClaimRequest(j) \/ EnqueueRequest(j) \/ ForgetJob(j)
        PROVE  ActiveJobs'
    BY <2>2 DEF ClaimRequest, EnqueueRequest, ForgetJob
  <2>3. ASSUME NEW j \in JobIds, CheckResume(j) \/ ClaimResume(j) PROVE ActiveJobs'
    BY <2>3 DEF CheckResume, ClaimResume
  <2>4. ASSUME NEW j \in JobIds, RetryResume(j) PROVE ActiveJobs'
    BY <2>4 DEF RetryResume
  <2>5. ASSUME NEW q \in Queues, SweepQueue(q) PROVE ActiveJobs'
    BY <2>5 DEF SweepQueue
  <2>. QED
    BY <1>1, <1>5, <2>1, <2>2, <2>3, <2>4, <2>5 DEF Dashboard, CheckDelete, DeleteRow, ReadRefresh,
       WriteRefresh, StartCancel, ResetRows, EndCancel
<1>6. ASSUME NEW q \in Queues, HandleAbort(q) PROVE ActiveJobs'
  BY <1>1, <1>6 DEF HandleAbort
<1>. QED
  BY <1>1, <1>2, <1>3, <1>4, <1>5, <1>6 DEF Next, vars

---------------------------------------------------------------------------
(* What holds as long as sessions and workers live *)

QuietInv == Steady /\ RunsBegun /\ ActiveJobs

LEMMA QuietInvariance == ASSUME Quiet PROVE Spec => []QuietInv
<1>1. Init => QuietInv
  BY DEF Init, QuietInv, Steady, RunsBegun, ActiveJobs, Begun, Engaged, Leased, Working
<1>2. IInv /\ QuietInv /\ [Next]_vars => QuietInv'
  <2>1. "session" \notin FaultKinds
    BY DEF Quiet
  <2>. QED
    BY <2>1, SteadyStep, RunsStep, ActiveStep DEF QuietInv
<1>. QED
  BY <1>1, <1>2, Invariance, PTL DEF Spec

\* A processor past the lock of its lab writes its row alone.
LEMMA WrittenByHolder ==
  ASSUME IInv, QuietInv, NEW i \in JobIds, pc[i] \in Leased, NEW j \in JobIds,
         NEW l \in Labs, l = job[i].lab, Written(j, l)
  PROVE  j = i /\ Processor(i)
BY SteadyAlone DEF Written, HandleStall, QuietInv, ActiveJobs

---------------------------------------------------------------------------
(* A follow-up waits for its record *)

LEMMA FollowUpStep ==
  ASSUME IInv, QuietInv, FollowUpWaits, [Next]_vars
  PROVE  FollowUpWaits'
<1>. SUFFICES ASSUME NEW i \in JobIds, pc'[i] = "handoff", row'[job'[i].lab] # None
              PROVE  row'[job'[i].lab].job # job'[i].next
  BY DEF FollowUpWaits
<1>. DEFINE l == job[i].lab
<1>0. row \in [Labs -> Row \cup {None}]
  BY DEF IInv, TypeOK
<1>1. ASSUME NEW c \in JobIds, HandsOver(i, c)
      PROVE  row'[job'[i].lab].job # job'[i].next
  <2>1. c \notin Begun /\ job'[i].lab = l /\ job'[i].next = c /\ UNCHANGED row /\ c # None
    BY <1>1, ConstantsAssumption DEF HandsOver, Begun
  <2>2. l \in Labs
    BY <1>1 DEF HandsOver, IInv, JobsTaken
  <2>. QED
    BY <2>1, <2>2 DEF QuietInv, RunsBegun
<1>2. CASE \A c \in JobIds : ~HandsOver(i, c)
  <2>1. /\ pc[i] = "handoff" /\ job'[i].lab = l /\ job'[i].next = job[i].next
        /\ l \in Labs /\ job[i].next \in Begun /\ row'[l] # None
    <3>1. state[i] # "unused" /\ pc[i] = "handoff" => job[i].next \in Begun /\ l \in Labs
      BY DEF QuietInv, RunsBegun, IInv, JobsTaken
    <3>2. pc[i] # "off" => state[i] # "unused"
      BY DEF IInv, JobsTaken
    <3>3. pc[i] = "handoff" /\ job'[i].lab = l /\ job'[i].next = job[i].next
      <4>1. CASE Proceeds(i)
        BY <4>1 DEF Proceeds, SameJob
      <4>2. ASSUME NEW j \in JobIds, Requests(j) PROVE Proceeds(i)
        BY <3>2, <4>2 DEF Requests
      <4>3. ASSUME NEW j \in JobIds, NEW c \in JobIds, HandsOver(j, c) PROVE Proceeds(i)
        BY <1>2, <3>2, <4>3 DEF HandsOver
      <4>. QED
        BY <4>1, <4>2, <4>3, JobChanges
    <3>. QED
      BY <3>1, <3>2, <3>3
  <2>2. CASE row'[l] = row[l]
    BY <2>1, <2>2 DEF FollowUpWaits
  <2>3. CASE row'[l] # row[l]
    <3>1. ASSUME NEW j \in JobIds, Claimed(j, l) PROVE row'[l].job # job[i].next
      BY <2>1, <3>1 DEF Claimed, Begun
    <3>2. ASSUME NEW j \in JobIds, Written(j, l) PROVE FALSE
      <4>1. Processor(i)
        BY <2>1, <3>2, WrittenByHolder DEF Leased, Working
      <4>2. pc'[i] # "handoff"
        BY <2>1, <4>1 DEF Processor, TakeJob, LockGlobal, LockLab, ClaimWork, SkipCustomization, BeginApply,
           RetryApply, EndApply, BeginDestroy, EndDestroy, RemoveRow, RequestPower, VerifyStop, FinishWork,
           GiveUpStop, DelayStop, QueueCustomization, RecordNext, FailWork, RecordFailure,
           ReleaseLocks, SettleJob, At, Goto, IInv, TypeOK
      <4>. QED
        BY <4>2
    <3>3. CASE Edited(l)
      BY <2>1, <3>3 DEF Edited, FollowUpWaits
    <3>. QED
      BY <2>1, <2>3, <3>1, <3>2, <3>3, RowChanges DEF Changed
  <2>. QED
    BY <2>1, <2>2, <2>3
<1>. QED
  BY <1>1, <1>2

\* As long as no worker dies or is taken for dead and no session is lost,
\* whatever is cancelled, refreshed, resumed or not written: a stop that looks
\* again and a customization do nothing to the row before the job that queued
\* them has recorded them, so that the record never undoes their work.
THEOREM FollowUpsWait == ASSUME Quiet PROVE Spec => []FollowUpWaits
<1>1. Init => FollowUpWaits
  BY DEF Init, FollowUpWaits
<1>2. IInv /\ QuietInv /\ FollowUpWaits /\ [Next]_vars => FollowUpWaits'
  BY FollowUpStep
<1>. QED
  BY <1>1, <1>2, Invariance, QuietInvariance, PTL DEF Spec

---------------------------------------------------------------------------
(* The row shows the work *)

\* A job whose id is taken keeps its lab, its kind and its run, a stop its count.
LEMMA SameWork ==
  ASSUME IInv, [Next]_vars, NEW i \in JobIds, state[i] # "unused"
  PROVE  /\ job'[i].lab = job[i].lab /\ job'[i].kind = job[i].kind /\ job'[i].run = job[i].run
         /\ job[i].kind = "stop" => job'[i].tries = job[i].tries
<1>1. ASSUME NEW j \in JobIds, Requests(j) PROVE Proceeds(i)
  BY <1>1 DEF Requests
<1>2. ASSUME NEW j \in JobIds, NEW c \in JobIds, HandsOver(j, c), i # j PROVE Proceeds(i)
  BY <1>2 DEF HandsOver
<1>. QED
  BY <1>1, <1>2, JobChanges DEF HandsOver, Proceeds, SameJob

\* The row of the run shows job j, which is at work.
Shows(j) ==
  LET r == row[job[j].lab] IN
  r.status = InProgress(job[j].kind) /\ r.action = job[j].kind /\ r.job = j

\* Who works is shown, as long as its run owns the row, or was cancelled.
WorkShown ==
  /\ \A l \in Labs : refresh[l] # None => "refresh" \in Operations
  /\ cancel # "idle" => "cancel" \in Operations
  /\ \A j \in JobIds :
       pc[j] \in Working /\ OwnsRow(j) =>
         Shows(j) \/ ("cancel" \in Operations /\ row[job[j].lab].action = "cancelled")

\* A processor is at work once it has claimed the row, and writes nothing more
\* to it while it goes on.
LEMMA WorkSteps ==
  ASSUME IInv, NEW j \in JobIds, Processor(j), pc'[j] \in Working
  PROVE  \/ pc[j] = "claim" /\ OwnsRow(j) /\ SetRow(j, InProgress(job[j].kind), j)
         \/ pc[j] \in Working /\ UNCHANGED row
<1>. USE DEF Goto, IInv, TypeOK, Working
<1>1. CASE TakeJob(j) \/ LockGlobal(j) \/ LockLab(j) \/ ReleaseLocks(j) \/ SettleJob(j)
  BY <1>1 DEF TakeJob, FirstLock, LockGlobal, LockLab, Bounce, ReleaseLocks, SettleJob
<1>2. CASE ClaimWork(j)
  BY <1>2 DEF ClaimWork
<1>3. CASE SkipCustomization(j) \/ RemoveRow(j) \/ FinishWork(j) \/ GiveUpStop(j) \/ RecordNext(j)
           \/ FailWork(j) \/ RecordFailure(j)
  BY <1>3 DEF SkipCustomization, RemoveRow, FinishWork, GiveUpStop, RecordNext, FailWork, RecordFailure
<1>4. CASE BeginApply(j) \/ RetryApply(j) \/ EndApply(j) \/ BeginDestroy(j) \/ EndDestroy(j)
           \/ RequestPower(j) \/ VerifyStop(j)
  BY <1>4 DEF BeginApply, RetryApply, EndApply, BeginDestroy, EndDestroy, RequestPower, VerifyStop, At
<1>5. ASSUME NEW c \in JobIds, DelayStop(j, c) \/ QueueCustomization(j, c)
      PROVE  pc[j] \in Working /\ UNCHANGED row
  BY <1>5 DEF DelayStop, QueueCustomization, QueueNext, At
<1>. QED
  BY <1>1, <1>2, <1>3, <1>4, <1>5 DEF Processor

\* Only a fault moves a processor that does not move itself.
LEMMA PhaseStep ==
  ASSUME IInv, [Next]_vars, NEW i \in JobIds, ~Processor(i), pc'[i] # pc[i]
  PROVE  Faulty(i) /\ pc'[i] \in {"off", "dead", "catch"}
<1>. USE DEF procVars, dashVars, Goto, IInv, TypeOK
<1>1. ASSUME NEW j \in JobIds, Processor(j) PROVE pc'[i] = pc[i]
  BY <1>1, ProcessorMoves DEF OnlyMoves
<1>2. ASSUME NEW j \in JobIds, Faulty(j) PROVE pc'[i] = pc[i] \/ (j = i /\ pc'[i] \in {"off", "dead", "catch"})
  BY <1>2 DEF Faulty, LoseRequest, LoseResume, KillProcessor, FailLock, LoseSession, NoticeLoss,
              StallJob, HandleStall
<1>3. \/ \E j \in JobIds : Processor(j) \/ Faulty(j)
      \/ UNCHANGED pc
  BY DEF Next, vars, Dashboard, CheckRequest, ClaimRequest, EnqueueRequest, ForgetJob,
     CheckResume, ClaimResume, RetryResume, CheckDelete, DeleteRow, ReadRefresh, WriteRefresh,
     StartCancel, SweepQueue, ResetRows, EndCancel, Recovering, ReadRecovery, LockRecovery,
     CheckRecovery, WriteRecovery, HandleAbort
<1>. QED
  BY <1>1, <1>2, <1>3

\* Refresh and cancel-all are under way only if the dashboard offers them.
LEMMA RequestedStep ==
  ASSUME IInv, WorkShown, [Next]_vars
  PROVE  /\ \A l \in Labs : refresh'[l] # None => "refresh" \in Operations
         /\ cancel' # "idle" => "cancel" \in Operations
<1>. USE DEF WorkShown, procVars, dashVars, IInv, TypeOK
<1>1. ASSUME UNCHANGED <<refresh, cancel>>
      PROVE  /\ \A l \in Labs : refresh'[l] # None => "refresh" \in Operations
             /\ cancel' # "idle" => "cancel" \in Operations
  BY <1>1
<1>2. ASSUME NEW j \in JobIds, Processor(j) \/ Faulty(j) PROVE UNCHANGED <<refresh, cancel>>
  BY <1>2 DEF Processor, TakeJob, LockGlobal, LockLab, ClaimWork, SkipCustomization, BeginApply,
     RetryApply, EndApply, BeginDestroy, EndDestroy, RemoveRow, RequestPower, VerifyStop, FinishWork,
     GiveUpStop, DelayStop, QueueCustomization, QueueNext, RecordNext, FailWork, RecordFailure,
     ReleaseLocks, SettleJob, Faulty, LoseRequest, LoseResume, KillProcessor, FailLock, LoseSession,
     NoticeLoss, StallJob, HandleStall
<1>3. ASSUME NEW l \in Labs, Recovering(l) PROVE UNCHANGED <<refresh, cancel>>
  BY <1>3 DEF Recovering, ReadRecovery, LockRecovery, CheckRecovery, WriteRecovery
<1>4. ASSUME NEW l \in Labs, CheckDelete(l) \/ DeleteRow(l) \/ ReadRefresh(l) \/ WriteRefresh(l)
      PROVE  /\ \A m \in Labs : refresh'[m] # None => "refresh" \in Operations
             /\ cancel' # "idle" => "cancel" \in Operations
  BY <1>4 DEF CheckDelete, DeleteRow, ReadRefresh, WriteRefresh
<1>5. ASSUME NEW q \in Queues, SweepQueue(q) \/ HandleAbort(q)
      PROVE  /\ \A m \in Labs : refresh'[m] # None => "refresh" \in Operations
             /\ cancel' # "idle" => "cancel" \in Operations
  BY <1>5 DEF SweepQueue, HandleAbort
<1>6. CASE Dashboard
  BY <1>1, <1>4, <1>5, <1>6 DEF Dashboard, CheckRequest, ClaimRequest, EnqueueRequest, ForgetJob,
     CheckResume, ClaimResume, RetryResume, StartCancel, ResetRows, EndCancel
<1>. QED
  BY <1>1, <1>2, <1>3, <1>4, <1>5, <1>6 DEF Next, vars

\* What the dashboard and a recovery change in place is not the row of work
\* that is shown.
LEMMA ShownEdited ==
  ASSUME "cancel" \notin Operations \/ "refresh" \notin Operations,
         IInv, QuietInv, WorkShown, NEW i \in JobIds, pc[i] \in Working, Edited(job[i].lab),
         OwnsRow(i)
  PROVE  "cancel" \in Operations /\ row'[job[i].lab].action = "cancelled"
<1>. DEFINE l == job[i].lab
<1>0. l \in Labs /\ row[l] # None /\ state[i] = "active" /\ Holds(i)
  BY DEF IInv, JobsTaken, Working, Leased, OwnsRow, QuietInv, ActiveJobs, Steady, Holds
<1>1. InProgress(job[i].kind) \in Busy /\ Busy \cap Resting = {}
  BY StatusTypes DEF IInv, TypeOK, Job, Busy, Resting
<1>2. Shows(i) \/ ("cancel" \in Operations /\ row[l].action = "cancelled")
  BY DEF WorkShown
<1>3. ASSUME NEW j \in JobIds, Resumed(j, l) PROVE FALSE
  <2>1. row[l].action = "customize" /\ row[l].job = j
    BY <1>3 DEF Resumed, Resumable
  <2>2. Shows(i) /\ j = i
    BY <1>2, <2>1 DEF Shows
  <2>3. CASE row[l].status = "failed"
    BY <1>1, <2>2, <2>3 DEF Shows, Busy
  <2>4. CASE RetryResume(j)
    BY <1>0, <2>2, <2>4 DEF RetryResume, QuietInv, ActiveJobs
  <2>. QED
    BY <1>3, <2>3, <2>4 DEF Resumed, Resumable
<1>4. ASSUME WriteRefresh(l), row[l].status = refresh[l].status PROVE FALSE
  <2>1. "cancel" \notin Operations /\ refresh[l].status \in Resting
    BY <1>0, <1>4 DEF WriteRefresh, WorkShown, IInv, TypeOK
  <2>. QED
    BY <1>1, <1>2, <1>4, <2>1 DEF Shows
<1>5. ASSUME ResetRows PROVE "cancel" \in Operations
  BY <1>5 DEF ResetRows, WorkShown
<1>6. ASSUME WriteRecovery(l) PROVE FALSE
  <2>1. owner[l] = Recovery /\ owner[l] = i
    BY <1>0, <1>6 DEF WriteRecovery, IInv, LocksHeld
  <2>. QED
    BY <2>1, ConstantsAssumption
<1>. QED
  BY <1>3, <1>4, <1>5, <1>6 DEF Edited

LEMMA WorkShownStep ==
  ASSUME "cancel" \notin Operations \/ "refresh" \notin Operations,
         Quiet, IInv, QuietInv, WorkShown, [Next]_vars
  PROVE  WorkShown'
<1>1. SUFFICES ASSUME NEW i \in JobIds, pc'[i] \in Working, OwnsRow(i)'
               PROVE  \/ Shows(i)'
                      \/ "cancel" \in Operations /\ row'[job'[i].lab].action = "cancelled"
  BY RequestedStep DEF WorkShown
<1>. DEFINE l == job[i].lab
<1>0. row \in [Labs -> Row \cup {None}] /\ pc[i] # "off" /\ state[i] # "unused" /\ l \in Labs
  <2>1. pc[i] # "off"
    <3>1. CASE Processor(i)
      BY <1>1, <3>1, WorkSteps DEF Working
    <3>2. CASE ~Processor(i)
      BY <1>1, <3>2, PhaseStep DEF Working
    <3>. QED
      BY <3>1, <3>2
  <2>. QED
    BY <2>1 DEF IInv, TypeOK, JobsTaken
<1>2. job'[i].lab = l /\ job'[i].kind = job[i].kind /\ job'[i].run = job[i].run
  BY <1>0, SameWork
<1>3. CASE Processor(i) /\ OwnsRow(i) /\ SetRow(i, InProgress(job[i].kind), i)
  <2>. DEFINE new == [status |-> InProgress(job[i].kind), action |-> job[i].kind, job |-> i, run |-> job[i].run]
  <2>1. row' = [row EXCEPT ![l] = new]
    BY <1>3 DEF SetRow
  <2>2. new.status = InProgress(job[i].kind) /\ new.action = job[i].kind /\ new.job = i
    OBVIOUS
  <2>. HIDE DEF new
  <2>3. row'[l] = new
    BY <1>0, <2>1
  <2>4. InProgress(job[i].kind)' = InProgress(job[i].kind)
    BY <1>2 DEF InProgress, InitialStatus
  <2>. QED
    BY <1>2, <2>2, <2>3, <2>4 DEF Shows
<1>4. CASE pc[i] \in Working /\ (Processor(i) => UNCHANGED row)
  <2>1. row[l] # None => OwnsRow(i) \/ row'[l].run # row[l].run
    BY <1>1, <1>2 DEF OwnsRow
  <2>2. InProgress(job[i].kind)' = InProgress(job[i].kind)
    BY <1>2 DEF InProgress, InitialStatus
  <2>3. CASE row'[l] = row[l]
    <3>1. OwnsRow(i)
      BY <1>1, <1>2, <2>3 DEF OwnsRow
    <3>. QED
      BY <1>2, <1>4, <2>2, <2>3, <3>1 DEF WorkShown, Shows
  <2>4. CASE row'[l] # row[l]
    <3>1. row'[l] # None /\ row'[l].run = job[i].run
      BY <1>1, <1>2 DEF OwnsRow
    <3>2. ASSUME NEW j \in JobIds, Claimed(j, l) PROVE FALSE
      <4>1. job[i].run \in Begun
        BY <1>0 DEF QuietInv, RunsBegun, Engaged
      <4>2. job[i].run = j
        BY <3>1, <3>2 DEF Claimed
      <4>. QED
        BY <3>2, <4>1, <4>2 DEF Claimed, Begun
    <3>3. ASSUME NEW j \in JobIds, Written(j, l) PROVE FALSE
      BY <1>0, <1>4, <2>4, <3>3, WrittenByHolder DEF Leased
    <3>4. CASE Edited(l)
      <4>1. OwnsRow(i)
        BY <3>1, <3>4 DEF Edited, OwnsRow
      <4>. QED
        BY <1>2, <1>4, <3>4, <4>1, ShownEdited
    <3>. QED
      BY <1>0, <2>4, <3>1, <3>2, <3>3, <3>4, RowChanges DEF Changed
  <2>. QED
    BY <2>3, <2>4
<1>5. CASE ~Processor(i)
  BY <1>1, <1>4, <1>5, PhaseStep DEF Working
<1>. QED
  BY <1>1, <1>3, <1>4, <1>5, WorkSteps

\* As long as no worker dies or is taken for dead and no session is lost: while
\* a job works, the row of its run shows the operation, so that no request can
\* claim the lab beside it.  Cancel-all may hide it, but nothing takes the row
\* on from there while cancel-all and refresh are not both in use.
THEOREM WorkStaysShown ==
  ASSUME Quiet, "cancel" \notin Operations \/ "refresh" \notin Operations
  PROVE  Spec => []WorkIsShown
<1>1. Init => WorkShown
  BY DEF Init, WorkShown, Working
<1>2. IInv /\ QuietInv /\ WorkShown /\ [Next]_vars => WorkShown'
  BY WorkShownStep
<1>3. WorkShown => WorkIsShown
  BY DEF WorkShown, WorkIsShown, Shows, OwnsRow
<1>. QED
  BY <1>1, <1>2, <1>3, Invariance, QuietInvariance, PTL DEF Spec

---------------------------------------------------------------------------
(* Something stands behind a busy row *)

\* Nothing fails but the work itself, and nothing is cancelled.
Calm == FaultKinds = {} /\ "cancel" \notin Operations

\* The processor still has to answer for the row.
Busily == {"global", "lab", "claim", "catch"} \cup Working

\* The job that the row names, of the run that owns it, is on its way, or a
\* resume request has just claimed the row for it, or it is a stop that gave up.
Stands(l) ==
  LET b == row[l].job IN
  /\ b \in JobIds /\ job[b].lab = l /\ job[b].run = row[l].run
  /\ \/ state[b] \in {"claimed", "pending"}
     \/ pc[b] \in Busily
     \/ resume[b] = "claimed" /\ row[l].status = "customizing" /\ row[l].action = "customize"
     \/ job[b].kind = "stop" /\ row[l].status = "stopping" /\ job[b].tries = MaxStopRetries

\* The jobs that wait for their turn or for a lock.
Waiting == {c \in JobIds : state[c] = "pending" \/ pc[c] \in {"global", "lab"}}

BusyStands ==
  /\ \A l \in Labs : row[l] # None /\ row[l].status \in Busy => Stands(l)
  /\ \A j \in JobIds : pc[j] = "handoff" => job[j].next \in Waiting

CalmInv == QuietInv /\ WorkShown

\* Nothing notices a fault then.
LEMMA CalmFaults ==
  ASSUME Calm, IInv, QuietInv, NEW j \in JobIds, Faulty(j)
  PROVE  UNCHANGED <<row, job, state, pc, resume>>
BY DEF Calm, QuietInv, ActiveJobs, Faulty, LoseRequest, LoseResume, KillProcessor, FailLock, LoseSession,
       NoticeLoss, StallJob, HandleStall, Fault, dashVars, procVars

\* Who changes the state of a job.
LEMMA StateStep ==
  ASSUME Calm, IInv, CalmInv, [Next]_vars, NEW c \in JobIds, state[c] \in {"claimed", "pending"}
  PROVE  \/ state'[c] = state[c] /\ pc'[c] = pc[c]
         \/ state[c] = "claimed" /\ state'[c] = "pending"
         \/ TakeJob(c)
<1>. USE DEF procVars, dashVars, Goto, IInv, TypeOK
<1>0. pc[c] = "off" /\ cancel = "idle" /\ resume[c] = "no"
  BY DEF CalmInv, QuietInv, ActiveJobs, WorkShown, Calm
<1>1. ASSUME NEW j \in JobIds, Processor(j), j # c PROVE state'[c] = state[c] /\ pc'[c] = pc[c]
  <2>1. pc'[c] = pc[c]
    BY <1>1, ProcessorMoves DEF OnlyMoves
  <2>2. state'[c] = state[c]
    BY <1>1 DEF Processor, TakeJob, LockGlobal, LockLab, Bounce, ClaimWork, SkipCustomization, BeginApply,
     RetryApply, EndApply, BeginDestroy, EndDestroy, RemoveRow, RequestPower, VerifyStop, FinishWork,
     GiveUpStop, DelayStop, QueueCustomization, QueueNext, RecordNext, FailWork, RecordFailure,
     ReleaseLocks, SettleJob
  <2>. QED
    BY <2>1, <2>2
<1>2. CASE Processor(c)
  BY <1>0, <1>2 DEF Processor, LockGlobal, LockLab, ClaimWork, SkipCustomization, BeginApply,
     RetryApply, EndApply, BeginDestroy, EndDestroy, RemoveRow, RequestPower, VerifyStop, FinishWork,
     GiveUpStop, DelayStop, QueueCustomization, RecordNext, FailWork, RecordFailure,
     ReleaseLocks, SettleJob, At
<1>3. ASSUME NEW j \in JobIds, Faulty(j) PROVE state'[c] = state[c] /\ pc'[c] = pc[c]
  BY <1>3, CalmFaults DEF CalmInv
<1>4. ASSUME NEW l \in Labs, Recovering(l) PROVE UNCHANGED <<state, pc>>
  BY <1>4 DEF Recovering, ReadRecovery, LockRecovery, CheckRecovery, WriteRecovery
<1>5. ASSUME NEW j \in JobIds, NEW l \in Labs, NEW action \in Actions, CheckRequest(j, l, action)
      PROVE  state'[c] = state[c] /\ pc'[c] = pc[c]
  BY <1>5 DEF CheckRequest
<1>6. ASSUME NEW j \in JobIds,
             \/ ClaimRequest(j) \/ EnqueueRequest(j) \/ ForgetJob(j)
             \/ CheckResume(j) \/ ClaimResume(j) \/ RetryResume(j)
      PROVE  \/ state'[c] = state[c] /\ pc'[c] = pc[c]
             \/ state[c] = "claimed" /\ state'[c] = "pending"
  BY <1>0, <1>6 DEF ClaimRequest, EnqueueRequest, ForgetJob, CheckResume, ClaimResume, RetryResume
<1>7. ASSUME NEW q \in Queues, SweepQueue(q) \/ HandleAbort(q) PROVE UNCHANGED <<state, pc>>
  BY <1>0, <1>7 DEF SweepQueue, HandleAbort
<1>8. CASE Dashboard
  BY <1>5, <1>6, <1>7, <1>8 DEF Dashboard, CheckDelete, DeleteRow, ReadRefresh, WriteRefresh, StartCancel,
     ResetRows, EndCancel
<1>. QED
  BY <1>1, <1>2, <1>3, <1>4, <1>7, <1>8 DEF Next, vars

\* A job waits until it gets the lock of its lab.
LEMMA WaitStep ==
  ASSUME Calm, IInv, CalmInv, [Next]_vars, NEW c \in Waiting
  PROVE  c \in Waiting' \/ (LockLab(c) /\ owner[job[c].lab] = None)
<1>. USE DEF Goto, IInv, TypeOK
<1>0. c \in JobIds
  BY DEF Waiting
<1>1. CASE state[c] = "pending"
  BY <1>0, <1>1, StateStep DEF Waiting, TakeJob, FirstLock
<1>2. CASE pc[c] \in {"global", "lab"}
  <2>1. CASE Processor(c)
    <3>1. CASE LockGlobal(c) \/ LockLab(c)
      <4>1. state[c] = "active"
        BY <1>0, <1>2 DEF CalmInv, QuietInv, ActiveJobs
      <4>. QED
        BY <1>0, <3>1, <4>1 DEF LockGlobal, LockLab, TryLock, Bounce, Waiting
    <3>. QED
      BY <1>0, <1>2, <2>1, <3>1 DEF Processor, TakeJob, ClaimWork, SkipCustomization, BeginApply,
         RetryApply, EndApply, BeginDestroy, EndDestroy, RemoveRow, RequestPower, VerifyStop, FinishWork,
         GiveUpStop, DelayStop, QueueCustomization, RecordNext, FailWork, RecordFailure,
         ReleaseLocks, SettleJob, At, CalmInv, QuietInv, ActiveJobs
  <2>2. CASE ~Processor(c)
    <3>1. pc'[c] = pc[c]
      BY <1>0, <2>2, PhaseStep, CalmFaults DEF CalmInv
    <3>. QED
      BY <1>0, <1>2, <3>1 DEF Waiting
  <2>. QED
    BY <2>1, <2>2
<1>. QED
  BY <1>1, <1>2 DEF Waiting

\* It does not get it before the job that queued it has recorded it.
LEMMA HandoverWaits ==
  ASSUME Calm, IInv, CalmInv, BusyStands, [Next]_vars, NEW i \in JobIds, pc'[i] = "handoff"
  PROVE  job'[i].next \in Waiting'
<1>1. ASSUME NEW c \in JobIds, HandsOver(i, c) PROVE job'[i].next = c /\ state'[c] = "pending"
  BY <1>1 DEF HandsOver
<1>2. CASE \A c \in JobIds : ~HandsOver(i, c)
  <2>1. Proceeds(i) \/ state[i] = "unused"
    BY <1>2, JobChanges DEF Requests, HandsOver
  <2>2. pc'[i] = pc[i] \/ state[i] # "unused"
    <3>1. Processor(i) => state[i] # "unused"
      BY DEF Processor, TakeJob, LockGlobal, LockLab, ClaimWork, SkipCustomization, BeginApply,
         RetryApply, EndApply, BeginDestroy, EndDestroy, RemoveRow, RequestPower, VerifyStop, FinishWork,
         GiveUpStop, DelayStop, QueueCustomization, RecordNext, FailWork, RecordFailure,
         ReleaseLocks, SettleJob, At, IInv, JobsTaken
    <3>. QED
      BY <3>1, PhaseStep
  <2>3. pc[i] = "handoff" /\ job'[i].next = job[i].next
    BY <2>1, <2>2 DEF Proceeds, SameJob, IInv, JobsTaken
  <2>. PICK c \in JobIds : c = job[i].next
    BY <2>3 DEF IInv, JobsTaken
  <2>4. c \in Waiting /\ job[c].lab = job[i].lab /\ owner[job[i].lab] = i
    <3>1. Holds(i)
      BY <2>3 DEF CalmInv, QuietInv, Steady, Holds, Leased, Working
    <3>. QED
      BY <2>3, <3>1 DEF IInv, JobsTaken, LocksHeld, BusyStands, CalmInv, QuietInv, RunsBegun
  <2>5. c \in Waiting'
    BY <2>4, WaitStep, ConstantsAssumption
  <2>. QED
    BY <2>3, <2>5 DEF Waiting
<1>. QED
  BY <1>1, <1>2 DEF Waiting

\* What becomes of the row of a job whose processor takes a step: it is removed
\* or at rest, or somebody answers for it.
LEMMA WriterStands ==
  ASSUME Calm, IInv, CalmInv, NEW j \in JobIds, Processor(j), OwnsRow(j),
         pc[j] \in Busily \/ state[j] = "pending",
         NEW l \in Labs, l = job[j].lab, row'[l] # None, row'[l].status \in Busy
  PROVE  \/ row'[l] = row[l] /\ (pc'[j] \in Busily \/ state'[j] = "pending")
         \/ row'[l].job = j /\ pc'[j] \in Busily
         \/ /\ row'[l].job = j /\ job[j].kind = "stop" /\ row'[l].status = "stopping"
            /\ job[j].tries = MaxStopRetries
         \/ row'[l].job = job[j].next /\ pc[j] = "handoff"
<1>. USE DEF Goto, Working, Busily
<1>0. /\ row \in [Labs -> Row \cup {None}] /\ pc \in [JobIds -> Phase] /\ state \in [JobIds -> JobState]
      /\ \A kind \in FaultKinds : FALSE
      /\ pc[j] \in Busily => state[j] = "active"
      /\ state[j] = "pending" => pc[j] = "off"
  BY DEF IInv, TypeOK, Calm, CalmInv, QuietInv, ActiveJobs
<1>1. ASSUME NEW status, NEW id, WriteRow(j, status, id)
      PROVE  row'[l].status = status /\ row'[l].job = id
  <2>. DEFINE new == [status |-> status, action |-> job[id].kind, job |-> id, run |-> job[j].run]
  <2>1. row' = [row EXCEPT ![l] = new]
    BY <1>0, <1>1 DEF WriteRow, SetRow, Fault
  <2>2. new.status = status /\ new.job = id
    OBVIOUS
  <2>. HIDE DEF new
  <2>. QED
    BY <1>0, <2>1, <2>2
<1>2. CASE TakeJob(j)
  BY <1>0, <1>2 DEF TakeJob, FirstLock
<1>3. CASE LockGlobal(j) \/ LockLab(j)
  BY <1>0, <1>3 DEF LockGlobal, LockLab, Bounce
<1>4. CASE ClaimWork(j)
  <2>1. WriteRow(j, InProgress(job[j].kind), j) /\ pc'[j] = "exec"
    BY <1>0, <1>4 DEF ClaimWork, WriteRow, Fault
  <2>. QED
    BY <1>1, <2>1
<1>5. CASE SkipCustomization(j) \/ FinishWork(j) \/ RecordFailure(j)
  <2>1. PICK status \in {"deployed", "running", "stopped", "failed"} : WriteRow(j, status, j)
    BY <1>5 DEF SkipCustomization, FinishWork, RecordFailure
  <2>. QED
    BY <1>1, <2>1 DEF Busy
<1>6. CASE BeginApply(j) \/ RetryApply(j) \/ EndApply(j) \/ BeginDestroy(j) \/ EndDestroy(j)
           \/ RequestPower(j) \/ FailWork(j)
  BY <1>0, <1>6 DEF BeginApply, RetryApply, EndApply, BeginDestroy, EndDestroy, RequestPower, FailWork
<1>7. CASE RemoveRow(j) \/ VerifyStop(j)
  <2>1. Shows(j)
    BY <1>7 DEF RemoveRow, VerifyStop, At, CalmInv, WorkShown, Calm
  <2>2. CASE RemoveRow(j)
    <3>1. job[j].kind = "destroy" /\ row[l].status = "destroying" /\ row[l].action = "destroy"
      BY <2>1, <2>2 DEF RemoveRow, At, Shows, InProgress, InitialStatus
    <3>2. row' = [row EXCEPT ![l] = None]
      BY <2>2, <3>1 DEF RemoveRow
    <3>. QED
      BY <1>0, <3>2
  <2>3. CASE VerifyStop(j)
    <3>1. row[l].status = "stopping"
      BY <2>1, <2>3 DEF VerifyStop, At, Shows, InProgress, InitialStatus
    <3>. QED
      BY <1>0, <2>3, <3>1 DEF VerifyStop
  <2>. QED
    BY <1>7, <2>2, <2>3
<1>8. CASE GiveUpStop(j)
  BY <1>1, <1>8 DEF GiveUpStop, At
<1>9. CASE RecordNext(j)
  BY <1>1, <1>9 DEF RecordNext
<1>10. ASSUME NEW c \in JobIds, DelayStop(j, c) \/ QueueCustomization(j, c)
       PROVE  row'[l] = row[l] /\ pc'[j] \in Busily
  BY <1>0, <1>10 DEF DelayStop, QueueCustomization, QueueNext
<1>11. CASE ReleaseLocks(j) \/ SettleJob(j)
  BY <1>0, <1>11 DEF ReleaseLocks, SettleJob
<1>. QED
  BY <1>2, <1>3, <1>4, <1>5, <1>6, <1>7, <1>8, <1>9, <1>10, <1>11 DEF Processor

\* A processor that has nothing more to answer for writes no row.
LEMMA WriterBusy ==
  ASSUME IInv, CalmInv, NEW j \in JobIds, NEW l \in Labs, Written(j, l), row'[l] # row[l]
  PROVE  Processor(j) /\ pc[j] \in Busily
<1>1. Processor(j) /\ pc[j] \in Leased
  BY DEF Written, HandleStall, CalmInv, QuietInv, ActiveJobs
<1>2. CASE pc[j] \in {"endOk", "endFail"}
  BY <1>1, <1>2 DEF Processor, TakeJob, LockGlobal, LockLab, ClaimWork, SkipCustomization, BeginApply,
     RetryApply, EndApply, BeginDestroy, EndDestroy, RemoveRow, RequestPower, VerifyStop, FinishWork,
     GiveUpStop, DelayStop, QueueCustomization, RecordNext, FailWork, RecordFailure,
     ReleaseLocks, SettleJob, At
<1>. QED
  BY <1>1, <1>2 DEF Leased, Busily

\* A claimed resume stays claimed until it is retried.
LEMMA ResumeStep ==
  ASSUME Calm, IInv, CalmInv, [Next]_vars, NEW b \in JobIds, resume[b] = "claimed"
  PROVE  resume'[b] = "claimed" \/ RetryResume(b)
<1>. USE DEF procVars, dashVars, IInv, TypeOK
<1>1. ASSUME NEW j \in JobIds, Processor(j) PROVE UNCHANGED resume
  BY <1>1 DEF Processor, TakeJob, LockGlobal, LockLab, ClaimWork, SkipCustomization, BeginApply,
     RetryApply, EndApply, BeginDestroy, EndDestroy, RemoveRow, RequestPower, VerifyStop, FinishWork,
     GiveUpStop, DelayStop, QueueCustomization, QueueNext, RecordNext, FailWork, RecordFailure,
     ReleaseLocks, SettleJob
<1>2. ASSUME NEW j \in JobIds, Faulty(j) PROVE UNCHANGED resume
  BY <1>2, CalmFaults DEF CalmInv
<1>3. ASSUME NEW l \in Labs, Recovering(l) PROVE UNCHANGED resume
  BY <1>3 DEF Recovering, ReadRecovery, LockRecovery, CheckRecovery, WriteRecovery
<1>4. ASSUME NEW j \in JobIds, CheckResume(j) \/ ClaimResume(j) \/ RetryResume(j)
      PROVE  resume'[b] = "claimed" \/ RetryResume(b)
  BY <1>4 DEF CheckResume, ClaimResume, RetryResume
<1>5. ASSUME NEW q \in Queues, SweepQueue(q) \/ HandleAbort(q) PROVE UNCHANGED resume
  BY <1>5 DEF SweepQueue, HandleAbort
<1>6. CASE Dashboard
  BY <1>4, <1>5, <1>6 DEF Dashboard, CheckRequest, ClaimRequest, EnqueueRequest, ForgetJob,
     CheckDelete, DeleteRow, ReadRefresh, WriteRefresh, StartCancel, ResetRows, EndCancel
<1>. QED
  BY <1>1, <1>2, <1>3, <1>5, <1>6 DEF Next, vars

\* Whoever stood behind a busy row that is left as it is still does.
LEMMA SameRowStands ==
  ASSUME Calm, IInv, CalmInv, BusyStands, [Next]_vars, NEW l \in Labs, row'[l] = row[l],
         row[l] # None, row[l].status \in Busy
  PROVE  Stands(l)'
<1>1. PICK b \in JobIds : b = row[l].job
  BY DEF BusyStands, Stands
<1>2. /\ job[b].lab = l /\ job[b].run = row[l].run /\ OwnsRow(b)
      /\ \/ state[b] \in {"claimed", "pending"}
         \/ pc[b] \in Busily
         \/ resume[b] = "claimed" /\ row[l].status = "customizing" /\ row[l].action = "customize"
         \/ job[b].kind = "stop" /\ row[l].status = "stopping" /\ job[b].tries = MaxStopRetries
  BY <1>1 DEF BusyStands, Stands, OwnsRow
<1>3. state[b] # "unused"
  BY <1>1, ConstantsAssumption DEF CalmInv, QuietInv, RunsBegun, Begun
<1>4. /\ job'[b].lab = job[b].lab /\ job'[b].kind = job[b].kind /\ job'[b].run = job[b].run
      /\ job[b].kind = "stop" => job'[b].tries = job[b].tries
  BY <1>3, SameWork
<1>5. SUFFICES \/ state'[b] \in {"claimed", "pending"}
               \/ pc'[b] \in Busily
               \/ resume'[b] = "claimed" /\ row[l].status = "customizing" /\ row[l].action = "customize"
               \/ job[b].kind = "stop" /\ row[l].status = "stopping" /\ job[b].tries = MaxStopRetries
  BY <1>1, <1>2, <1>4 DEF Stands, Busily, Working
<1>6. CASE state[b] \in {"claimed", "pending"}
  BY <1>6, StateStep DEF TakeJob, FirstLock, Goto, Busily, IInv, TypeOK
<1>7. CASE pc[b] \in Busily
  <2>1. CASE Processor(b)
    <3>1. ~(row'[l].job = job[b].next /\ pc[b] = "handoff")
      BY <1>1, <1>7 DEF BusyStands, Waiting, CalmInv, QuietInv, ActiveJobs, Busily
    <3>. QED
      BY <1>1, <1>2, <1>7, <2>1, <3>1, WriterStands
  <2>2. CASE ~Processor(b)
    BY <1>7, <2>2, PhaseStep, CalmFaults DEF CalmInv
  <2>. QED
    BY <2>1, <2>2
<1>8. CASE resume[b] = "claimed" /\ row[l].status = "customizing" /\ row[l].action = "customize"
  <2>1. CASE RetryResume(b)
    <3>. DEFINE new == [row[l] EXCEPT !.status = "failed"]
    <3>1. Resumable(b, "customizing")
      BY <1>1, <1>2, <1>8 DEF Resumable
    <3>2. state[b] # "failed" => row' = [row EXCEPT ![l] = new]
      BY <1>2, <2>1, <3>1 DEF RetryResume
    <3>3. new.status = "failed"
      BY RowFields DEF IInv, TypeOK
    <3>. HIDE DEF new
    <3>4. state[b] = "failed"
      BY <1>8, <3>2, <3>3 DEF IInv, TypeOK
    <3>. QED
      BY <2>1, <3>4 DEF RetryResume, IInv, TypeOK
  <2>. QED
    BY <1>8, <2>1, ResumeStep
<1>9. CASE job[b].kind = "stop" /\ row[l].status = "stopping" /\ job[b].tries = MaxStopRetries
  BY <1>9
<1>. QED
  BY <1>2, <1>6, <1>7, <1>8, <1>9

\* Who makes a row busy stands behind it, or hands that on to a follow-up.
LEMMA NewRowStands ==
  ASSUME Calm, IInv, CalmInv, BusyStands, [Next]_vars, NEW l \in Labs, row'[l] # row[l],
         row'[l] # None, row'[l].status \in Busy
  PROVE  Stands(l)'
<1>1. ASSUME NEW b \in JobIds, state[b] # "unused", job[b].lab = l, b = row'[l].job,
             job[b].run = row'[l].run,
             \/ state'[b] \in {"claimed", "pending"}
             \/ pc'[b] \in Busily
             \/ resume'[b] = "claimed" /\ row'[l].status = "customizing" /\ row'[l].action = "customize"
             \/ job[b].kind = "stop" /\ row'[l].status = "stopping" /\ job[b].tries = MaxStopRetries
      PROVE  Stands(l)'
  BY <1>1, SameWork DEF Stands, Busily, Working
<1>2. ASSUME NEW j \in JobIds, Claimed(j, l) PROVE Stands(l)'
  BY <1>1, <1>2 DEF Claimed, CalmInv, QuietInv, RunsBegun
<1>3. ASSUME NEW j \in JobIds, Written(j, l) PROVE Stands(l)'
  <2>1. Processor(j) /\ pc[j] \in Busily
    BY <1>3, WriterBusy
  <2>2. /\ OwnsRow(j) /\ job[j].lab = l /\ row'[l].run = job[j].run /\ pc[j] \in Leased
        /\ state[j] # "unused"
    BY <1>3, <2>1 DEF Written, OwnsRow, HandleStall, CalmInv, QuietInv, ActiveJobs, IInv, JobsTaken,
                       Leased, Working
  <2>3. ASSUME row'[l].job = job[j].next, pc[j] = "handoff" PROVE Stands(l)'
    <3>1. PICK c \in JobIds : c = job[j].next
      BY <2>3 DEF IInv, JobsTaken
    <3>2. c \in Waiting /\ c \in Begun /\ job[c].lab = l /\ job[c].run = row'[l].run
      BY <2>2, <2>3, <3>1 DEF BusyStands, CalmInv, QuietInv, RunsBegun
    <3>3. owner[l] = j
      BY <2>2 DEF CalmInv, QuietInv, Steady, Holds, IInv, LocksHeld
    <3>4. c \in Waiting'
      BY <3>2, <3>3, WaitStep, ConstantsAssumption
    <3>. QED
      BY <1>1, <2>3, <3>1, <3>2, <3>4 DEF Waiting, Begun, Busily
  <2>. QED
    BY <1>1, <2>1, <2>2, <2>3, WriterStands
<1>4. CASE Edited(l)
  <2>1. row[l] # None /\ row'[l].job = row[l].job /\ row'[l].run = row[l].run /\ "failed" \notin Busy
    BY <1>4 DEF Edited, Busy
  <2>2. ASSUME NEW j \in JobIds, Resumed(j, l) PROVE Stands(l)'
    <3>1. /\ ClaimResume(j) /\ Resumable(j, "failed") /\ row'[l].status = "customizing"
          /\ job[j].lab = l /\ row'[l].action = row[l].action
      BY <2>1, <2>2 DEF Resumed
    <3>2. resume'[j] = "claimed" /\ state[j] # "unused"
      BY <3>1 DEF ClaimResume, IInv, TypeOK, JobsTaken
    <3>. QED
      BY <1>1, <2>1, <3>1, <3>2 DEF Resumable
  <2>3. ~WriteRefresh(l) \/ row'[l].status # refresh[l].to
    BY StatusTypes DEF WriteRefresh, IInv, TypeOK, Busy, Resting
  <2>. QED
    BY <1>4, <2>1, <2>2, <2>3 DEF Edited
<1>. QED
  BY <1>2, <1>3, <1>4, RowChanges DEF Changed

\* While nothing fails but the work itself and nothing is cancelled, something
\* stands behind every busy row: the request that claimed it, a job of its run
\* on its way, or a resume; only a stop whose retries are used up leaves it so.
THEOREM BusyRowsBacked == ASSUME Calm PROVE Spec => []BusyIsBacked
<1>0. Quiet /\ ("cancel" \notin Operations \/ "refresh" \notin Operations)
  BY DEF Calm, Quiet
<1>1. Init => WorkShown /\ BusyStands
  BY DEF Init, WorkShown, BusyStands, Working, Busy
<1>2. IInv /\ QuietInv /\ WorkShown /\ BusyStands /\ [Next]_vars => (WorkShown /\ BusyStands)'
  <2>. SUFFICES ASSUME IInv, QuietInv, WorkShown, BusyStands, [Next]_vars
                PROVE  (WorkShown /\ BusyStands)'
    OBVIOUS
  <2>1. \A l \in Labs : row'[l] # None /\ row'[l].status \in Busy => Stands(l)'
    BY SameRowStands, NewRowStands DEF CalmInv
  <2>2. \A j \in JobIds : pc'[j] = "handoff" => job'[j].next \in Waiting'
    BY HandoverWaits DEF CalmInv
  <2>3. WorkShown'
    BY <1>0, WorkShownStep
  <2>. QED
    BY <2>1, <2>2, <2>3 DEF BusyStands
<1>3. IInv /\ QuietInv /\ BusyStands => BusyIsBacked
  <2>. SUFFICES ASSUME IInv, QuietInv, BusyStands, NEW l \in Labs, row[l] # None, row[l].status \in Busy
                PROVE  Backed(l)
    BY DEF BusyIsBacked
  <2>1. Stands(l)
    BY DEF BusyStands
  <2>2. \A b \in JobIds : pc[b] \in Busily => pc[b] \notin {"off", "dead"}
    BY DEF Busily, Working
  <2>. QED
    BY <2>1, <2>2 DEF Stands, Backed
<1>. QED
  BY <1>0, <1>1, <1>2, <1>3, Invariance, QuietInvariance, PTL DEF Spec

===========================================================================
