----------------------------- MODULE VmActions -----------------------------
(***************************************************************************)
(* Actions on the VMs of a deployed lab: snapshots (create, restore,       *)
(* delete), the guest commands (reset of address or password) and the      *)
(* pause of Windows updates.  Browsers start them for one VM or, a few at  *)
(* a time, for all selected VMs; each is a request the dashboard checks    *)
(* and passes on to Proxmox, whose task or guest process is then polled.   *)
(* The lab's own operations go on beside them.                             *)
(*                                                                         *)
(* A definition X_Bug above X is X with a plausible bug, not used here.    *)
(***************************************************************************)
EXTENDS Naturals, FiniteSets

CONSTANTS
  VMs,         \* the VMs of one deployment
  Browsers,
  Actions,     \* the actions in use
  Powers,      \* the power states the lab's operations bring about
  Lanes,       \* requests of a bulk action at a time
  MaxTasks,    \* bound on Proxmox tasks and guest processes
  MaxFaults    \* bound on lost answers and on operations of the lab

Snapshot == {"create", "restore", "delete"}
\* A browser's bulk action, and the buttons of one VM, one open request of each
Kinds == {"bulk", "snapshot", "guest"}
CallIds == Browsers \X VMs \X Kinds
Ids == 1 .. MaxTasks

VARIABLES
  busy,     \* the deployment has an operation in progress
  vm,       \* the VMs in Proxmox
  task,     \* snapshot tasks and guest processes; "none" before they start
  seen,     \* the payload a browser shows
  bulk,     \* selection.running and selection.results of a browser
  call,     \* the requests of the browsers
  faults

vars == <<busy, vm, task, seen, bulk, call, faults>>

Vm == [power : {"absent", "stopped", "running"}, snap : BOOLEAN, locked : BOOLEAN]
NoTask == [vm |-> "none", act |-> "none", state |-> "none"]
\* "done": success, error or skipped
Result == {"none", "waiting", "running", "done"}
NoBulk == [running |-> FALSE, act |-> "none", result |-> [v \in VMs |-> "none"]]

\* "confirm": the dialog is open; "post": sent; "checked": the lab is not busy;
\* "read": so is the VM; "poll": the task is known; "success": reported
Call == [pc : {"idle", "confirm", "post", "checked", "read", "poll", "success"},
         act : Actions \cup {"none"}, task : Ids \cup {0}]
Rest == [pc |-> "idle", act |-> "none", task |-> 0]
UnderWay(c) == call[c].pc \in {"post", "checked", "read", "poll"}

TypeOK ==
  /\ busy \in BOOLEAN /\ faults \in Nat
  /\ vm \in [VMs -> Vm]
  /\ \A v \in VMs : vm[v].locked = (\E i \in Ids :
       task[i].vm = v /\ task[i].act \in Snapshot /\ task[i].state = "running")
  /\ task \in [Ids -> {NoTask} \cup [vm : VMs, act : Actions, state : {"running", "ok", "failed", "lost"}]]
  /\ seen \in [Browsers -> [busy : BOOLEAN, vm : [VMs -> Vm]]]
  /\ bulk \in [Browsers -> [running : BOOLEAN, act : Actions \cup {"none"}, result : [VMs -> Result]]]
  /\ call \in [CallIds -> Call]

---------------------------------------------------------------------------
(* The browser *)

\* getVmActionUnavailableReason, on what the browser shows
Available(b, v, a) ==
  LET s == seen[b].vm[v] IN
  /\ ~ seen[b].busy
  /\ IF a \in Snapshot
     THEN s.power # "absent" /\ ~ s.locked /\ s.snap = (a # "create")
     ELSE s.power = "running"
Operating(b, v) == UnderWay(<<b, v, "snapshot">>)

\* refreshOpenDeploymentDetails; not shown while a bulk action runs
Refresh(b) ==
  /\ ~ bulk[b].running
  /\ seen' = [seen EXCEPT ![b] = [busy |-> busy, vm |-> vm]]
  /\ UNCHANGED <<busy, vm, task, bulk, call, faults>>

StartBulk(b) == \E a \in Actions, S \in SUBSET VMs :
  /\ ~ bulk[b].running
  /\ \E v \in S : Available(b, v, a) /\ ~ Operating(b, v)
  /\ bulk' = [bulk EXCEPT ![b] =
       [running |-> TRUE, act |-> a,
        result |-> [v \in VMs |-> IF v \notin S THEN "none"
                                  ELSE IF Available(b, v, a) /\ ~ Operating(b, v)
                                       THEN "waiting" ELSE "done"]]]
  /\ UNCHANGED <<busy, vm, task, seen, call, faults>>

\* pending[next++] by one of the lanes
TakeNext(b, v) ==
  /\ bulk[b].running /\ bulk[b].result[v] = "waiting"
  /\ Cardinality({w \in VMs : bulk[b].result[w] = "running"}) < Lanes
  /\ bulk' = [bulk EXCEPT ![b].result[v] = "running"]
  /\ call' = [call EXCEPT ![<<b, v, "bulk">>] = [pc |-> "post", act |-> bulk[b].act, task |-> 0]]
  /\ UNCHANGED <<busy, vm, task, seen, faults>>

\* The finally block: after a snapshot action the details are read again.
EndBulk(b) ==
  /\ bulk[b].running
  /\ \A v \in VMs : bulk[b].result[v] \notin {"waiting", "running"}
  /\ bulk' = [bulk EXCEPT ![b].running = FALSE]
  /\ seen' = IF bulk[b].act \in Snapshot THEN [seen EXCEPT ![b] = [busy |-> busy, vm |-> vm]]
                                         ELSE seen
  /\ UNCHANGED <<busy, vm, task, call, faults>>

\* The buttons of one VM; a snapshot action asks first.  The others leave no
\* mark in selection: the VM's next bulk action does not wait for them.
StartSingle(b, v) == \E a \in Actions :
  LET c == <<b, v, IF a \in Snapshot THEN "snapshot" ELSE "guest">> IN
  /\ ~ bulk[b].running /\ call[c].pc \in {"idle", "success"}
  /\ Available(b, v, a)
  /\ call' = [call EXCEPT ![c] =
       [pc |-> IF a \in Snapshot THEN "confirm" ELSE "post", act |-> a, task |-> 0]]
  /\ UNCHANGED <<busy, vm, task, seen, bulk, faults>>

Confirm_Unchecked(b, v) ==
  LET c == <<b, v, "snapshot">> IN
  /\ call[c].pc = "confirm"
  /\ call' = [call EXCEPT ![c].pc = "post"]
  /\ UNCHANGED <<busy, vm, task, seen, bulk, faults>>

\* A bulk action may have been started while the dialog was open.
Confirm(b, v) ==
  LET c == <<b, v, "snapshot">> IN
  /\ call[c].pc = "confirm"
  /\ call' = [call EXCEPT ![c].pc = IF bulk[b].running THEN "idle" ELSE "post"]
  /\ UNCHANGED <<busy, vm, task, seen, bulk, faults>>

End_Rejects(c, pc) ==
  /\ call' = [call EXCEPT ![c] = IF pc = "success" THEN [@ EXCEPT !.pc = pc] ELSE Rest]
  /\ bulk' = IF c[3] = "bulk"
             THEN [bulk EXCEPT ![c[1]].result[c[2]] = "done",
                               ![c[1]].running = (pc = "success")]
             ELSE bulk

End_Forgets(c, pc) ==
  /\ call' = [call EXCEPT ![c] = IF pc = "success" THEN [@ EXCEPT !.pc = pc] ELSE Rest]
  /\ bulk' = IF c[3] = "bulk" /\ pc = "success"
             THEN [bulk EXCEPT ![c[1]].result[c[2]] = "done"] ELSE bulk

\* The result is noted; an error of one VM does not stop the others.
End(c, pc) ==
  /\ call' = [call EXCEPT ![c] = IF pc = "success" THEN [@ EXCEPT !.pc = pc] ELSE Rest]
  /\ bulk' = IF c[3] = "bulk" THEN [bulk EXCEPT ![c[1]].result[c[2]] = "done"] ELSE bulk

Goto(c, pc) == call' = [call EXCEPT ![c].pc = pc] /\ UNCHANGED bulk

---------------------------------------------------------------------------
(* The dashboard *)

ChecksBusy(a) == a \in Snapshot \cup {"updates"}

CheckStatus(c) ==
  /\ call[c].pc = "post"
  /\ IF ChecksBusy(call[c].act) /\ busy THEN End(c, "error") ELSE Goto(c, "checked")
  /\ UNCHANGED <<busy, vm, task, seen, faults>>

\* The inventory, and for snapshots getVmSnapshot
CheckVm(c) ==
  LET a == call[c].act
      v == vm[c[2]] IN
  /\ call[c].pc = "checked"
  /\ IF IF a \in Snapshot THEN v.power # "absent" /\ ~ v.locked /\ v.snap = (a # "create")
                          ELSE v.power = "running"
     THEN Goto(c, "read") ELSE End(c, "error")
  /\ UNCHANGED <<busy, vm, task, seen, faults>>

Fault == faults < MaxFaults /\ faults' = faults + 1

\* The request to Proxmox.  It is refused when the VM is gone or locked, a
\* guest command when the guest is down; the answer may be lost.  No task
\* starts beyond MaxTasks.
Request(c) ==
  LET a == call[c].act
      v == c[2]
      possible == /\ \E i \in Ids : task[i] = NoTask
                  /\ IF a \in Snapshot THEN vm[v].power # "absent" /\ ~ vm[v].locked
                                     ELSE vm[v].power = "running" IN
  /\ call[c].pc = "read"
  /\ \/ /\ ~ possible
        /\ End(c, "error")
        /\ UNCHANGED <<vm, task, faults>>
     \/ /\ possible
        /\ \E i \in Ids :
             /\ task[i] = NoTask /\ \A j \in 1 .. i - 1 : task[j] # NoTask
             /\ task' = [task EXCEPT ![i] = [vm |-> v, act |-> a, state |-> "running"]]
             /\ \/ /\ call' = [call EXCEPT ![c].pc = "poll", ![c].task = i]
                   /\ UNCHANGED <<bulk, faults>>
                \/ Fault /\ End(c, "error")
        /\ vm' = [vm EXCEPT ![v].locked = @ \/ a \in Snapshot]
  /\ UNCHANGED <<busy, seen>>

Verdict_Accepted(c) ==
  IF task[call[c].task].state \in {"ok", "failed"} THEN "success" ELSE "none"

\* What a poll concludes: exit status OK, or exit code 0
Verdict(c) ==
  CASE task[call[c].task].state = "ok"     -> "success"
    [] task[call[c].task].state = "failed" -> "error"
    [] OTHER                               -> "none"

Poll(c) ==
  /\ call[c].pc = "poll" /\ Verdict(c) # "none"
  /\ End(c, Verdict(c))
  /\ UNCHANGED <<busy, vm, task, seen, faults>>

\* The deadline, or a poll of a snapshot task that fails
GiveUp(c) ==
  /\ call[c].pc = "poll" /\ Verdict(c) = "none"
  /\ End(c, "error")
  /\ UNCHANGED <<busy, vm, task, seen, faults>>

---------------------------------------------------------------------------
(* Proxmox and the guests *)

\* The state of every process of a guest that goes down
Lost(v) == [i \in Ids |->
  IF task[i].vm = v /\ task[i].act \notin Snapshot /\ task[i].state = "running"
  THEN [task[i] EXCEPT !.state = "lost"] ELSE task[i]]

\* A snapshot task fails, or finds the snapshot as it needs it.
TaskEnds(i) ==
  LET v == task[i].vm
      a == task[i].act IN
  /\ task[i].state = "running"
  /\ \E ok \in BOOLEAN :
       /\ a \in Snapshot /\ ok => vm[v].snap = (a # "create")
       /\ task' = [(IF a = "restore" /\ ok THEN Lost(v) ELSE task)
                     EXCEPT ![i].state = IF ok THEN "ok" ELSE "failed"]
       /\ vm' = IF a \notin Snapshot THEN vm
                ELSE [vm EXCEPT ![v].locked = FALSE,
                                ![v].snap = IF ok THEN a # "delete" ELSE @]
  /\ UNCHANGED <<busy, seen, bulk, call, faults>>

\* An operation of the lab is claimed, starts, stops, destroys or recreates
\* VMs, and ends.  Proxmox refuses it on a VM that is locked.
LabBegins ==
  /\ ~ busy /\ busy' = TRUE /\ Fault
  /\ UNCHANGED <<vm, task, seen, bulk, call>>

LabActs(v) ==
  /\ busy /\ ~ vm[v].locked
  /\ \E p \in Powers :
       /\ p # vm[v].power
       /\ vm' = [vm EXCEPT ![v].power = p, ![v].snap = @ /\ p # "absent"]
       /\ task' = Lost(v)
  /\ UNCHANGED <<busy, seen, bulk, call, faults>>

LabEnds ==
  /\ busy /\ busy' = FALSE
  /\ UNCHANGED <<vm, task, seen, bulk, call, faults>>

---------------------------------------------------------------------------
Init ==
  /\ busy = FALSE /\ faults = 0
  /\ vm = [v \in VMs |-> [power |-> "running", snap |-> FALSE, locked |-> FALSE]]
  /\ task = [i \in Ids |-> NoTask]
  /\ seen = [b \in Browsers |-> [busy |-> FALSE, vm |-> vm]]
  /\ bulk = [b \in Browsers |-> NoBulk]
  /\ call = [c \in CallIds |-> Rest]

CallNext(c) == CheckStatus(c) \/ CheckVm(c) \/ Request(c) \/ Poll(c) \/ GiveUp(c)
BrowserNext(b) ==
  \/ Refresh(b) \/ StartBulk(b) \/ EndBulk(b)
  \/ \E v \in VMs : TakeNext(b, v) \/ StartSingle(b, v) \/ Confirm(b, v)

Next ==
  \/ \E b \in Browsers : BrowserNext(b)
  \/ \E c \in CallIds : CallNext(c)
  \/ \E i \in Ids : TaskEnds(i)
  \/ LabBegins \/ LabEnds \/ \E v \in VMs : LabActs(v)

Spec == Init /\ [][Next]_vars

\* Requests and polls have deadlines, lanes go on.  Neither Proxmox nor the
\* guests nor the lab's operation have to end anything.
Fairness ==
  /\ \A c \in CallIds : WF_vars(CallNext(c))
  /\ \A b \in Browsers : WF_vars(EndBulk(b)) /\ \A v \in VMs : WF_vars(TakeNext(b, v))

FairSpec == Spec /\ Fairness

---------------------------------------------------------------------------
(* Properties *)

\* "Task polling ... does not report acceptance as success": a browser reports
\* success only of its own task, for this VM and action, ended with status OK,
\* also when another browser's task or the lab's operation came in between.
SuccessIsDone ==
  \A c \in CallIds : call[c].pc = "success" =>
    /\ call[c].task # 0
    /\ task[call[c].task] = [vm |-> c[2], act |-> call[c].act, state |-> "ok"]

\* While the request of a browser's snapshot button is under way, none of its
\* bulk action is for the same VM, although a bulk action may begin while the
\* question before the snapshot is open.  The buttons that reset the address or
\* the password and pause the updates promise nothing of the kind: their
\* requests do meet a bulk action's.
SnapshotMeetsNoBulk ==
  \A b \in Browsers, v \in VMs : ~ (Operating(b, v) /\ UnderWay(<<b, v, "bulk">>))

\* "keep processing after individual failures": a bulk action that has ended
\* has dealt with every VM it selected, and none of its requests is open.
BulkIsComplete ==
  \A b \in Browsers : ~ bulk[b].running =>
    \A v \in VMs : /\ bulk[b].result[v] \notin {"waiting", "running"}
                   /\ ~ UnderWay(<<b, v, "bulk">>)

\* A bulk action ends, however long Proxmox takes and whatever the lab does.
EveryBulkEnds == \A b \in Browsers : bulk[b].running ~> ~ bulk[b].running

---------------------------------------------------------------------------
(* What the documentation says and the code does not keep *)

\* README.md:515 "Actions are disabled while the deployment is busy": no
\* snapshot task starts while an operation of the lab is in progress.
SnapshotsSpareBusyLab ==
  [][\A i \in Ids : task[i] = NoTask /\ task'[i] # NoTask /\ task'[i].act \in Snapshot => ~ busy]_vars
===========================================================================
