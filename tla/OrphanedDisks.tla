--------------------------- MODULE OrphanedDisks ---------------------------
(***************************************************************************)
(* "Clean orphaned disks": the dashboard reads the VMs, their configs and  *)
(* the volumes of the Ceph pool, and deletes the volumes that belong to no *)
(* VM and that no config names, one Proxmox task after the other.  Labs    *)
(* create, start and destroy VMs meanwhile.                                *)
(*                                                                         *)
(* A definition X_Bug above X is X with a plausible bug, not used here.    *)
(***************************************************************************)
EXTENDS Naturals, FiniteSets

CONSTANTS
  Ids,         \* VM ids; the volume "vm-<id>-..." is called by the id
  Nodes,
  Requests,
  MaxOps,      \* bound on what the labs do
  MaxFaults    \* bound on requests and tasks that fail or last too long

VARIABLES
  exists,    \* the VMs of the inventory
  config,    \* the volumes named in the config of each
  running,   \* the running VMs, which watch their volumes
  pool,      \* the volumes
  task,      \* the deletion of each volume
  flag,      \* orphanedDiskCleanupRunning
  req,       \* the requests
  run,       \* the variables of the one that cleans
  kept,      \* the VMs that have protected a volume since the clean-up began
  orphans,   \* orphans ever since then
  ops, faults

vars == <<exists, config, running, pool, task, flag, req, run, kept, orphans, ops, faults>>

\* left: the VMs or nodes of a loop still to come
Run == [ids : SUBSET Ids, left : SUBSET (Ids \cup Nodes), refs : SUBSET Ids,
        found : SUBSET Ids, current : Ids \cup {"none"}, errors : BOOLEAN]
NoRun == [ids |-> {}, left |-> {}, refs |-> {}, found |-> {}, current |-> "none", errors |-> FALSE]

\* "unanswered": it waits for the answer to a poll that does not come
Pc == {"idle", "refused", "inventory", "configs", "content", "delete", "poll",
       "unanswered", "complete", "incomplete", "failed"}
Cleaning(r) == req[r] \in {"inventory", "configs", "content", "delete", "poll", "unanswered"}
Unanswered == \E r \in Requests : req[r] = "unanswered"

TypeOK ==
  /\ exists \subseteq Ids /\ running \subseteq exists /\ pool \subseteq Ids
  /\ config \in [Ids -> SUBSET Ids]
  /\ task \in [Ids -> {"none", "running", "ok", "watched", "missing", "failed"}]
  /\ req \in [Requests -> Pc] /\ run \in Run
  /\ flag = (\E r \in Requests : Cleaning(r))
  /\ Cardinality({r \in Requests : Cleaning(r)}) <= 1

---------------------------------------------------------------------------
(* The labs, whose VMs have one volume each; config also names volumes that *)
(* are left unused or shared                                                *)

\* <<VM, volume>>
Protects == {p \in exists \X pool : p[1] = p[2] \/ p[2] \in config[p[1]]}
Protected == {p[2] : p \in Protects}
Watched == UNION {config[v] : v \in running}
Orphans == (pool \ Protected) \ Watched

\* What has been protected, or an orphan, all the time
Track ==
  /\ kept' = kept \cap Protects'
  /\ orphans' = orphans \cap (Orphans' \cup (Ids \ pool'))

Op ==
  /\ ops < MaxOps /\ ops' = ops + 1 /\ Track
  /\ UNCHANGED <<task, flag, req, run, faults>>

CreateVm(v) ==
  /\ v \notin exists /\ exists' = exists \cup {v} /\ UNCHANGED <<config, running, pool>> /\ Op

AddVolume(v) ==
  /\ v \in exists /\ v \notin config[v]
  /\ pool' = pool \cup {v} /\ config' = [config EXCEPT ![v] = @ \cup {v}]
  /\ UNCHANGED <<exists, running>> /\ Op

StartVm(v) ==
  /\ v \in exists \ running /\ v \in config[v] \cap pool
  /\ running' = running \cup {v} /\ UNCHANGED <<exists, config, pool>> /\ Op

\* The volume may be left behind.
DestroyVm(v) ==
  /\ v \in exists /\ exists' = exists \ {v} /\ running' = running \ {v}
  /\ pool' \in {pool, pool \ {v}}
  /\ config' = [config EXCEPT ![v] = {}] /\ Op

\* A deletion, unless the volume is watched or gone; it may fail otherwise.
TaskEnds(d) ==
  /\ task[d] = "running"
  /\ \/ /\ task' = [task EXCEPT ![d] = CASE d \notin pool -> "missing"
                                         [] d \in Watched -> "watched"
                                         [] OTHER -> "ok"]
        /\ pool' = IF d \in Watched THEN pool ELSE pool \ {d}
        /\ UNCHANGED faults
     \/ /\ faults < MaxFaults /\ faults' = faults + 1
        /\ task' = [task EXCEPT ![d] = "failed"] /\ UNCHANGED pool
  /\ UNCHANGED <<exists, config, running, flag, req, run, ops>>
  /\ Track

---------------------------------------------------------------------------
(* The clean-up *)

Fault == faults < MaxFaults /\ faults' = faults + 1

\* The catch and the finally block
Fail(r) ==
  /\ req' = [req EXCEPT ![r] = "failed"]
  /\ flag' = FALSE /\ run' = NoRun

Steady == UNCHANGED <<exists, config, running, pool, ops>>

Begin(r) ==
  /\ req[r] = "idle"
  /\ IF flag THEN /\ req' = [req EXCEPT ![r] = "refused"]
                  /\ UNCHANGED <<flag, kept, orphans, task>>
             ELSE /\ req' = [req EXCEPT ![r] = "inventory"]
                  /\ flag' = TRUE
                  /\ kept' = {p \in Protects : task[p[2]] # "running"}
                  /\ orphans' = Orphans
                  /\ task' = [d \in Ids |-> IF task[d] = "running" THEN "running" ELSE "none"]
  /\ UNCHANGED <<run, faults>> /\ Steady

ReadInventory(r) ==
  /\ req[r] = "inventory"
  /\ \/ /\ run' = [run EXCEPT !.ids = exists, !.left = exists]
        /\ req' = [req EXCEPT ![r] = "configs"]
        /\ UNCHANGED <<flag, faults>>
     \/ Fault /\ Fail(r)
  /\ UNCHANGED <<task, kept, orphans>> /\ Steady

ReadConfig_Skips(r) == \E v \in run.left :
  /\ req[r] = "configs"
  /\ \/ /\ v \in exists
        /\ run' = [run EXCEPT !.refs = @ \cup config[v], !.left = @ \ {v}]
        /\ UNCHANGED faults
     \/ /\ Fault \/ (v \notin exists /\ UNCHANGED faults)
        /\ run' = [run EXCEPT !.left = @ \ {v}]
  /\ UNCHANGED <<req, flag, task, kept, orphans>> /\ Steady

\* Without one of the configs, also because its VM is gone, nothing is deleted.
ReadConfig(r) == \E v \in run.left :
  /\ req[r] = "configs"
  /\ \/ /\ v \in exists
        /\ run' = [run EXCEPT !.refs = @ \cup config[v], !.left = @ \ {v}]
        /\ UNCHANGED <<req, flag, faults>>
     \/ /\ Fault \/ (v \notin exists /\ UNCHANGED faults)
        /\ Fail(r)
  /\ UNCHANGED <<task, kept, orphans>> /\ Steady

ReadNodes(r) ==
  /\ req[r] = "configs" /\ run.left = {}
  /\ \/ /\ run' = [run EXCEPT !.left = Nodes]
        /\ req' = [req EXCEPT ![r] = "content"]
        /\ UNCHANGED <<flag, faults>>
     \/ Fault /\ Fail(r)
  /\ UNCHANGED <<task, kept, orphans>> /\ Steady

\* Every node reports the volumes of the shared pool, or an error.
ReadContent(r) == \E n \in run.left :
  /\ req[r] = "content"
  /\ \/ /\ run' = [run EXCEPT !.found = @ \cup pool, !.left = @ \ {n}]
        /\ UNCHANGED faults
     \/ /\ Fault
        /\ run' = [run EXCEPT !.errors = TRUE, !.left = @ \ {n}]
  /\ UNCHANGED <<req, flag, task, kept, orphans>> /\ Steady

Select(r) ==
  /\ req[r] = "content" /\ run.left = {}
  /\ run' = [run EXCEPT !.found = (@ \ run.ids) \ run.refs]
  /\ req' = [req EXCEPT ![r] = "delete"]
  /\ UNCHANGED <<flag, task, kept, orphans, faults>> /\ Steady

\* A deletion that still runs keeps its task.
Delete(r) == \E d \in run.found :
  /\ req[r] = "delete"
  /\ \/ /\ task' = [task EXCEPT ![d] = "running"]
        /\ run' = [run EXCEPT !.found = @ \ {d}, !.current = d]
        /\ req' = [req EXCEPT ![r] = "poll"]
        /\ UNCHANGED faults
     \/ /\ Fault
        /\ run' = [run EXCEPT !.found = @ \ {d}, !.errors = TRUE]
        /\ UNCHANGED <<req, task>>
  /\ UNCHANGED <<flag, kept, orphans>> /\ Steady

Poll_Accepted(r) ==
  /\ req[r] = "poll"
  /\ run' = [run EXCEPT !.current = "none"]
  /\ req' = [req EXCEPT ![r] = "delete"]
  /\ UNCHANGED <<flag, task, kept, orphans, faults>> /\ Steady

\* waitForProxmoxTask: the task has stopped, or a poll fails or the time is up
Poll(r) ==
  /\ req[r] = "poll"
  /\ \/ /\ task[run.current] # "running"
        /\ run' = [run EXCEPT !.current = "none",
                              !.errors = @ \/ task[run.current] = "failed"]
        /\ UNCHANGED faults
     \/ /\ Fault
        /\ run' = [run EXCEPT !.current = "none", !.errors = TRUE]
  /\ req' = [req EXCEPT ![r] = "delete"]
  /\ UNCHANGED <<flag, task, kept, orphans>> /\ Steady

\* fetchProxmoxTaskStatus sets no time limit, and the deadline is looked at only
\* between two polls: the clean-up waits for good, with its flag set.
PollHangs(r) ==
  /\ req[r] = "poll" /\ Fault
  /\ req' = [req EXCEPT ![r] = "unanswered"]
  /\ UNCHANGED <<flag, run, task, kept, orphans>> /\ Steady

Finish_KeepsFlag(r) ==
  /\ req[r] = "delete" /\ run.found = {}
  /\ req' = [req EXCEPT ![r] = IF run.errors THEN "incomplete" ELSE "complete"]
  /\ run' = NoRun
  /\ UNCHANGED <<flag, task, kept, orphans, faults>> /\ Steady

Finish(r) ==
  /\ req[r] = "delete" /\ run.found = {}
  /\ req' = [req EXCEPT ![r] = IF run.errors THEN "incomplete" ELSE "complete"]
  /\ flag' = FALSE /\ run' = NoRun
  /\ UNCHANGED <<task, kept, orphans, faults>> /\ Steady

---------------------------------------------------------------------------
Init ==
  /\ exists \in SUBSET Ids /\ pool \in SUBSET Ids
  /\ config \in [Ids -> SUBSET pool]
  /\ \A v \in Ids : v \notin exists => config[v] = {}
  /\ running \in SUBSET {v \in exists : v \in config[v]}
  /\ task = [d \in Ids |-> "none"]
  /\ flag = FALSE /\ req = [r \in Requests |-> "idle"] /\ run = NoRun
  /\ kept = {} /\ orphans = {} /\ ops = 0 /\ faults = 0

CleanNext(r) ==
  \/ ReadInventory(r) \/ ReadConfig(r) \/ ReadNodes(r) \/ ReadContent(r)
  \/ Select(r) \/ Delete(r) \/ Poll(r) \/ Finish(r)

Next ==
  \/ \E v \in Ids : CreateVm(v) \/ AddVolume(v) \/ StartVm(v) \/ DestroyVm(v) \/ TaskEnds(v)
  \/ \E r \in Requests : Begin(r) \/ CleanNext(r) \/ PollHangs(r)

Spec == Init /\ [][Next]_vars

\* Requests to Proxmox have time limits, but for the poll of a task; that one is
\* answered, or fails, or PollHangs.  The tasks of Proxmox end.
Fairness ==
  /\ \A r \in Requests : WF_vars(CleanNext(r))
  /\ \A d \in Ids : WF_vars(TaskEnds(d))

FairSpec == Spec /\ Fairness

---------------------------------------------------------------------------
(* Properties *)

\* A volume whose VM exists, or which a VM's config names, from the beginning
\* of the clean-up on is not deleted, whatever fails and whatever the labs do.
KeptVolumes == [][\A p \in kept : ~ (task[p[2]] = "running" /\ task'[p[2]] = "ok")]_vars

\* A clean-up that reports itself complete has deleted every volume that has
\* been an orphan since it began.
CompleteIsTrue ==
  [][\A r \in Requests : req'[r] = "complete" /\ req[r] # "complete"
                            => orphans \cap pool = {}]_vars

\* A clean-up ends and lets the next one begin, whatever is refused, fails or
\* lasts too long, unless a poll of its task is never answered: nothing takes
\* the flag from it then but a restart of the dashboard.
EveryCleanupEnds == flag ~> (~ flag \/ Unanswered)

---------------------------------------------------------------------------
(* What the documentation says and the code does not keep *)

\* README.md:171: "Volumes whose VMID still exists in Proxmox ... are ignored"
ExistingSpared ==
  [][\A d \in Ids : task[d] = "running" /\ task'[d] = "ok" => d \notin Protected]_vars
===========================================================================
