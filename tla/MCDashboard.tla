---------------------------- MODULE MCDashboard ----------------------------
(* What the dashboard's pages do beside LabLifecycle: the blueprint editor of *)
(* a tab, the actions on VMs (with the buttons of one VM, or in bulk), and     *)
(* the clean-up of orphaned disks.  They share no variable and no step, so it  *)
(* is enough to let one of them move in a behaviour; the others stay where     *)
(* they start.                                                                 *)
EXTENDS BlueprintEditor

CONSTANTS
  Parts,                                      \* bound: the parts of a run
  Browsers, OneVm, SeveralVms,                \* of VmActions
  DiskIds, Nodes, Requests, MaxOps, MaxFaults \* of OrphanedDisks

\* A Proxmox cluster has a node.
ASSUME NodesAssumption == Nodes # {}

VARIABLES
  part,
  busy, vm, task, seen, bulk, call, lost,
  exists, config, running, pool, deletion, flag, req, run, kept, orphans, ops, faults

Buttons == INSTANCE VmActions WITH
  VMs <- OneVm, Actions <- {"create", "restore", "reset"}, Powers <- {"stopped"},
  Lanes <- 1, MaxTasks <- 2, faults <- lost
Bulk == INSTANCE VmActions WITH
  VMs <- SeveralVms, Actions <- {"create"}, Powers <- {"absent"},
  Lanes <- 1, MaxTasks <- 1, faults <- lost
Disks == INSTANCE OrphanedDisks WITH Ids <- DiskIds, task <- deletion

vmVars == <<busy, vm, task, seen, bulk, call, lost>>
diskVars == <<exists, config, running, pool, deletion, flag, req, run, kept, orphans, ops, faults>>
allVars == <<part, vars, vmVars, diskVars>>

\* Of the initial states of a part that does not move, one is enough.
PartInit ==
  /\ part \in Parts
  /\ Init
  /\ IF part = "bulk" THEN Bulk!Init ELSE Buttons!Init
  /\ Disks!Init /\ (part = "disks" \/ (exists = {} /\ pool = {}))

PartNext ==
  /\ UNCHANGED part
  /\ \/ part = "editor" /\ Next /\ UNCHANGED <<vmVars, diskVars>>
     \/ part = "buttons" /\ Buttons!Next /\ UNCHANGED <<vars, diskVars>>
     \/ part = "bulk" /\ Bulk!Next /\ UNCHANGED <<vars, diskVars>>
     \/ part = "disks" /\ Disks!Next /\ UNCHANGED <<vars, vmVars>>

\* The fairness of each part.  What is fair of the editor and of the disks is
\* not enabled where they start; of bulk actions it holds while they move.
PartFairness ==
  /\ Fairness
  /\ \A c \in Bulk!CallIds : WF_vmVars(part = "bulk" /\ Bulk!CallNext(c))
  /\ \A b \in Browsers, v \in SeveralVms :
       WF_vmVars(part = "bulk" /\ (Bulk!EndBulk(b) \/ Bulk!TakeNext(b, v)))
  /\ Disks!Fairness

PartSpec == PartInit /\ [][PartNext]_allVars /\ PartFairness

---------------------------------------------------------------------------
(* Safety *)

\* The types of the three, and two things that hold in every state: a browser's
\* snapshot button and its bulk action are never at work on the same VM, and a
\* bulk action that ended has dealt with every VM.
PartsTypeOK ==
  TypeOK /\ Disks!TypeOK /\ IF part = "bulk" THEN Bulk!TypeOK ELSE Buttons!TypeOK
PartsInvariant ==
  /\ PartsTypeOK
  /\ IF part = "bulk" THEN Bulk!SnapshotMeetsNoBulk /\ Bulk!BulkIsComplete
                      ELSE Buttons!SnapshotMeetsNoBulk /\ Buttons!BulkIsComplete

\* Edits of a blueprint are stored in no other, and are lost without the user's
\* choice only while a load or a save was under way.
EditsAreSafe == EditsStayHome /\ KeptUnlessLate

\* A success is the end of the browser's own task.
SuccessIsDone == IF part = "bulk" THEN Bulk!SuccessIsDone ELSE Buttons!SuccessIsDone

\* A clean-up keeps what was protected all the time, and one that reports to be
\* complete left nothing it should have deleted.
CleanupIsExact == Disks!KeptVolumes /\ Disks!CompleteIsTrue

\* README.md:171: "Volumes whose VMID still exists in Proxmox ... are ignored".
\* The code does not keep it.
ExistingSpared == Disks!ExistingSpared

---------------------------------------------------------------------------
(* Liveness *)

\* Saves, bulk actions and clean-ups end, whatever is refused or not answered,
\* but for the clean-up whose poll of a task is never answered
\* (EverySaveEnds, EveryBulkEnds and EveryCleanupEnds, of which a behaviour has
\* one: the other parts stay where they start, with nothing under way).
UnderWayHere ==
  \/ Saving
  \/ flag /\ ~ Disks!Unanswered
  \/ part = "bulk" /\ \E b \in Browsers : bulk[b].running
EverythingEnds == UnderWayHere ~> ~ UnderWayHere
===========================================================================
