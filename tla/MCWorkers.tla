----------------------------- MODULE MCWorkers -----------------------------
(* The parts of the workers beside LabLifecycle: a customization, the         *)
(* Kubernetes tasks it starts, the durations that are recorded, and the       *)
(* control of the worker processes.  They share no variable and no step, so   *)
(* it is enough to let one of them move in a behaviour; the others stay where *)
(* they start.                                                                *)
EXTENDS Customization

CONSTANTS
  Parts,                                \* bound: the parts of a run
  Calls, MaxCallFaults,                 \* of KubernetesTask
  Runs, Guests, MaxDurationFaults, None,\* of DeploymentDurations
  Workers, Jobs, Cancels, Slots, MaxClicks, MaxRestarts  \* of WorkerControl

VARIABLES
  part,
  pc, created, outcome, request, taskJob, secret, pod, ran, worked, callFaults,
  row, needs, deploy, custom, dur, import, durationFaults,
  queued, halted, worker, key, channel, cancel, clicks, restarts

Tasks == INSTANCE KubernetesTask WITH
  job <- taskJob, faults <- callFaults, MaxFaults <- MaxCallFaults
Durations == INSTANCE DeploymentDurations WITH
  VMs <- Guests, faults <- durationFaults, MaxFaults <- MaxDurationFaults
Control == INSTANCE WorkerControl WITH job <- queued

taskVars == <<pc, created, outcome, request, taskJob, secret, pod, ran, worked, callFaults>>
durationVars == <<row, needs, deploy, custom, dur, import, durationFaults>>
controlVars == <<queued, halted, worker, key, channel, cancel, clicks, restarts>>
allVars == <<part, vars, taskVars, durationVars, controlVars>>

\* A Linux guest, a domain controller and a member; custom blocks on the Linux
\* guest and on the controller.
MCLinux == <<"l1">>
MCWindows == <<"dc", "m1">>
MCRole == [l1 |-> "none", dc |-> "controller", m1 |-> "member"]
MCSteps == <<"setup", "reboot", "reconnect">>
MCShortSteps == <<"setup", "reboot">>
MCBlocks == [l1 |-> <<"b1">>, dc |-> <<"b2", "b3">>, m1 |-> <<>>]

\* Durations with two runs and faults, without faults, or with one run and faults
Recording ==
  \/ part = "durations"
  \/ part = "durations of two runs" /\ durationFaults' = 0
  \/ part = "durations of one run" /\ Cardinality({r \in Runs : deploy'[r] # Durations!NoDeploy}) <= 1
Records == {"durations", "durations of two runs", "durations of one run"}

\* Of the initial states of a part that does not move, one is enough.
PartInit ==
  /\ part \in Parts
  /\ Init /\ (part = "customization" \/ ~unready)
  /\ Tasks!Init
  /\ Durations!Init /\ (part \in Records \/ (needs = {} /\ ~row.test))
  /\ Control!Init /\ (part = "control" \/ \A j \in Jobs : queued[j].queue = CHOOSE w \in Workers : TRUE)

PartNext ==
  /\ UNCHANGED part
  /\ \/ part = "customization" /\ Next /\ UNCHANGED <<taskVars, durationVars, controlVars>>
     \/ part = "tasks" /\ Tasks!Next /\ UNCHANGED <<vars, durationVars, controlVars>>
     \/ part \in Records /\ Durations!Next /\ Recording /\ UNCHANGED <<vars, taskVars, controlVars>>
     \/ part = "control" /\ Control!Next /\ UNCHANGED <<vars, taskVars, durationVars>>

PartSpec == PartInit /\ [][PartNext]_allVars

\* The fairness of each part.  What is fair of the tasks and of the control is
\* not enabled where they start; of the others it holds while they move.
PartFairness ==
  /\ WF_vars(part = "customization" /\ LaneProgress) /\ WF_vars(part = "customization" /\ RunNext)
  /\ Tasks!Fairness
  /\ WF_durationVars(part \in Records /\ Durations!ImportStep)
  /\ Control!Fairness

FairPartSpec == PartSpec /\ PartFairness

---------------------------------------------------------------------------
(* Safety *)

\* The types of the four, and two things that hold in every state: a task that
\* is reported as a success ended with exit code 0, and only full, successful
\* deployments are measured.
PartsTypeOK == TypeOK /\ Tasks!TypeOK /\ Durations!TypeOK /\ Control!TypeOK
PartsInvariant == PartsTypeOK /\ Tasks!SuccessIsReal /\ Durations!MeasuredIsSuccess

\* A Job whose creation was not answered never runs its playbook.
NothingRunsUnanswered == Tasks!NothingRunsUnanswered

\* A deployment is measured once, whoever comes to record its end.
MeasuredOnce == Durations!MeasuredOnce

\* A cancel-all reaches every job there was.
CancelReachesAll == Control!CancelReachesAll

---------------------------------------------------------------------------
(* Liveness *)

\* A task's call returns, and its Job, Pod and Secret disappear in the end.
TasksEnd == Tasks!CallsReturn /\ Tasks!EverythingRemoved

\* A successful deployment is measured, also when its record was lost.
SuccessMeasured == Durations!SuccessMeasured

\* After a cancel-all the queues and workers are in the end as they were, and
\* every job that is left or added is taken.
CancelLeavesNothing == <>[]Control!CancelRestores /\ Control!EveryJobTaken
===========================================================================
