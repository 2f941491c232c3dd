-------------------------- MODULE MCLabLifecycle --------------------------
(* Values and bounds of LabLifecycle for TLC.  All requests, cancellations  *)
(* and faults at once are too many states, so a behaviour belongs to one    *)
(* scenario, which says what may happen in it beside the work itself.       *)
EXTENDS LabLifecycle, TLC

CONSTANT Scenarios  \* bound: those of a run

VARIABLE scenario

\* TERRAFORM_JOB_CONCURRENCY and ANSIBLE_JOB_CONCURRENCY, small
MCSlots == [q \in Queues |-> IF q = "terraform" THEN 2 ELSE 1]

Symmetry == Permutations(JobIds)

\* Without faults: every request of one lab, or refresh and delete, or cancel-all,
\* or what has follow-ups and apply retries
Requests == INSTANCE LabLifecycle WITH MaxFaults <- 0, MaxApplyRetries <- 0,
  Operations <- Actions \cup {"redeploy", "resume", "recover", "clear"}
Refreshes == INSTANCE LabLifecycle WITH MaxFaults <- 0, MaxApplyRetries <- 0,
  Operations <- {"deploy", "stop", "destroy", "refresh", "delete"}
Cancels == INSTANCE LabLifecycle WITH MaxFaults <- 0,
  Operations <- {"deploy", "resume", "cancel"}
FollowUps == INSTANCE LabLifecycle WITH MaxFaults <- 0,
  Operations <- {"deploy", "stop", "destroy", "resume"}

\* With faults: beside resume and recovery, or without follow-ups, or in two labs
Faults == INSTANCE LabLifecycle WITH
  Operations <- {"deploy", "destroy", "resume", "recover"}
Crashes == INSTANCE LabLifecycle WITH
  Operations <- {"start", "destroy"}
Deploys == INSTANCE LabLifecycle WITH FaultKinds <- {"crash", "session"},
  Operations <- {"deploy"}

\* Where one lab is enough
Single == CHOOSE l \in Labs : TRUE
OneLab == \A j \in JobIds : job'[j].lab \in {Single, None}

MCInit == Init /\ scenario \in Scenarios
MCNext ==
  /\ UNCHANGED scenario
  /\ \/ scenario = "requests" /\ Requests!Next
     \/ scenario = "refreshes" /\ Refreshes!Next
     \/ scenario = "cancels" /\ Cancels!Next /\ OneLab
     \/ scenario = "followUps" /\ FollowUps!Next
     \/ scenario = "faults" /\ Faults!Next /\ OneLab
     \/ scenario = "crashes" /\ Crashes!Next
     \/ scenario = "deploys" /\ Deploys!Next

MCSpec == MCInit /\ [][MCNext]_<<vars, scenario>>

MCFairSpec == MCSpec /\ Fairness
===========================================================================
