-------------------------- MODULE DeploymentDurations --------------------------
(***************************************************************************)
(* How long deployments take (lib/deploymentDurations.js).  The workers    *)
(* record the start and the end of a run while it happens; their writes    *)
(* may fail, and a newer action on the lab makes them miss.  An importer   *)
(* in the dashboard reads the completed jobs that Redis still keeps and    *)
(* adds what is missing.                                                   *)
(*                                                                         *)
(* One lab.  A job is here what it records and what the importer reads of  *)
(* it; LabLifecycle has its locks, crashes and recoveries.                 *)
(***************************************************************************)
EXTENDS FiniteSets, Naturals

CONSTANTS Runs,       \* the runs of the lab, each with its id
          VMs,        \* the VMs of its blueprint
          MaxFaults,  \* failed writes, imports and customizations
          None

VARIABLES
  row,     \* the lab_deployments row: test mode, its last run and status
  needs,   \* VMs of the blueprint with something to customize
  deploy,  \* the Terraform job of each run
  custom,  \* its customization job
  dur,     \* blueprint_deployment_durations
  import,  \* the importer: what it has read of either queue
  faults

vars == <<row, needs, deploy, custom, dur, import, faults>>

AtRest == row.status \in {"idle", "deployed", "other", "failed"}
NoDur == [started |-> FALSE, finished |-> "no", by |-> "nobody"]
NoDeploy == [state |-> "none", kind |-> "none", failed |-> {}]

Init == /\ row \in [test : BOOLEAN, run : {None}, status : {"idle"}]
        /\ needs \in SUBSET VMs
        /\ deploy = [r \in Runs |-> NoDeploy]
        /\ custom = [r \in Runs |-> "none"]
        /\ dur = [r \in Runs |-> NoDur]
        /\ import = [pc |-> "idle", deploys |-> {}, customs |-> {}]
        /\ faults = 0

Fault_Bug == faults <= MaxFaults /\ faults' = faults + 1

\* A query or a command fails.
Fault == faults < MaxFaults /\ faults' = faults + 1

---------------------------------------------------------------------------
(* The operations that the queries of the module perform *)

\* INSERT ... ON CONFLICT DO NOTHING: the run must be the lab's last.
Started(r) == IF row.status # "gone" /\ row.run = r /\ ~row.test /\ deploy[r].kind = "full"
                THEN [dur EXCEPT ![r].started = TRUE] ELSE dur

\* UPDATE: an open measure of the last run of a deployed lab, no guest failed.
Finished(r, phase) ==
  IF /\ dur[r].started /\ dur[r].finished = "no" /\ deploy[r].failed = {}
     /\ row.run = r /\ row.status = "deployed"
    THEN [dur EXCEPT ![r].finished = phase, ![r].by = "worker"] ELSE dur

---------------------------------------------------------------------------
(* The dashboard's requests *)

\* A deploy, a redeploy of one workplace, or an action that only changes power.
Request(r, kind) ==
  /\ AtRest /\ deploy[r] = NoDeploy
  /\ deploy' = [deploy EXCEPT ![r] = [state |-> "waiting", kind |-> kind, failed |-> {}]]
  /\ row' = [row EXCEPT !.run = r, !.status = "busy"]
  /\ UNCHANGED <<needs, custom, dur, import, faults>>

Resume(r) ==
  /\ row.status = "failed" /\ row.run = r /\ custom[r] = "failed"
  /\ custom' = [custom EXCEPT ![r] = "waiting"]
  /\ row' = [row EXCEPT !.status = "busy"]
  /\ UNCHANGED <<needs, deploy, dur, import, faults>>

Remove == /\ row.status \in {"idle", "failed"}
          /\ row' = [row EXCEPT !.status = "gone"]
          /\ UNCHANGED <<needs, deploy, custom, dur, import, faults>>

\* clear-history, or the retention of the queue.
ForgetJobs ==
  /\ deploy' = [r \in Runs |-> IF deploy[r].state = "completed"
                                 THEN [deploy[r] EXCEPT !.state = "forgotten"] ELSE deploy[r]]
  /\ custom' = [r \in Runs |-> IF custom[r] \in {"completed", "failed"}
                                 THEN "forgotten" ELSE custom[r]]
  /\ UNCHANGED <<row, needs, dur, import, faults>>

---------------------------------------------------------------------------
(* The Terraform job *)

\* Deploys and customizations of the lab exclude each other.
LockFree == \A k \in Runs : /\ deploy[k].state \notin {"recorded", "applied", "written"}
                           /\ custom[k] \notin {"applied", "written"}

Swallowed(newDur) == \/ dur' = newDur /\ UNCHANGED faults
                     \/ Fault /\ UNCHANGED dur

\* It has its locks and the row: the start is recorded.
RecordStart(r) ==
  /\ deploy[r].state = "waiting" /\ LockFree
  /\ deploy' = [deploy EXCEPT ![r].state = "recorded"]
  /\ IF deploy[r].kind = "power" THEN UNCHANGED <<dur, faults>> ELSE Swallowed(Started(r))
  /\ UNCHANGED <<row, needs, custom, import>>

FailDeploy(r) ==
  /\ deploy[r].state = "recorded" /\ Fault
  /\ deploy' = [deploy EXCEPT ![r].state = "failed"]
  /\ row' = [row EXCEPT !.status = "failed"]
  /\ UNCHANGED <<needs, custom, dur, import>>

\* Terraform has applied; the guests became ready or were given up.
Apply(r, failed) ==
  /\ deploy[r].state = "recorded"
  /\ deploy[r].kind = "power" => failed = {}
  /\ deploy' = [deploy EXCEPT ![r].state = "applied", ![r].failed = failed]
  /\ UNCHANGED <<row, needs, custom, dur, import, faults>>

Targets(r) == IF deploy[r].kind = "power" THEN {} ELSE needs \ deploy[r].failed

SetRow(s) == \/ row' = [row EXCEPT !.status = s] /\ UNCHANGED faults
             \/ Fault /\ UNCHANGED row

\* With targets a customization is queued; without, the row is at rest, from
\* which the next request may claim it, or gone with the lab destroyed.
WriteStatus(r) ==
  /\ deploy[r].state = "applied"
  /\ deploy' = [deploy EXCEPT ![r].state = "written"]
  /\ IF Targets(r) # {}
       THEN custom' = [custom EXCEPT ![r] = "waiting"] /\ UNCHANGED <<row, faults>>
       ELSE /\ \E s \in IF deploy[r].kind = "power" THEN {"other", "gone"}
                        ELSE {"deployed"} : SetRow(s)
            /\ UNCHANGED custom
  /\ UNCHANGED <<needs, dur, import>>

\* The end is recorded, unless a customization follows or a guest failed.
RecordDeploy(r) ==
  /\ deploy[r].state = "written"
  /\ deploy' = [deploy EXCEPT ![r].state = "done"]
  /\ IF deploy[r].kind # "power" /\ Targets(r) = {} /\ deploy[r].failed = {}
       THEN Swallowed(Finished(r, "deploy")) ELSE UNCHANGED <<dur, faults>>
  /\ UNCHANGED <<row, needs, custom, import>>

CompleteDeploy(r) ==
  /\ deploy[r].state = "done"
  /\ deploy' = [deploy EXCEPT ![r].state = "completed"]
  /\ UNCHANGED <<row, needs, custom, dur, import, faults>>

---------------------------------------------------------------------------
(* The customization job; the lab's lock keeps it behind the Terraform job *)

Customize(r) ==
  /\ custom[r] = "waiting" /\ LockFree
  /\ custom' = [custom EXCEPT ![r] = "applied"]
  /\ UNCHANGED <<row, needs, deploy, dur, import, faults>>

FailCustom(r) ==
  /\ custom[r] = "applied" /\ Fault
  /\ custom' = [custom EXCEPT ![r] = "failed"]
  /\ row' = [row EXCEPT !.status = "failed"]
  /\ UNCHANGED <<needs, deploy, dur, import>>

WriteCustom(r) ==
  /\ custom[r] = "applied"
  /\ custom' = [custom EXCEPT ![r] = "written"]
  /\ SetRow("deployed")
  /\ UNCHANGED <<needs, deploy, dur, import>>

RecordCustom(r) ==
  /\ custom[r] = "written"
  /\ custom' = [custom EXCEPT ![r] = "done"]
  /\ Swallowed(Finished(r, "customization"))
  /\ UNCHANGED <<row, needs, deploy, import>>

CompleteCustom(r) ==
  /\ custom[r] = "done"
  /\ custom' = [custom EXCEPT ![r] = "completed"]
  /\ UNCHANGED <<row, needs, deploy, dur, import, faults>>

---------------------------------------------------------------------------
(* The importer, started again every few minutes *)

StartImport ==
  /\ import.pc = "idle"
  /\ import' = [pc |-> "reading", deploys |-> {}, customs |-> {}]
  /\ UNCHANGED <<row, needs, deploy, custom, dur, faults>>

\* The two queues are read concurrently, in any order.
ReadQueue ==
  /\ import.pc \in {"reading", "deploys read", "customs read"}
  /\ \/ /\ import.pc # "deploys read"
        /\ import' = [import EXCEPT
             !.pc = IF @ = "reading" THEN "deploys read" ELSE "read",
             !.deploys = {r \in Runs : deploy[r].state = "completed"}]
     \/ /\ import.pc # "customs read"
        /\ import' = [import EXCEPT
             !.pc = IF @ = "reading" THEN "customs read" ELSE "read",
             !.customs = {r \in Runs : custom[r] = "completed"}]
  /\ UNCHANGED <<row, needs, deploy, custom, dur, faults>>

Sample_Bug(r) == deploy[r].kind = "full" /\ deploy[r].failed = {}

\* historicalDeploymentDurations: of full deployments whose guests all became
\* ready, those that need no customization or whose customization was read.
Sample(r) == /\ deploy[r].kind = "full" /\ deploy[r].failed = {}
             /\ needs # {} => r \in import.customs

Open_Bug(r) == dur[r].started

\* ON CONFLICT: a measure that is finished is left alone.
Open(r) == dur[r].finished = "no"

Known_Bug(r) == row.status # "gone" /\ row.run = r

\* The lab must still exist, with the run as its last one or not.
Known(r) == row.status # "gone"

Upsert(r) ==
  /\ import.pc = "read" /\ r \in import.deploys
  /\ import' = [import EXCEPT !.deploys = @ \ {r}]
  /\ dur' = IF Sample(r) /\ Known(r) /\ ~row.test /\ Open(r)
              THEN [dur EXCEPT ![r] = [started |-> TRUE, by |-> "import",
                     finished |-> IF r \in import.customs THEN "customization" ELSE "deploy"]]
              ELSE dur
  /\ UNCHANGED <<row, needs, deploy, custom, faults>>

EndImport ==
  /\ import.pc = "read" /\ import.deploys = {}
  /\ import' = [import EXCEPT !.pc = "idle", !.customs = {}]
  /\ UNCHANGED <<row, needs, deploy, custom, dur, faults>>

\* Redis or the database fails, or the dashboard starts again.
FailImport ==
  /\ import.pc # "idle" /\ Fault
  /\ import' = [pc |-> "idle", deploys |-> {}, customs |-> {}]
  /\ UNCHANGED <<row, needs, deploy, custom, dur>>

ImportStep == StartImport \/ ReadQueue \/ EndImport \/ \E r \in Runs : Upsert(r)

Next == \/ \E r \in Runs, k \in {"full", "redeploy", "power"} : Request(r, k)
        \/ \E r \in Runs : \/ Resume(r) \/ RecordStart(r) \/ FailDeploy(r)
                           \/ WriteStatus(r) \/ RecordDeploy(r) \/ CompleteDeploy(r)
                           \/ Customize(r) \/ FailCustom(r) \/ WriteCustom(r)
                           \/ RecordCustom(r) \/ CompleteCustom(r)
        \/ \E r \in Runs, failed \in SUBSET VMs : Apply(r, failed)
        \/ Remove \/ ForgetJobs
        \/ ImportStep \/ FailImport

Spec == Init /\ [][Next]_vars

\* setInterval starts the importer again, and its queries are answered.
Fairness == WF_vars(ImportStep)

FairSpec == Spec /\ Fairness

---------------------------------------------------------------------------
\* The values of the tables and of the jobs.
TypeOK ==
  /\ row \in [test : BOOLEAN, run : Runs \cup {None},
              status : {"idle", "busy", "deployed", "other", "failed", "gone"}]
  /\ needs \subseteq VMs
  /\ deploy \in [Runs -> [state : {"none", "waiting", "recorded", "applied", "written",
                                   "done", "completed", "failed", "forgotten"},
                          kind : {"none", "full", "redeploy", "power"},
                          failed : SUBSET VMs]]
  /\ custom \in [Runs -> {"none", "waiting", "applied", "written", "done", "completed",
                          "failed", "forgotten"}]
  /\ dur \in [Runs -> [started : BOOLEAN, finished : {"no", "deploy", "customization"},
                       by : {"nobody", "worker", "import"}]]
  /\ import \in [pc : {"idle", "reading", "deploys read", "customs read", "read"},
                 deploys : SUBSET Runs, customs : SUBSET Runs]
  /\ faults \in 0 .. MaxFaults

\* README "successful full lab deployment durations, including guest readiness
\* and Ansible customization": what is averaged is a full deployment of a lab
\* not in test mode, with every guest ready, measured to the end of its
\* customization, which succeeded, whoever recorded it and in whatever order
\* the importer read the queues.
MeasuredIsSuccess ==
  \A r \in Runs : dur[r].finished # "no" =>
    /\ ~row.test /\ deploy[r].kind = "full" /\ deploy[r].failed = {}
    /\ IF needs = {} THEN dur[r].finished = "deploy"
       ELSE /\ dur[r].finished = "customization"
            /\ custom[r] \in {"done", "completed", "forgotten"}

\* README "Each run is measured once": the worker and the importer may both
\* come to record a run's end; the one that is second changes nothing.
MeasuredOnce ==
  [][\A r \in Runs : dur[r].finished # "no" => dur'[r] = dur[r]]_vars

Complete(r) == /\ deploy[r].state = "completed" /\ deploy[r].kind = "full"
               /\ deploy[r].failed = {} /\ (needs # {} => custom[r] = "completed")

\* A successful run is measured in the end, although the worker's writes
\* failed or a newer action took the lab before the end was recorded, as long
\* as its jobs are kept and its lab exists.
SuccessMeasured ==
  \A r \in Runs : Complete(r) /\ ~row.test ~>
    dur[r].finished # "no" \/ ~Complete(r) \/ row.status = "gone"
===============================================================================
