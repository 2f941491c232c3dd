--------------------------- MODULE WorkersProofs ---------------------------
(***************************************************************************)
(* Proofs about the parts of the workers that MCWorkers puts together: the *)
(* Kubernetes tasks, the recorded durations and the control of the worker  *)
(* processes, each for every value of its constants.  Customization has a  *)
(* module of its own.                                                      *)
(***************************************************************************)
EXTENDS MCWorkers, CustomizationProofs

---------------------------------------------------------------------------
(* Kubernetes tasks *)

\* What stands behind a call's objects: a Job is created once, its Pod runs
\* once and only with the Secret, which is not sent before the Job is known.
TaskHistory(c) ==
  /\ "job" \in request[c] => taskJob[c] = "none" /\ ~created[c]
  /\ taskJob[c] = "none" => pod[c] = "none"
  /\ pc[c] = "new" => request[c] = {} /\ taskJob[c] = "none" /\ ~created[c]
  /\ pc[c] \in {"secret", "poll"} => created[c]
  /\ pod[c] \in {"none", "waiting"} => ran[c] = 0
  /\ "secret" \in request[c] \/ secret[c] = "present" \/ ran[c] > 0 => created[c]
  /\ pod[c] = "exit0" \/ taskJob[c] = "succeeded" \/ outcome[c] = "ok" =>
       worked[c] /\ pod[c] \in {"exit0", "gone"}

TaskInv == Tasks!TypeOK /\ \A c \in Calls : TaskHistory(c)

\* A step of one call leaves the others alone.
LEMMA TaskStep ==
  ASSUME TaskInv, NEW c \in Calls, Tasks!CallNext(c) \/ Tasks!ApiNext(c) \/ Tasks!ClusterNext(c)
  PROVE  TaskInv'
<1> USE DEF TaskInv, Tasks!TypeOK, TaskHistory, Tasks!Fault, Tasks!ToCleanup, Tasks!cluster
<1>1. CASE Tasks!Begin(c)
  <2>1. Tasks!TypeOK' /\ \A d \in Calls \ {c} : TaskHistory(d)'
    BY <1>1 DEF Tasks!Begin
  <2>2. TaskHistory(c)'
    BY <1>1 DEF Tasks!Begin
  <2> QED BY <2>1, <2>2
<1>2. CASE Tasks!GiveUp(c)
  <2>1. Tasks!TypeOK' /\ \A d \in Calls \ {c} : TaskHistory(d)'
    BY <1>2 DEF Tasks!GiveUp
  <2>2. TaskHistory(c)'
    BY <1>2 DEF Tasks!GiveUp
  <2> QED BY <2>1, <2>2
<1>3. CASE Tasks!Unanswered(c)
  <2>1. Tasks!TypeOK' /\ \A d \in Calls \ {c} : TaskHistory(d)'
    BY <1>3 DEF Tasks!Unanswered
  <2>2. TaskHistory(c)'
    BY <1>3 DEF Tasks!Unanswered
  <2> QED BY <2>1, <2>2
<1>4. CASE Tasks!Poll(c)
  <2>1. Tasks!TypeOK' /\ \A d \in Calls \ {c} : TaskHistory(d)'
    BY <1>4 DEF Tasks!Poll
  <2>2. TaskHistory(c)'
    BY <1>4 DEF Tasks!Poll, Tasks!Finished
  <2> QED BY <2>1, <2>2
<1>5. CASE Tasks!DeleteJob(c)
  <2>1. Tasks!TypeOK' /\ \A d \in Calls \ {c} : TaskHistory(d)'
    BY <1>5 DEF Tasks!DeleteJob
  <2>2. TaskHistory(c)'
    BY <1>5 DEF Tasks!DeleteJob
  <2> QED BY <2>1, <2>2
<1>6. CASE Tasks!DeleteSecret(c)
  <2>1. Tasks!TypeOK' /\ \A d \in Calls \ {c} : TaskHistory(d)'
    BY <1>6 DEF Tasks!DeleteSecret
  <2>2. TaskHistory(c)'
    BY <1>6 DEF Tasks!DeleteSecret
  <2> QED BY <2>1, <2>2
<1>7. CASE Tasks!WorkerDies(c)
  <2>1. Tasks!TypeOK' /\ \A d \in Calls \ {c} : TaskHistory(d)'
    BY <1>7 DEF Tasks!WorkerDies
  <2>2. TaskHistory(c)'
    BY <1>7 DEF Tasks!WorkerDies
  <2> QED BY <2>1, <2>2
<1>8. CASE Tasks!JobAccepted(c)
  <2>1. /\ "job" \in request[c] /\ taskJob' = [taskJob EXCEPT ![c] = "active"]
        /\ UNCHANGED <<outcome, secret, pod, ran, worked>>
    BY <1>8 DEF Tasks!JobAccepted
  <2>2. /\ callFaults' \in Nat /\ request' \in [Calls -> SUBSET {"job", "secret"}]
        /\ pc' \in [Calls -> {"new", "job", "secret", "poll", "deleteJob", "deleteSecret", "done", "dead"}]
        /\ created' \in [Calls -> BOOLEAN]
    <3>1. CASE /\ created' = [created EXCEPT ![c] = TRUE] /\ pc' = [pc EXCEPT ![c] = "secret"]
               /\ request' = [request EXCEPT ![c] = (@ \ {"job"}) \cup {"secret"}]
               /\ UNCHANGED callFaults
      BY <3>1
    <3>2. CASE /\ callFaults' = IF pc[c] = "job" THEN callFaults + 1 ELSE callFaults
               /\ request' = [request EXCEPT ![c] = @ \ {"job"}]
               /\ UNCHANGED <<created, pc>>
      <4>1. callFaults' \in Nat
        BY <3>2
      <4> QED BY <3>2, <4>1
    <3> QED BY <1>8, <3>1, <3>2 DEF Tasks!JobAccepted
  <2>3. \A d \in Calls \ {c} : request'[d] = request[d] /\ pc'[d] = pc[d] /\ created'[d] = created[d]
    BY <1>8 DEF Tasks!JobAccepted
  <2>4. \A d \in Calls \ {c} : TaskHistory(d)'
    BY <2>1, <2>3
  <2>5. Tasks!TypeOK'
    BY <2>1, <2>2
  <2>6. TaskHistory(c)'
    BY <1>8 DEF Tasks!JobAccepted
  <2> QED BY <2>4, <2>5, <2>6
<1>9. CASE Tasks!SecretAccepted(c)
  <2>1. Tasks!TypeOK' /\ \A d \in Calls \ {c} : TaskHistory(d)'
    BY <1>9 DEF Tasks!SecretAccepted
  <2>2. TaskHistory(c)'
    BY <1>9 DEF Tasks!SecretAccepted
  <2> QED BY <2>1, <2>2
<1>10. CASE Tasks!Refused(c)
  <2>1. Tasks!TypeOK' /\ \A d \in Calls \ {c} : TaskHistory(d)'
    BY <1>10 DEF Tasks!Refused
  <2>2. TaskHistory(c)'
    BY <1>10 DEF Tasks!Refused
  <2> QED BY <2>1, <2>2
<1>11. CASE Tasks!PodCreated(c)
  <2>1. Tasks!TypeOK' /\ \A d \in Calls \ {c} : TaskHistory(d)'
    BY <1>11 DEF Tasks!PodCreated
  <2>2. TaskHistory(c)'
    BY <1>11 DEF Tasks!PodCreated
  <2> QED BY <2>1, <2>2
<1>12. CASE Tasks!PodStarts(c)
  <2>1. Tasks!TypeOK' /\ \A d \in Calls \ {c} : TaskHistory(d)'
    BY <1>12 DEF Tasks!PodStarts
  <2>2. TaskHistory(c)'
    BY <1>12 DEF Tasks!PodStarts
  <2> QED BY <2>1, <2>2
<1>13. CASE Tasks!PodEnds(c)
  <2>1. Tasks!TypeOK' /\ \A d \in Calls \ {c} : TaskHistory(d)'
    BY <1>13 DEF Tasks!PodEnds
  <2>2. TaskHistory(c)'
    BY <1>13 DEF Tasks!PodEnds
  <2> QED BY <2>1, <2>2
<1>14. CASE Tasks!JobEnds(c)
  <2>1. Tasks!TypeOK' /\ \A d \in Calls \ {c} : TaskHistory(d)'
    BY <1>14 DEF Tasks!JobEnds
  <2>2. TaskHistory(c)'
    BY <1>14 DEF Tasks!JobEnds
  <2> QED BY <2>1, <2>2
<1>15. CASE Tasks!DeadlinePasses(c)
  <2>1. Tasks!TypeOK' /\ \A d \in Calls \ {c} : TaskHistory(d)'
    BY <1>15 DEF Tasks!DeadlinePasses
  <2>2. TaskHistory(c)'
    BY <1>15 DEF Tasks!DeadlinePasses
  <2> QED BY <2>1, <2>2
<1>16. CASE Tasks!TTLPasses(c)
  <2>1. Tasks!TypeOK' /\ \A d \in Calls \ {c} : TaskHistory(d)'
    BY <1>16 DEF Tasks!TTLPasses
  <2>2. TaskHistory(c)'
    BY <1>16 DEF Tasks!TTLPasses
  <2> QED BY <2>1, <2>2
<1>17. CASE Tasks!Collect(c)
  <2>1. Tasks!TypeOK' /\ \A d \in Calls \ {c} : TaskHistory(d)'
    BY <1>17 DEF Tasks!Collect
  <2>2. TaskHistory(c)'
    BY <1>17 DEF Tasks!Collect
  <2> QED BY <2>1, <2>2
<1> QED BY <1>1, <1>2, <1>3, <1>4, <1>5, <1>6, <1>7, <1>8, <1>9, <1>10, <1>11, <1>12, <1>13, <1>14, <1>15, <1>16, <1>17 DEF Tasks!CallNext, Tasks!ApiNext, Tasks!ClusterNext

LEMMA TaskInvariant == Tasks!Spec => []TaskInv
<1>1. Tasks!Init => TaskInv
  BY DEF Tasks!Init, TaskInv, TaskHistory, Tasks!TypeOK
<1>2. TaskInv /\ [Tasks!Next]_Tasks!vars => TaskInv'
  <2>1. ASSUME TaskInv, NEW c \in Calls, Tasks!CallNext(c) \/ Tasks!ApiNext(c) \/ Tasks!ClusterNext(c)
        PROVE  TaskInv'
    BY <2>1, TaskStep
  <2>2. ASSUME TaskInv, UNCHANGED Tasks!vars
        PROVE  TaskInv'
    BY <2>2 DEF TaskInv, TaskHistory, Tasks!TypeOK, Tasks!vars
  <2> QED BY <2>1, <2>2 DEF Tasks!Next
<1> QED BY <1>1, <1>2, PTL DEF Tasks!Spec

\* Whatever requests are lost, refused or carried out late, and whenever the
\* worker dies: the playbook of a Job whose creation was not answered never
\* runs, because its Secret is not sent.
THEOREM UnansweredNeverRun == Tasks!Spec => []NothingRunsUnanswered
<1>1. TaskInv => NothingRunsUnanswered
  BY DEF TaskInv, TaskHistory, NothingRunsUnanswered, Tasks!NothingRunsUnanswered
<1> QED BY <1>1, TaskInvariant, PTL

\* A call reports a success only of a playbook that has run to exit code 0,
\* although its Job may be ended by its deadline or its TTL, or deleted.
THEOREM TaskSuccessHolds == Tasks!Spec => [](Tasks!TypeOK /\ Tasks!SuccessIsReal)
<1>1. TaskInv => Tasks!TypeOK /\ Tasks!SuccessIsReal
  BY DEF TaskInv, TaskHistory, Tasks!SuccessIsReal
<1> QED BY <1>1, TaskInvariant, PTL

---------------------------------------------------------------------------
(* The durations of deployments *)

JobStates == {"none", "waiting", "recorded", "applied", "written", "done", "completed", "failed", "forgotten"}
RowStatuses == {"idle", "busy", "deployed", "other", "failed", "gone"}
Rows == [test : BOOLEAN, run : Runs \cup {None}, status : RowStatuses]
Deploys == [state : JobStates, kind : {"none", "full", "redeploy", "power"}, failed : SUBSET Guests]
Measures == [started : BOOLEAN, finished : {"no", "deploy", "customization"},
             by : {"nobody", "worker", "import"}]
Imports == [pc : {"idle", "reading", "deploys read", "customs read", "read"},
            deploys : SUBSET Runs, customs : SUBSET Runs]

\* The values of the tables and jobs; the bound on faults is of no account.
DurationTypes ==
  /\ row \in Rows /\ needs \subseteq Guests /\ deploy \in [Runs -> Deploys]
  /\ custom \in [Runs -> {"none", "waiting", "applied", "written", "done", "completed",
                          "failed", "forgotten"}]
  /\ dur \in [Runs -> Measures] /\ import \in Imports

Over == {"written", "done", "completed", "forgotten"}

\* What a run's jobs, and what the importer has read of them, say of its measure
RunHistory(r) ==
  /\ deploy[r].state = "none" => deploy[r].kind = "none"
  /\ custom[r] # "none" => deploy[r].state \in Over /\ deploy[r].kind # "power" /\ needs # {}
  /\ r \in import.deploys => deploy[r].state \in {"completed", "forgotten"}
  /\ r \in import.customs => custom[r] \in {"completed", "forgotten"}
  /\ dur[r].started => deploy[r].kind = "full" /\ ~row.test
  /\ dur[r].finished # "no" =>
       /\ dur[r].started /\ deploy[r].failed = {} /\ deploy[r].state \in Over
       /\ IF needs = {} THEN dur[r].finished = "deploy"
          ELSE dur[r].finished = "customization" /\ custom[r] \in {"done", "completed", "forgotten"}

DurationInv == DurationTypes /\ \A r \in Runs : RunHistory(r)

\* A Terraform job that goes on to another state
LEMMA DeployChanges ==
  ASSUME deploy \in [Runs -> Deploys], NEW r \in Runs, NEW s \in JobStates, deploy' = [deploy EXCEPT ![r].state = s]
  PROVE  /\ deploy' \in [Runs -> Deploys]
         /\ deploy'[r].state = s /\ deploy'[r].kind = deploy[r].kind /\ deploy'[r].failed = deploy[r].failed
         /\ \A q \in Runs \ {r} : deploy'[q] = deploy[q]
BY DEF Deploys

\* A row that is given another status, or keeps it
LEMMA StatusChanges ==
  ASSUME row \in Rows, NEW s \in RowStatuses, row' = [row EXCEPT !.status = s] \/ row' = row
  PROVE  row' \in Rows /\ row'.test = row.test
BY DEF Rows

\* A start is recorded of a full deployment that is no test, or not at all.
LEMMA Starting ==
  ASSUME dur \in [Runs -> Measures], NEW r \in Runs, Durations!Swallowed(Durations!Started(r)) \/ dur' = dur
  PROVE  /\ dur' \in [Runs -> Measures]
         /\ dur'[r].finished = dur[r].finished
         /\ dur'[r].started => dur[r].started \/ (~row.test /\ deploy[r].kind = "full")
         /\ dur[r].started => dur'[r].started
         /\ \A q \in Runs \ {r} : dur'[q] = dur[q]
<1>1. CASE dur' = dur
  BY <1>1
<1>2. CASE ~row.test /\ deploy[r].kind = "full" /\ dur' = [dur EXCEPT ![r].started = TRUE]
  <2>1. dur' \in [Runs -> Measures] /\ \A q \in Runs \ {r} : dur'[q] = dur[q]
    BY <1>2 DEF Measures
  <2>2. dur'[r].finished = dur[r].finished
    BY <1>2 DEF Measures
  <2>3. dur'[r].started
    BY <1>2 DEF Measures
  <2> QED BY <1>2, <2>1, <2>2, <2>3
<1> QED BY <1>1, <1>2 DEF Durations!Swallowed, Durations!Started

\* An end is recorded of an open measure whose guests were ready, or not at all.
LEMMA Finishing ==
  ASSUME dur \in [Runs -> Measures], NEW r \in Runs, NEW ending \in {"deploy", "customization"},
         Durations!Swallowed(Durations!Finished(r, ending)) \/ dur' = dur
  PROVE  /\ dur' \in [Runs -> Measures]
         /\ \/ dur'[r] = dur[r]
            \/ /\ dur[r].started /\ dur[r].finished = "no" /\ deploy[r].failed = {}
               /\ dur'[r].started /\ dur'[r].finished = ending
         /\ \A q \in Runs \ {r} : dur'[q] = dur[q]
<1>1. CASE dur' = dur
  BY <1>1
<1>2. CASE /\ dur[r].started /\ dur[r].finished = "no" /\ deploy[r].failed = {}
           /\ dur' = [dur EXCEPT ![r].finished = ending, ![r].by = "worker"]
  <2> DEFINE half == [dur EXCEPT ![r].finished = ending]
  <2>1. dur' = [half EXCEPT ![r].by = "worker"]
    BY <1>2
  <2>2. half \in [Runs -> Measures] /\ \A q \in Runs \ {r} : half[q] = dur[q]
    BY DEF Measures
  <2>3. half[r].started = dur[r].started /\ half[r].finished = ending
    BY DEF Measures
  <2> HIDE DEF half
  <2>4. dur' \in [Runs -> Measures] /\ \A q \in Runs \ {r} : dur'[q] = dur[q]
    BY <2>1, <2>2 DEF Measures
  <2>5. dur'[r].started = half[r].started /\ dur'[r].finished = half[r].finished
    BY <2>1, <2>2 DEF Measures
  <2> QED BY <1>2, <2>3, <2>4, <2>5
<1> QED BY <1>1, <1>2 DEF Durations!Swallowed, Durations!Finished

\* A job's step touches its own run alone.
LEMMA OwnRun ==
  ASSUME DurationInv, NEW r \in Runs,
         \A q \in Runs \ {r} : deploy'[q] = deploy[q] /\ custom'[q] = custom[q] /\ dur'[q] = dur[q],
         row'.test = row.test, needs' = needs, import' = import, DurationTypes', RunHistory(r)'
  PROVE  DurationInv'
BY DEF DurationInv, RunHistory

\* Jobs that go on without recording anything
LEMMA JobSteps ==
  ASSUME DurationInv, NEW r \in Runs,
         \/ Durations!Resume(r) \/ Durations!FailDeploy(r) \/ Durations!CompleteDeploy(r)
         \/ Durations!Customize(r) \/ Durations!FailCustom(r) \/ Durations!WriteCustom(r)
         \/ Durations!CompleteCustom(r)
  PROVE  DurationInv'
<1>0. DurationTypes /\ RunHistory(r)
  BY DEF DurationInv
<1>1. UNCHANGED <<needs, dur, import>>
  BY DEF Durations!Resume, Durations!FailDeploy, Durations!CompleteDeploy, Durations!Customize,
         Durations!FailCustom, Durations!WriteCustom, Durations!CompleteCustom
<1>2. row' \in Rows /\ row'.test = row.test
  <2>1. row' = row \/ \E s \in RowStatuses : row' = [row EXCEPT !.status = s]
    BY DEF Durations!Resume, Durations!FailDeploy, Durations!CompleteDeploy, Durations!Customize,
           Durations!FailCustom, Durations!WriteCustom, Durations!CompleteCustom, Durations!SetRow,
           RowStatuses
  <2> QED BY <1>0, <2>1, StatusChanges DEF DurationTypes
<1>3. CASE Durations!FailDeploy(r) \/ Durations!CompleteDeploy(r)
  <2>1. PICK s \in {"failed", "completed"} :
          /\ deploy' = [deploy EXCEPT ![r].state = s] /\ custom' = custom
          /\ deploy[r].state = IF s = "failed" THEN "recorded" ELSE "done"
    BY <1>3 DEF Durations!FailDeploy, Durations!CompleteDeploy
  <2>2. s \in JobStates /\ deploy \in [Runs -> Deploys]
    BY <1>0 DEF JobStates, DurationTypes
  <2>3. DurationTypes'
    BY <1>0, <1>1, <1>2, <2>1, <2>2, DeployChanges DEF DurationTypes
  <2>4. RunHistory(r)'
    BY <1>0, <1>1, <1>2, <2>1, <2>2, DeployChanges DEF RunHistory, Over
  <2> QED BY <1>1, <1>2, <2>1, <2>2, <2>3, <2>4, DeployChanges, OwnRun
<1>4. CASE \/ Durations!Resume(r) \/ Durations!Customize(r) \/ Durations!FailCustom(r)
           \/ Durations!WriteCustom(r) \/ Durations!CompleteCustom(r)
  <2>1. PICK s \in {"waiting", "applied", "written", "completed", "failed"} :
          /\ custom' = [custom EXCEPT ![r] = s] /\ deploy' = deploy
          /\ custom[r] # "none"
          /\ custom[r] \in {"done", "completed", "forgotten"} => s = "completed"
    BY <1>4 DEF Durations!Resume, Durations!Customize, Durations!FailCustom, Durations!WriteCustom,
                Durations!CompleteCustom
  <2>2. DurationTypes'
    BY <1>0, <1>1, <1>2, <2>1 DEF DurationTypes
  <2>3. custom'[r] = s /\ \A q \in Runs \ {r} : custom'[q] = custom[q]
    BY <1>0, <2>1 DEF DurationTypes
  <2>4. RunHistory(r)'
    BY <1>0, <1>1, <1>2, <2>1, <2>3 DEF RunHistory, Over
  <2> QED BY <1>1, <1>2, <2>1, <2>2, <2>3, <2>4, OwnRun
<1> QED BY <1>3, <1>4

\* The steps of a job that record, apply or hand over
LEMMA RecordSteps ==
  ASSUME DurationInv, NEW r \in Runs,
         Durations!RecordStart(r) \/ Durations!RecordDeploy(r) \/ Durations!RecordCustom(r)
  PROVE  DurationInv'
<1>0. DurationTypes /\ RunHistory(r) /\ dur \in [Runs -> Measures] /\ deploy \in [Runs -> Deploys]
  BY DEF DurationInv, DurationTypes
<1>1. UNCHANGED <<row, needs, import>>
  BY DEF Durations!RecordStart, Durations!RecordDeploy, Durations!RecordCustom
<1>2. CASE Durations!RecordStart(r)
  <2>1. /\ deploy[r].state = "waiting" /\ deploy' = [deploy EXCEPT ![r].state = "recorded"] /\ custom' = custom
        /\ Durations!Swallowed(Durations!Started(r)) \/ dur' = dur
    BY <1>2 DEF Durations!RecordStart
  <2>2. /\ deploy' \in [Runs -> Deploys] /\ deploy'[r].state = "recorded" /\ deploy'[r].kind = deploy[r].kind
        /\ \A q \in Runs \ {r} : deploy'[q] = deploy[q]
    BY <1>0, <2>1, DeployChanges DEF JobStates
  <2>3. DurationTypes'
    BY <1>0, <1>1, <2>1, <2>2, Starting DEF DurationTypes
  <2>4. RunHistory(r)'
    BY <1>0, <1>1, <2>1, <2>2, Starting DEF RunHistory, Over
  <2>5. \A q \in Runs \ {r} : dur'[q] = dur[q]
    BY <1>0, <2>1, Starting
  <2> QED BY <1>1, <2>1, <2>2, <2>3, <2>4, <2>5, OwnRun
<1>3. CASE Durations!RecordDeploy(r)
  <2>1. /\ deploy[r].state = "written" /\ deploy' = [deploy EXCEPT ![r].state = "done"] /\ custom' = custom
        /\ \/ dur' = dur
           \/ /\ deploy[r].kind # "power" /\ Durations!Targets(r) = {} /\ deploy[r].failed = {}
              /\ Durations!Swallowed(Durations!Finished(r, "deploy"))
    BY <1>3 DEF Durations!RecordDeploy
  <2>2. /\ deploy' \in [Runs -> Deploys] /\ deploy'[r].state = "done" /\ deploy'[r].kind = deploy[r].kind
        /\ deploy'[r].failed = deploy[r].failed /\ \A q \in Runs \ {r} : deploy'[q] = deploy[q]
    BY <1>0, <2>1, DeployChanges DEF JobStates
  <2>3. /\ dur' \in [Runs -> Measures] /\ \A q \in Runs \ {r} : dur'[q] = dur[q]
    BY <1>0, <2>1, Finishing
  <2>4. \/ dur'[r] = dur[r]
        \/ /\ dur[r].started /\ deploy[r].failed = {} /\ needs = {}
           /\ dur'[r].started /\ dur'[r].finished = "deploy"
    <3>1. CASE dur' = dur
      BY <3>1
    <3>2. CASE /\ deploy[r].kind # "power" /\ Durations!Targets(r) = {} /\ deploy[r].failed = {}
               /\ Durations!Swallowed(Durations!Finished(r, "deploy"))
      <4>1. needs = {}
        BY <3>2 DEF Durations!Targets
      <4> QED BY <1>0, <3>2, <4>1, Finishing
    <3> QED BY <2>1, <3>1, <3>2
  <2>5. DurationTypes'
    BY <1>0, <1>1, <2>1, <2>2, <2>3 DEF DurationTypes
  <2>6. RunHistory(r)'
    BY <1>0, <1>1, <2>1, <2>2, <2>4 DEF RunHistory, Over
  <2> QED BY <1>1, <2>1, <2>2, <2>3, <2>5, <2>6, OwnRun
<1>4. CASE Durations!RecordCustom(r)
  <2>1. /\ custom[r] = "written" /\ custom' = [custom EXCEPT ![r] = "done"] /\ deploy' = deploy
        /\ Durations!Swallowed(Durations!Finished(r, "customization"))
    BY <1>4 DEF Durations!RecordCustom
  <2>2. custom'[r] = "done" /\ \A q \in Runs \ {r} : custom'[q] = custom[q]
    BY <1>0, <2>1 DEF DurationTypes
  <2>3. /\ dur' \in [Runs -> Measures] /\ \A q \in Runs \ {r} : dur'[q] = dur[q]
        /\ \/ dur'[r] = dur[r]
           \/ dur[r].started /\ deploy[r].failed = {} /\ dur'[r].started /\ dur'[r].finished = "customization"
    BY <1>0, <2>1, Finishing
  <2>4. DurationTypes'
    BY <1>0, <1>1, <2>1, <2>3 DEF DurationTypes
  <2>5. RunHistory(r)'
    BY <1>0, <1>1, <2>1, <2>2, <2>3 DEF RunHistory, Over
  <2> QED BY <1>1, <2>1, <2>2, <2>3, <2>4, <2>5, OwnRun
<1> QED BY <1>2, <1>3, <1>4

LEMMA OutcomeSteps ==
  ASSUME DurationInv, NEW r \in Runs, NEW failed \in SUBSET Guests,
         Durations!Apply(r, failed) \/ Durations!WriteStatus(r)
  PROVE  DurationInv'
<1>0. DurationTypes /\ RunHistory(r) /\ row \in Rows /\ deploy \in [Runs -> Deploys]
  BY DEF DurationInv, DurationTypes
<1>1. UNCHANGED <<needs, dur, import>>
  BY DEF Durations!Apply, Durations!WriteStatus
<1>2. CASE Durations!Apply(r, failed)
  <2>1. /\ deploy[r].state = "recorded" /\ UNCHANGED <<row, custom>>
        /\ deploy' = [deploy EXCEPT ![r].state = "applied", ![r].failed = failed]
    BY <1>2 DEF Durations!Apply
  <2>2. /\ deploy' \in [Runs -> Deploys] /\ deploy'[r].state = "applied" /\ deploy'[r].kind = deploy[r].kind
        /\ \A q \in Runs \ {r} : deploy'[q] = deploy[q]
    <3> DEFINE half == [deploy EXCEPT ![r].state = "applied"]
    <3>1. deploy' = [half EXCEPT ![r].failed = failed]
      BY <2>1
    <3>2. /\ half \in [Runs -> Deploys] /\ half[r].state = "applied" /\ half[r].kind = deploy[r].kind
          /\ \A q \in Runs \ {r} : half[q] = deploy[q]
      BY <1>0 DEF Deploys, JobStates
    <3> HIDE DEF half
    <3> QED BY <3>1, <3>2 DEF Deploys
  <2>3. DurationTypes'
    BY <1>0, <1>1, <2>1, <2>2 DEF DurationTypes
  <2>4. RunHistory(r)'
    BY <1>0, <1>1, <2>1, <2>2 DEF RunHistory, Over
  <2> QED BY <1>1, <2>1, <2>2, <2>3, <2>4, OwnRun
<1>3. CASE Durations!WriteStatus(r)
  <2>1. /\ deploy[r].state = "applied" /\ deploy' = [deploy EXCEPT ![r].state = "written"]
        /\ \/ Durations!Targets(r) # {} /\ custom' = [custom EXCEPT ![r] = "waiting"] /\ UNCHANGED row
           \/ custom' = custom /\ \E s \in {"other", "gone", "deployed"} : Durations!SetRow(s)
    BY <1>3 DEF Durations!WriteStatus
  <2>2. /\ deploy' \in [Runs -> Deploys] /\ deploy'[r].state = "written" /\ deploy'[r].kind = deploy[r].kind
        /\ deploy'[r].failed = deploy[r].failed /\ \A q \in Runs \ {r} : deploy'[q] = deploy[q]
    BY <1>0, <2>1, DeployChanges DEF JobStates
  <2>3. row' \in Rows /\ row'.test = row.test
    <3>1. row' = row \/ \E s \in RowStatuses : row' = [row EXCEPT !.status = s]
      BY <2>1 DEF Durations!SetRow, RowStatuses
    <3> QED BY <1>0, <3>1, StatusChanges
  <2>4. custom[r] = "none"
    BY <1>0, <2>1 DEF RunHistory, Over
  <2>5. /\ \A q \in Runs \ {r} : custom'[q] = custom[q]
        /\ custom'[r] = "none" \/ (custom'[r] = "waiting" /\ deploy[r].kind # "power" /\ needs # {})
        /\ custom' \in [Runs -> {"none", "waiting", "applied", "written", "done", "completed",
                                 "failed", "forgotten"}]
    BY <1>0, <2>1, <2>4 DEF DurationTypes, Durations!Targets
  <2>6. DurationTypes'
    BY <1>0, <1>1, <2>2, <2>3, <2>5 DEF DurationTypes
  <2>7. RunHistory(r)'
    BY <1>0, <1>1, <2>1, <2>2, <2>3, <2>4, <2>5 DEF RunHistory, Over
  <2> QED BY <1>1, <2>2, <2>3, <2>5, <2>6, <2>7, OwnRun
<1> QED BY <1>2, <1>3

\* What the dashboard does to the lab and to its jobs
LEMMA LabSteps ==
  ASSUME DurationInv,
         \/ \E r \in Runs, k \in {"full", "redeploy", "power"} : Durations!Request(r, k)
         \/ Durations!Remove \/ Durations!ForgetJobs
  PROVE  DurationInv'
<1>0. DurationTypes /\ (\A r \in Runs : RunHistory(r)) /\ row \in Rows /\ deploy \in [Runs -> Deploys]
  BY DEF DurationInv, DurationTypes
<1>1. ASSUME NEW r \in Runs, NEW k \in {"full", "redeploy", "power"}, Durations!Request(r, k)
      PROVE  DurationInv'
  <2>1. /\ deploy[r] = Durations!NoDeploy
        /\ deploy' = [deploy EXCEPT ![r] = [state |-> "waiting", kind |-> k, failed |-> {}]]
        /\ row' = [row EXCEPT !.run = r, !.status = "busy"]
        /\ UNCHANGED <<needs, custom, dur, import>>
    BY <1>1 DEF Durations!Request
  <2>2. row' \in Rows /\ row'.test = row.test
    <3> DEFINE half == [row EXCEPT !.run = r]
    <3>1. row' = [half EXCEPT !.status = "busy"]
      BY <2>1
    <3>2. half \in Rows /\ half.test = row.test
      BY <1>0 DEF Rows
    <3> HIDE DEF half
    <3> QED BY <3>1, <3>2 DEF Rows, RowStatuses
  <2>3. /\ deploy' \in [Runs -> Deploys] /\ deploy'[r].state = "waiting" /\ deploy[r].state = "none"
        /\ \A q \in Runs \ {r} : deploy'[q] = deploy[q]
    BY <1>0, <2>1 DEF Deploys, JobStates, Durations!NoDeploy
  <2>4. DurationTypes'
    BY <1>0, <2>1, <2>2, <2>3 DEF DurationTypes
  <2>5. RunHistory(r)'
    BY <1>0, <2>1, <2>3 DEF RunHistory, Over
  <2> QED BY <2>1, <2>2, <2>3, <2>4, <2>5, OwnRun
<1>2. CASE Durations!Remove
  <2>1. row' = [row EXCEPT !.status = "gone"] /\ UNCHANGED <<needs, deploy, custom, dur, import>>
    BY <1>2 DEF Durations!Remove
  <2>2. row' \in Rows /\ row'.test = row.test
    BY <1>0, <2>1, StatusChanges DEF RowStatuses
  <2> QED BY <1>0, <2>1, <2>2 DEF DurationInv, DurationTypes, RunHistory
<1>3. CASE Durations!ForgetJobs
  <2>1. /\ deploy' = [r \in Runs |-> IF deploy[r].state = "completed"
                                     THEN [deploy[r] EXCEPT !.state = "forgotten"] ELSE deploy[r]]
        /\ custom' = [r \in Runs |-> IF custom[r] \in {"completed", "failed"} THEN "forgotten" ELSE custom[r]]
        /\ UNCHANGED <<row, needs, dur, import>>
    BY <1>3 DEF Durations!ForgetJobs
  <2>2. ASSUME NEW r \in Runs
        PROVE  /\ deploy'[r] \in Deploys /\ deploy'[r].kind = deploy[r].kind /\ deploy'[r].failed = deploy[r].failed
               /\ deploy'[r].state = IF deploy[r].state = "completed" THEN "forgotten" ELSE deploy[r].state
    BY <1>0, <2>1 DEF Deploys, JobStates
  <2>3. deploy' \in [Runs -> Deploys]
    BY <2>1, <2>2
  <2>4. DurationTypes'
    BY <1>0, <2>1, <2>3 DEF DurationTypes
  <2>5. ASSUME NEW r \in Runs PROVE RunHistory(r)'
    <3>1. RunHistory(r) /\ custom'[r] = IF custom[r] \in {"completed", "failed"} THEN "forgotten" ELSE custom[r]
      BY <1>0, <2>1
    <3> QED BY <2>1, <2>2, <3>1 DEF RunHistory, Over
  <2> QED BY <2>4, <2>5 DEF DurationInv
<1> QED BY <1>1, <1>2, <1>3

LEMMA ImportSteps ==
  ASSUME DurationInv, Durations!ImportStep \/ Durations!FailImport
  PROVE  DurationInv'
<1>0. DurationTypes /\ (\A r \in Runs : RunHistory(r)) /\ dur \in [Runs -> Measures] /\ import \in Imports
  BY DEF DurationInv, DurationTypes
<1>1. UNCHANGED <<row, needs, deploy, custom>>
  BY DEF Durations!ImportStep, Durations!StartImport, Durations!ReadQueue, Durations!EndImport, Durations!Upsert,
         Durations!FailImport
<1>2. ASSUME dur' = dur, import' \in Imports,
             import'.deploys \subseteq import.deploys \cup {r \in Runs : deploy[r].state = "completed"},
             import'.customs \subseteq import.customs \cup {r \in Runs : custom[r] = "completed"}
      PROVE  DurationInv'
  BY <1>0, <1>1, <1>2 DEF DurationInv, DurationTypes, RunHistory
<1>3. CASE Durations!StartImport \/ Durations!FailImport
  <2>1. dur' = dur
    BY <1>3 DEF Durations!StartImport, Durations!FailImport
  <2>2. PICK s \in {"idle", "reading"} : import' = [pc |-> s, deploys |-> {}, customs |-> {}]
    BY <1>3 DEF Durations!StartImport, Durations!FailImport
  <2>3. import' \in Imports /\ import'.deploys = {} /\ import'.customs = {}
    BY <2>2 DEF Imports
  <2> QED BY <1>2, <2>1, <2>3
<1>4. CASE Durations!EndImport
  <2>1. dur' = dur /\ import' = [import EXCEPT !.pc = "idle", !.customs = {}]
    BY <1>4 DEF Durations!EndImport
  <2>2. import' \in Imports /\ import'.deploys = import.deploys /\ import'.customs = {}
    <3> DEFINE half == [import EXCEPT !.pc = "idle"]
    <3>1. import' = [half EXCEPT !.customs = {}]
      BY <2>1
    <3>2. half \in Imports /\ half.deploys = import.deploys
      BY <1>0 DEF Imports
    <3> HIDE DEF half
    <3> QED BY <3>1, <3>2 DEF Imports
  <2> QED BY <1>2, <2>1, <2>2
<1>5. CASE Durations!ReadQueue
  <2>1. PICK s \in {"deploys read", "customs read", "read"} :
          \/ import' = [import EXCEPT !.pc = s, !.deploys = {r \in Runs : deploy[r].state = "completed"}]
          \/ import' = [import EXCEPT !.pc = s, !.customs = {r \in Runs : custom[r] = "completed"}]
    BY <1>5 DEF Durations!ReadQueue
  <2> DEFINE half == [import EXCEPT !.pc = s]
  <2>2. \/ import' = [half EXCEPT !.deploys = {r \in Runs : deploy[r].state = "completed"}]
        \/ import' = [half EXCEPT !.customs = {r \in Runs : custom[r] = "completed"}]
    BY <2>1
  <2>3. half \in Imports /\ half.deploys = import.deploys /\ half.customs = import.customs
    BY <1>0 DEF Imports
  <2> HIDE DEF half
  <2>4. /\ import' \in Imports
        /\ import'.deploys \subseteq import.deploys \cup {r \in Runs : deploy[r].state = "completed"}
        /\ import'.customs \subseteq import.customs \cup {r \in Runs : custom[r] = "completed"}
    BY <2>2, <2>3 DEF Imports
  <2>5. dur' = dur
    BY <1>5 DEF Durations!ReadQueue
  <2> QED BY <1>2, <2>4, <2>5
<1>6. ASSUME NEW r \in Runs, Durations!Upsert(r)
      PROVE  DurationInv'
  <2>1. r \in import.deploys /\ import' = [import EXCEPT !.deploys = @ \ {r}]
    BY <1>6 DEF Durations!Upsert
  <2>2. import' \in Imports /\ import'.deploys = import.deploys \ {r} /\ import'.customs = import.customs
    BY <1>0, <2>1 DEF Imports
  <2>3. CASE dur' = dur
    BY <1>2, <2>2, <2>3
  <2>4. CASE /\ deploy[r].kind = "full" /\ deploy[r].failed = {} /\ (needs # {} => r \in import.customs)
             /\ ~row.test
             /\ dur' = [dur EXCEPT ![r] = [started |-> TRUE, by |-> "import",
                          finished |-> IF r \in import.customs THEN "customization" ELSE "deploy"]]
    <3>1. /\ dur' \in [Runs -> Measures] /\ \A q \in Runs \ {r} : dur'[q] = dur[q]
          /\ dur'[r].started /\ dur'[r].finished = IF r \in import.customs THEN "customization" ELSE "deploy"
      BY <1>0, <2>4 DEF Measures
    <3>2. DurationTypes'
      BY <1>0, <1>1, <2>2, <3>1 DEF DurationTypes
    <3>3. r \in import.customs <=> needs # {}
      BY <1>0, <2>4 DEF RunHistory
    <3>4. RunHistory(r)'
      BY <1>0, <1>1, <2>1, <2>2, <2>4, <3>1, <3>3 DEF RunHistory, Over
    <3>5. ASSUME NEW q \in Runs \ {r} PROVE RunHistory(q)'
      BY <1>0, <1>1, <2>2, <3>1 DEF RunHistory
    <3> QED BY <3>2, <3>4, <3>5 DEF DurationInv
  <2> QED BY <1>6, <2>3, <2>4 DEF Durations!Upsert, Durations!Sample, Durations!Known
<1> QED BY <1>3, <1>4, <1>5, <1>6 DEF Durations!ImportStep

LEMMA DurationInvariant == Durations!Spec => []DurationInv
<1>1. Durations!Init => DurationInv
  <2> SUFFICES ASSUME Durations!Init PROVE DurationInv
    OBVIOUS
  <2>1. DurationTypes
    <3>1. row \in Rows
      BY DEF Durations!Init, Rows, RowStatuses
    <3>2. deploy \in [Runs -> Deploys]
      BY DEF Durations!Init, Durations!NoDeploy, Deploys, JobStates
    <3>3. dur \in [Runs -> Measures]
      BY DEF Durations!Init, Durations!NoDur, Measures
    <3>4. import \in Imports
      BY DEF Durations!Init, Imports
    <3> QED BY <3>1, <3>2, <3>3, <3>4 DEF Durations!Init, DurationTypes
  <2>2. ASSUME NEW r \in Runs PROVE RunHistory(r)
    BY DEF Durations!Init, Durations!NoDeploy, Durations!NoDur, RunHistory
  <2> QED BY <2>1, <2>2 DEF DurationInv
<1>2. DurationInv /\ [Durations!Next]_Durations!vars => DurationInv'
  <2>1. ASSUME DurationInv, Durations!Next PROVE DurationInv'
    BY <2>1, JobSteps, RecordSteps, OutcomeSteps, LabSteps, ImportSteps DEF Durations!Next
  <2>2. ASSUME DurationInv, UNCHANGED Durations!vars PROVE DurationInv'
    BY <2>2 DEF DurationInv, DurationTypes, RunHistory, Durations!vars
  <2> QED BY <2>1, <2>2
<1> QED BY <1>1, <1>2, PTL DEF Durations!Spec

\* What is measured is a full deployment of a lab not in test mode, with every
\* guest ready, to the end of its successful customization, if there is one.
THEOREM MeasuredHolds == Durations!Spec => []Durations!MeasuredIsSuccess
<1>1. DurationInv => Durations!MeasuredIsSuccess
  BY DEF DurationInv, RunHistory, Durations!MeasuredIsSuccess
<1> QED BY <1>1, DurationInvariant, PTL

\* The worker and the importer may both come to record a run's end, in any
\* order and with any writes lost: the first one's measure stays.
THEOREM MeasuredOnceHolds == Durations!Spec => MeasuredOnce
<1> DEFINE Kept == \A r \in Runs : dur[r].finished # "no" => dur'[r] = dur[r]
<1>1. ASSUME DurationInv, Durations!Next, NEW r \in Runs, dur[r].finished # "no"
      PROVE  dur'[r] = dur[r]
  <2>0. dur \in [Runs -> Measures]
    BY <1>1 DEF DurationInv, DurationTypes
  <2>1. CASE dur' = dur
    BY <2>1
  <2>2. CASE \E q \in Runs : Durations!RecordStart(q) \/ Durations!RecordDeploy(q) \/ Durations!RecordCustom(q)
    <3>1. PICK q \in Runs : \/ Durations!Swallowed(Durations!Started(q))
                            \/ Durations!Swallowed(Durations!Finished(q, "deploy"))
                            \/ Durations!Swallowed(Durations!Finished(q, "customization"))
                            \/ dur' = dur
      BY <2>2 DEF Durations!RecordStart, Durations!RecordDeploy, Durations!RecordCustom
    <3>2. CASE q # r
      BY <2>0, <3>1, <3>2, Starting, Finishing
    <3>3. CASE q = r
      <4>1. CASE Durations!Swallowed(Durations!Started(r))
        <5>1. dur[r].started
          BY <1>1 DEF DurationInv, RunHistory
        <5>2. dur' = dur \/ dur' = [dur EXCEPT ![r].started = TRUE]
          BY <4>1 DEF Durations!Swallowed, Durations!Started
        <5>3. [dur EXCEPT ![r].started = TRUE] = dur
          BY <2>0, <5>1 DEF Measures
        <5> QED BY <5>2, <5>3
      <4> QED BY <1>1, <2>0, <3>1, <3>3, <4>1, Finishing
    <3> QED BY <3>2, <3>3
  <2>3. CASE \E q \in Runs : Durations!Upsert(q)
    BY <1>1, <2>0, <2>3 DEF Durations!Upsert, Durations!Open
  <2> QED BY <1>1, <2>1, <2>2, <2>3
       DEF Durations!Next, Durations!ImportStep, Durations!Request, Durations!Resume, Durations!FailDeploy,
           Durations!WriteStatus, Durations!CompleteDeploy, Durations!Customize, Durations!FailCustom,
           Durations!WriteCustom, Durations!CompleteCustom, Durations!Apply, Durations!Remove,
           Durations!ForgetJobs, Durations!StartImport, Durations!ReadQueue, Durations!EndImport,
           Durations!FailImport
<1>2. DurationInv /\ [Durations!Next]_Durations!vars => [Kept]_Durations!vars
  BY <1>1
<1> QED BY <1>2, DurationInvariant, PTL DEF Durations!Spec, MeasuredOnce, Durations!MeasuredOnce

---------------------------------------------------------------------------
(* The control of the worker processes *)

JobRecords == [queue : Workers, state : Control!JobState]

\* The values of the processes, queues and messages; the bounds on clicks and
\* restarts are of no account.
ControlTypes ==
  /\ queued \in [Jobs -> JobRecords] /\ halted \subseteq Workers
  /\ worker \in [Workers -> Control!Process]
  /\ key \in [Workers -> {"none", "running", "paused", "stopped"}]
  /\ channel \in [Workers -> Seq(Control!Messages)]
  /\ cancel \in [Cancels -> Control!Cancel]
  /\ \A w \in Workers : worker[w].pc = "down" => Control!Active(w) = {}

\* A process with another status, pause or pauses to wait for
LEMMA Processes ==
  ASSUME NEW p \in Control!Process
  PROVE  /\ \A s \in {"running", "paused"} :
              [p EXCEPT !.status = s] \in Control!Process /\ [p EXCEPT !.status = s].pc = p.pc
         /\ \A b \in BOOLEAN :
              [p EXCEPT !.paused = b] \in Control!Process /\ [p EXCEPT !.paused = b].pc = p.pc
         /\ \A x \in SUBSET SUBSET Jobs :
              [p EXCEPT !.waits = x] \in Control!Process /\ [p EXCEPT !.waits = x].pc = p.pc
         /\ \A s \in {"starting", "up", "stopping", "down"} :
              [p EXCEPT !.pc = s] \in Control!Process /\ [p EXCEPT !.pc = s].pc = s
         /\ p.waits \in SUBSET SUBSET Jobs
BY DEF Control!Process

LEMMA Updates ==
  ASSUME worker \in [Workers -> Control!Process], key \in [Workers -> {"none", "running", "paused", "stopped"}],
         NEW w \in Workers, NEW p \in Control!Process, NEW s \in {"running", "paused"},
         Control!UpdateStatus(w, p, s)
  PROVE  /\ worker' \in [Workers -> Control!Process] /\ worker'[w].pc = p.pc
         /\ key' \in [Workers -> {"none", "running", "paused", "stopped"}]
         /\ \A v \in Workers \ {w} : worker'[v] = worker[v]
<1>1. worker' = [worker EXCEPT ![w] = [p EXCEPT !.status = s]] /\ key' = [key EXCEPT ![w] = s]
  BY DEF Control!UpdateStatus
<1> QED BY <1>1, Processes

\* Jobs that go on to a state of theirs, in the queue they are in
LEMMA JobsMove ==
  ASSUME queued \in [Jobs -> JobRecords], NEW J \in SUBSET Jobs, NEW s \in Control!JobState,
         queued' = [j \in Jobs |-> IF j \in J THEN [queued[j] EXCEPT !.state = s] ELSE queued[j]]
  PROVE  /\ queued' \in [Jobs -> JobRecords]
         /\ \A j \in Jobs : /\ queued'[j].queue = queued[j].queue
                            /\ queued'[j].state = IF j \in J THEN s ELSE queued[j].state
BY DEF JobRecords

\* A message is kept for the workers that listen.
LEMMA Published ==
  ASSUME channel \in [Workers -> Seq(Control!Messages)], NEW W, NEW m \in Control!Messages, Control!Publish(W, m)
  PROVE  /\ channel' \in [Workers -> Seq(Control!Messages)]
         /\ \A w \in Workers : \/ channel'[w] = channel[w]
                               \/ w \in W /\ worker[w].pc = "up" /\ channel'[w] = Append(channel[w], m)
         /\ \A w \in Workers : w \in W /\ worker[w].pc = "up" => channel'[w] = Append(channel[w], m)
BY DEF Control!Publish

\* What a process hears
LEMMA Hears ==
  ASSUME ControlTypes, NEW w \in Workers, Control!Hear(w)
  PROVE  /\ ControlTypes'
         /\ \A v \in Workers : worker'[v].pc = worker[v].pc
         /\ channel'[w] = Tail(channel[w]) /\ channel[w] # <<>>
         /\ \A v \in Workers \ {w} : channel'[v] = channel[v]
         /\ \/ Head(channel[w]) # "cancel-active" /\ queued' = queued
            \/ queued' = [j \in Jobs |-> IF j \in Control!Active(w) THEN [queued[j] EXCEPT !.state = "aborted"]
                                         ELSE queued[j]]
         /\ UNCHANGED <<halted, cancel>>
<1>1. /\ worker[w].pc = "up" /\ channel[w] # <<>> /\ channel' = [channel EXCEPT ![w] = Tail(@)]
      /\ UNCHANGED <<halted, cancel>>
      /\ Control!HearPause(w) \/ Control!HearResume(w) \/ Control!HearCancel(w)
  BY DEF Control!Hear
<1>2. /\ channel' \in [Workers -> Seq(Control!Messages)] /\ channel'[w] = Tail(channel[w])
      /\ \A v \in Workers \ {w} : channel'[v] = channel[v]
  BY <1>1 DEF ControlTypes
<1> DEFINE Effect == /\ worker' \in [Workers -> Control!Process]
                     /\ key' \in [Workers -> {"none", "running", "paused", "stopped"}]
                     /\ \A v \in Workers : worker'[v].pc = worker[v].pc
<1>0. worker[w] \in Control!Process /\ Control!Active(w) \in SUBSET Jobs
  BY DEF ControlTypes, Control!Active
<1>3. CASE Control!HearPause(w)
  <2>1. Head(channel[w]) = "pause" /\ queued' = queued
    BY <1>3 DEF Control!HearPause
  <2>2. Effect
    <3> DEFINE p == [worker[w] EXCEPT !.paused = TRUE]
    <3>0. p \in Control!Process /\ p.pc = worker[w].pc
      BY <1>0, Processes, TRUE \in BOOLEAN
    <3>1. CASE Control!UpdateStatus(w, p, "paused")
      <4> HIDE DEF p
      <4> QED BY <3>0, <3>1, Updates DEF ControlTypes
    <3>2. CASE /\ worker' = [worker EXCEPT ![w].paused = TRUE, ![w].waits = @ \cup {Control!Active(w)}]
               /\ UNCHANGED key
      <4> DEFINE half == [worker EXCEPT ![w] = p]
      <4>1. worker' = [half EXCEPT ![w].waits = @ \cup {Control!Active(w)}]
        BY <3>2
      <4> HIDE DEF p
      <4>2. half \in [Workers -> Control!Process] /\ half[w] = p /\ \A v \in Workers \ {w} : half[v] = worker[v]
        <5>1. worker \in [Workers -> Control!Process]
          BY DEF ControlTypes
        <5> QED BY <3>0, <5>1
      <4> HIDE DEF half
      <4>3. worker' \in [Workers -> Control!Process] /\ worker'[w].pc = half[w].pc
            /\ \A v \in Workers \ {w} : worker'[v] = half[v]
        BY <1>0, <4>1, <4>2 DEF Control!Process
      <4>4. worker' \in [Workers -> Control!Process] /\ \A v \in Workers : worker'[v].pc = worker[v].pc
        BY <3>0, <4>2, <4>3
      <4> QED BY <3>2, <4>4 DEF ControlTypes
    <3> QED BY <1>3, <3>1, <3>2 DEF Control!HearPause
  <2>3. ControlTypes'
    BY <1>1, <1>2, <2>1, <2>2 DEF ControlTypes, Control!Active
  <2> QED BY <1>1, <1>2, <2>1, <2>2, <2>3
<1>4. CASE Control!HearResume(w)
  <2>1. /\ Head(channel[w]) = "resume" /\ queued' = queued
        /\ Control!UpdateStatus(w, [worker[w] EXCEPT !.paused = FALSE], "running")
    BY <1>4 DEF Control!HearResume
  <2>2. Effect
    <3> DEFINE p == [worker[w] EXCEPT !.paused = FALSE]
    <3>1. p \in Control!Process /\ p.pc = worker[w].pc
      BY <1>0, Processes, FALSE \in BOOLEAN
    <3>2. Control!UpdateStatus(w, p, "running")
      BY <2>1
    <3> HIDE DEF p
    <3> QED BY <3>1, <3>2, Updates DEF ControlTypes
  <2>3. ControlTypes'
    BY <1>1, <1>2, <2>1, <2>2 DEF ControlTypes, Control!Active
  <2> QED BY <1>1, <1>2, <2>1, <2>2, <2>3
<1>5. CASE Control!HearCancel(w)
  <2>1. /\ queued' = [j \in Jobs |-> IF j \in Control!Active(w) THEN [queued[j] EXCEPT !.state = "aborted"]
                                     ELSE queued[j]]
        /\ UNCHANGED <<worker, key>>
    BY <1>5 DEF Control!HearCancel
  <2>2. /\ queued' \in [Jobs -> JobRecords]
        /\ \A j \in Jobs : /\ queued'[j].queue = queued[j].queue
                           /\ queued'[j].state = IF j \in Control!Active(w) THEN "aborted" ELSE queued[j].state
    BY <1>0, <2>1, JobsMove DEF ControlTypes, Control!JobState
  <2>3. \A v \in Workers : Control!Active(v)' = Control!Active(v)
    BY <2>2 DEF Control!Active
  <2>4. ControlTypes'
    BY <1>1, <1>2, <2>1, <2>2, <2>3 DEF ControlTypes
  <2> QED BY <1>1, <1>2, <2>1, <2>4
<1> QED BY <1>1, <1>3, <1>4, <1>5

\* The steps of a process beside what it hears, and the clicks
LEMMA ProcessSteps ==
  ASSUME ControlTypes, NEW w \in Workers,
         \/ Control!Pauses(w) \/ Control!Heartbeat(w) \/ Control!KeyExpires(w) \/ Control!Exit(w)
         \/ Control!StartWorker(w) \/ Control!Subscribe(w) \/ Control!Stop(w) \/ Control!Crash(w)
  PROVE  ControlTypes' /\ UNCHANGED <<halted, cancel>>
<1>0. /\ worker \in [Workers -> Control!Process] /\ worker[w] \in Control!Process
      /\ key \in [Workers -> {"none", "running", "paused", "stopped"}]
  BY DEF ControlTypes
<1>1. UNCHANGED <<halted, cancel>>
  BY DEF Control!Pauses, Control!Heartbeat, Control!KeyExpires, Control!Exit,
         Control!StartWorker, Control!Subscribe, Control!Stop, Control!Crash
<1>2. CASE Control!Pauses(w)
  <2>1. PICK S \in worker[w].waits :
          /\ worker[w].pc \in {"up", "stopping"}
          /\ Control!UpdateStatus(w, [worker[w] EXCEPT !.waits = @ \ {S}], "paused")
          /\ UNCHANGED <<queued, halted, channel, cancel>>
    BY <1>2 DEF Control!Pauses
  <2> DEFINE x == worker[w].waits \ {S}
             p == [worker[w] EXCEPT !.waits = x]
  <2>2. x \in SUBSET SUBSET Jobs
    BY <1>0, Processes
  <2>3. p \in Control!Process /\ p.pc = worker[w].pc
    <3> HIDE DEF x
    <3> QED BY <1>0, <2>2, Processes
  <2>4. Control!UpdateStatus(w, p, "paused")
    BY <2>1
  <2> HIDE DEF x, p
  <2>5. /\ worker' \in [Workers -> Control!Process] /\ worker'[w].pc = worker[w].pc
        /\ key' \in [Workers -> {"none", "running", "paused", "stopped"}]
        /\ \A v \in Workers \ {w} : worker'[v] = worker[v]
    BY <1>0, <2>3, <2>4, Updates
  <2> QED BY <1>1, <2>1, <2>5 DEF ControlTypes, Control!Active
<1>3. CASE Control!Heartbeat(w) \/ Control!KeyExpires(w)
  <2>1. worker[w].status \in {"running", "paused"}
    BY <1>0 DEF Control!Process
  <2>2. /\ \E s \in {"none", "running", "paused"} : key' = [key EXCEPT ![w] = s]
        /\ UNCHANGED <<queued, halted, worker, channel, cancel>>
    BY <1>3, <2>1 DEF Control!Heartbeat, Control!KeyExpires
  <2> QED BY <1>1, <2>2 DEF ControlTypes, Control!Active
<1>4. CASE Control!Exit(w) \/ Control!StartWorker(w)
  <2>1. PICK s \in {"down", "starting"} :
          /\ worker' = [worker EXCEPT ![w] = Control!Fresh(s)] /\ (s = "down" => Control!Active(w) = {})
          /\ UNCHANGED <<queued, halted, key, channel, cancel>>
    BY <1>4 DEF Control!Exit, Control!StartWorker
  <2>2. Control!Fresh(s) \in Control!Process /\ Control!Fresh(s).pc = s
    BY DEF Control!Fresh, Control!Process
  <2>3. worker' \in [Workers -> Control!Process] /\ worker'[w].pc = s /\ \A v \in Workers \ {w} : worker'[v] = worker[v]
    BY <1>0, <2>1, <2>2
  <2> QED BY <1>1, <2>1, <2>3 DEF ControlTypes, Control!Active
<1>5. CASE Control!Subscribe(w)
  <2> DEFINE p == [worker[w] EXCEPT !.pc = "up"]
  <2>1. p \in Control!Process /\ p.pc = "up"
    BY <1>0, Processes
  <2>2. /\ Control!UpdateStatus(w, p, "running") /\ UNCHANGED <<queued, halted, channel, cancel>>
    BY <1>5 DEF Control!Subscribe
  <2> HIDE DEF p
  <2>3. /\ worker' \in [Workers -> Control!Process] /\ worker'[w].pc = "up"
        /\ key' \in [Workers -> {"none", "running", "paused", "stopped"}]
        /\ \A v \in Workers \ {w} : worker'[v] = worker[v]
    BY <1>0, <2>1, <2>2, Updates
  <2> QED BY <1>1, <2>2, <2>3 DEF ControlTypes, Control!Active
<1>6. CASE Control!Stop(w)
  <2>1. /\ worker' = [worker EXCEPT ![w] = [@ EXCEPT !.pc = "stopping"]]
        /\ channel' = [channel EXCEPT ![w] = <<>>] /\ key' = [key EXCEPT ![w] = "stopped"]
        /\ UNCHANGED <<queued, halted, cancel>>
    BY <1>6 DEF Control!Stop
  <2> DEFINE p == [worker[w] EXCEPT !.pc = "stopping"]
  <2>2. p \in Control!Process /\ p.pc = "stopping"
    BY <1>0, Processes
  <2>3. worker' = [worker EXCEPT ![w] = p]
    BY <2>1
  <2> HIDE DEF p
  <2>4. worker' \in [Workers -> Control!Process] /\ worker'[w].pc = "stopping"
        /\ \A v \in Workers \ {w} : worker'[v] = worker[v]
    BY <1>0, <2>2, <2>3
  <2> QED BY <1>1, <2>1, <2>4 DEF ControlTypes, Control!Active
<1>7. CASE Control!Crash(w)
  <2>1. /\ worker' = [worker EXCEPT ![w] = Control!Fresh("down")] /\ channel' = [channel EXCEPT ![w] = <<>>]
        /\ queued' = [j \in Jobs |-> IF j \in Control!Active(w) THEN [queued[j] EXCEPT !.state = "ended"]
                                     ELSE queued[j]]
        /\ UNCHANGED <<halted, key, cancel>>
    BY <1>7 DEF Control!Crash
  <2>2. Control!Fresh("down") \in Control!Process
    BY DEF Control!Fresh, Control!Process
  <2>3. /\ queued' \in [Jobs -> JobRecords]
        /\ \A j \in Jobs : /\ queued'[j].queue = queued[j].queue
                           /\ queued'[j].state = IF j \in Control!Active(w) THEN "ended" ELSE queued[j].state
    <3>1. Control!Active(w) \in SUBSET Jobs
      BY DEF Control!Active
    <3> QED BY <2>1, <3>1, JobsMove DEF ControlTypes, Control!JobState
  <2>4. Control!Active(w)' = {} /\ \A v \in Workers : Control!Active(v)' \subseteq Control!Active(v)
    BY <2>3 DEF Control!Active
  <2>5. worker' \in [Workers -> Control!Process] /\ \A v \in Workers \ {w} : worker'[v] = worker[v]
    BY <1>0, <2>1, <2>2
  <2> QED BY <1>1, <2>1, <2>3, <2>4, <2>5 DEF ControlTypes
<1> QED BY <1>1, <1>2, <1>3, <1>4, <1>5, <1>6, <1>7

\* A job is added, taken or ends.
LEMMA QueueSteps ==
  ASSUME ControlTypes,
         \/ \E j \in Jobs : Control!AddJob(j) \/ Control!JobEnds(j)
         \/ \E w \in Workers : Control!TakeJob(w)
  PROVE  /\ ControlTypes' /\ UNCHANGED <<halted, worker, channel, cancel>>
         /\ \A j \in Jobs : /\ queued'[j].queue = queued[j].queue
                            /\ \/ queued'[j].state = queued[j].state
                               \/ queued[j].state = "new" /\ queued'[j].state = "waiting"
                               \/ queued'[j].state = "ended"
                               \/ /\ queued[j].state = "waiting" /\ queued[j].queue \notin halted
                                  /\ queued'[j].state = "active"
<1>1. UNCHANGED <<halted, worker, key, channel, cancel>>
  BY DEF Control!AddJob, Control!JobEnds, Control!TakeJob
<1>2. PICK j \in Jobs, s \in {"waiting", "active", "ended"} :
        /\ queued' = [queued EXCEPT ![j].state = s]
        /\ s = "waiting" => queued[j].state = "new"
        /\ s = "active" => /\ queued[j].state = "waiting" /\ queued[j].queue \notin halted
                           /\ worker[queued[j].queue].pc # "down"
  BY DEF Control!AddJob, Control!JobEnds, Control!TakeJob, Control!Waiting
<1>3. queued \in [Jobs -> JobRecords] /\ s \in Control!JobState
  BY DEF ControlTypes, Control!JobState
<1>4. /\ queued' \in [Jobs -> JobRecords] /\ queued'[j].queue = queued[j].queue /\ queued'[j].state = s
      /\ \A k \in Jobs \ {j} : queued'[k] = queued[k]
  BY <1>2, <1>3 DEF JobRecords
<1>5. \A w \in Workers : worker[w].pc = "down" => Control!Active(w)' = {}
  BY <1>2, <1>4 DEF ControlTypes, Control!Active
<1>6. ControlTypes'
  BY <1>1, <1>4, <1>5 DEF ControlTypes
<1> QED BY <1>1, <1>2, <1>4, <1>6

CancelStates == {"idle", "read", "states", "pause", "abort", "clear", "resume", "done"}

\* A cancel-all that goes on: with the next worker, or with the next loop
LEMMA Loops ==
  ASSUME NEW c \in Cancels, cancel[c] \in Control!Cancel, NEW w \in cancel[c].left, NEW goal \in CancelStates
  PROVE  /\ Control!Loop(c, w, goal) \in Control!Cancel
         /\ Control!Loop(c, w, goal).seen = cancel[c].seen
         /\ \/ /\ Control!Loop(c, w, goal).left = cancel[c].left \ {w}
               /\ Control!Loop(c, w, goal).pc = cancel[c].pc
            \/ /\ cancel[c].left \ {w} = {} /\ Control!Loop(c, w, goal).left = Workers
               /\ Control!Loop(c, w, goal).pc = goal
<1> DEFINE rest == cancel[c].left \ {w}
           others == IF rest = {} THEN Workers ELSE rest
           half == [cancel[c] EXCEPT !.left = others]
           pcs  == IF rest = {} THEN goal ELSE cancel[c].pc
<1>1. Control!Loop(c, w, goal) = [half EXCEPT !.pc = pcs]
  BY DEF Control!Loop
<1>2. others \in SUBSET Workers /\ pcs \in CancelStates
  BY DEF Control!Cancel, CancelStates
<1>3. half \in Control!Cancel /\ half.seen = cancel[c].seen /\ half.left = others
  <2>1. others \in SUBSET Workers
    BY <1>2
  <2> HIDE DEF others
  <2> QED BY <2>1 DEF Control!Cancel
<1>4. (rest = {} => others = Workers /\ pcs = goal) /\ (rest # {} => others = rest /\ pcs = cancel[c].pc)
  OBVIOUS
<1> HIDE DEF half, others, pcs
<1>5. /\ [half EXCEPT !.pc = pcs] \in Control!Cancel /\ [half EXCEPT !.pc = pcs].seen = half.seen
      /\ [half EXCEPT !.pc = pcs].left = half.left /\ [half EXCEPT !.pc = pcs].pc = pcs
  BY <1>2, <1>3 DEF Control!Cancel, CancelStates
<1> QED BY <1>1, <1>3, <1>4, <1>5

\* A cancel-all with other values of its fields
LEMMA Requests ==
  ASSUME NEW r \in Control!Cancel
  PROVE  /\ \A s \in CancelStates :
              /\ [r EXCEPT !.pc = s] \in Control!Cancel /\ [r EXCEPT !.pc = s].pc = s
              /\ [r EXCEPT !.pc = s].left = r.left /\ [r EXCEPT !.pc = s].seen = r.seen
         /\ \A x \in SUBSET Workers :
              /\ [r EXCEPT !.halted = x] \in Control!Cancel /\ [r EXCEPT !.halted = x].pc = r.pc
              /\ [r EXCEPT !.halted = x].left = r.left /\ [r EXCEPT !.halted = x].seen = r.seen
         /\ \A x \in SUBSET Workers :
              /\ [r EXCEPT !.running = x] \in Control!Cancel /\ [r EXCEPT !.running = x].pc = r.pc
              /\ [r EXCEPT !.running = x].left = r.left /\ [r EXCEPT !.running = x].seen = r.seen
         /\ \A x \in SUBSET Jobs :
              /\ [r EXCEPT !.seen = x] \in Control!Cancel /\ [r EXCEPT !.seen = x].pc = r.pc
              /\ [r EXCEPT !.seen = x].left = r.left /\ [r EXCEPT !.seen = x].seen = x
         /\ r.halted \in SUBSET Workers /\ r.seen \in SUBSET Jobs /\ r.left \in SUBSET Workers
         /\ r.pc \in CancelStates
BY DEF Control!Cancel, CancelStates

Cancelled == {"aborted", "ended", "removed"}

\* cancel-active is on its way to the worker.
Told(w) == \E i \in 1 .. Len(channel[w]) : channel[w][i] = "cancel-active"

\* How far a cancel-all has come: the queues it has been to stay paused, and
\* every job it has seen waits in one, hears of the abort, or is over.
Reaching(c) ==
  /\ cancel[c].pc \in {"idle", "read", "states"} => cancel[c].seen = {}
  /\ cancel[c].pc \in {"states", "abort"} => cancel[c].left = Workers
  /\ \A j \in cancel[c].seen : queued[j].state # "new"
  /\ cancel[c].pc = "pause" => Workers \ cancel[c].left \subseteq halted
  /\ cancel[c].pc \in {"abort", "clear"} => halted = Workers
  /\ cancel[c].pc = "clear" =>
       \A j \in cancel[c].seen :
         \/ queued[j].state \in Cancelled
         \/ queued[j].queue \in cancel[c].left /\ (queued[j].state = "waiting" \/ Told(queued[j].queue))
  /\ cancel[c].pc \in {"resume", "done"} => \A j \in cancel[c].seen : queued[j].state \in Cancelled

\* What workers and queues do meanwhile: a job is taken from a queue that is
\* not paused only, and cancel-active is heard by aborting what is active.
LEMMA Meanwhile ==
  ASSUME ControlTypes, NEW c \in Cancels, Reaching(c), UNCHANGED <<halted, cancel>>,
         \A j \in Jobs :
           /\ queued'[j].queue = queued[j].queue
           /\ \/ queued'[j].state = queued[j].state
              \/ queued[j].state = "new"
              \/ queued'[j].state \in Cancelled
              \/ queued[j].state = "waiting" /\ queued[j].queue \notin halted /\ queued'[j].state = "active",
         \A w \in Workers : Told(w) =>
           \/ Told(w)'
           \/ \A j \in Jobs : queued[j].queue = w => queued'[j].state \in Cancelled \cup {"waiting", "new"}
  PROVE  Reaching(c)'
<1>1. cancel[c].seen \in SUBSET Jobs /\ \A j \in Jobs : queued[j].queue \in Workers
  BY DEF ControlTypes, Control!Cancel, JobRecords
<1>2. \A j \in cancel[c].seen : queued'[j].state # "new"
  BY <1>1 DEF Reaching, Cancelled
<1>3. ASSUME cancel[c].pc = "clear", NEW j \in cancel[c].seen
      PROVE  \/ queued'[j].state \in Cancelled
             \/ queued'[j].queue \in cancel[c].left /\ (queued'[j].state = "waiting" \/ Told(queued[j].queue)')
  <2>1. halted = Workers /\ j \in Jobs /\ queued[j].state # "new" /\ queued[j].queue \in Workers
    BY <1>1, <1>3 DEF Reaching
  <2>2. CASE queued[j].state \in Cancelled
    BY <2>1, <2>2 DEF Cancelled
  <2>3. CASE queued[j].queue \in cancel[c].left /\ queued[j].state = "waiting"
    BY <2>1, <2>3
  <2>4. CASE queued[j].queue \in cancel[c].left /\ Told(queued[j].queue)
    BY <1>2, <2>1, <2>4
  <2> QED BY <1>3, <2>2, <2>3, <2>4 DEF Reaching
<1>4. cancel[c].pc \in {"resume", "done"} => \A j \in cancel[c].seen : queued'[j].state \in Cancelled
  BY <1>1 DEF Reaching, Cancelled
<1>5. \A j \in cancel[c].seen : queued'[j].queue = queued[j].queue
  BY <1>1
<1> QED BY <1>2, <1>3, <1>4, <1>5 DEF Reaching

AllUp == \A w \in Workers : worker[w].pc = "up"

\* A cancel-all reads, pauses and aborts.
LEMMA CancelReads ==
  ASSUME ControlTypes, NEW c \in Cancels,
         \/ Control!StartCancel(c) \/ Control!ReadStates(c) \/ Control!AbortActive(c)
         \/ \E w \in Workers : Control!ReadPaused(c, w)
  PROVE  /\ ControlTypes' /\ UNCHANGED <<queued, halted, worker>>
         /\ AllUp /\ Reaching(c) => Reaching(c)'
<1>0. cancel[c] \in Control!Cancel /\ cancel \in [Cancels -> Control!Cancel]
  BY DEF ControlTypes
<1>1. UNCHANGED <<queued, halted, worker, key>>
  BY DEF Control!StartCancel, Control!ReadStates, Control!AbortActive, Control!ReadPaused
<1>2. ASSUME NEW r \in Control!Cancel, cancel' = [cancel EXCEPT ![c] = r], channel' \in [Workers -> Seq(Control!Messages)]
      PROVE  ControlTypes' /\ cancel'[c] = r
  BY <1>0, <1>1, <1>2 DEF ControlTypes, Control!Active
<1>3. CASE Control!StartCancel(c)
  <2> DEFINE r == [Control!NoCancel EXCEPT !.pc = "read", !.left = Workers]
  <2>1. r \in Control!Cancel /\ r.pc = "read" /\ r.seen = {}
    BY DEF Control!NoCancel, Control!Cancel
  <2>2. cancel' = [cancel EXCEPT ![c] = r] /\ channel' = channel
    BY <1>3 DEF Control!StartCancel
  <2> HIDE DEF r
  <2>3. ControlTypes' /\ cancel'[c] = r
    BY <1>2, <2>1, <2>2 DEF ControlTypes
  <2>4. Reaching(c)'
    BY <2>1, <2>3 DEF Reaching
  <2> QED BY <1>1, <2>3, <2>4
<1>4. CASE \E w \in Workers : Control!ReadPaused(c, w)
  <2>1. PICK w \in Workers : Control!ReadPaused(c, w)
    BY <1>4
  <2> DEFINE l == Control!Loop(c, w, "states")
             x == l.halted \cup ({w} \cap halted)
             r == [l EXCEPT !.halted = x]
  <2>2. /\ cancel[c].pc = "read" /\ w \in cancel[c].left /\ channel' = channel
        /\ cancel' = [cancel EXCEPT ![c] = r]
    BY <2>1 DEF Control!ReadPaused, Control!At
  <2>3. /\ l \in Control!Cancel /\ l.seen = cancel[c].seen
        /\ l.pc = "read" \/ (l.pc = "states" /\ l.left = Workers)
    BY <1>0, <2>2, Loops DEF CancelStates
  <2> HIDE DEF l
  <2>4. x \in SUBSET Workers
    BY <2>3, Requests
  <2> HIDE DEF x
  <2>5. r \in Control!Cancel /\ r.pc = l.pc /\ r.left = l.left /\ r.seen = l.seen
    BY <2>3, <2>4, Requests
  <2> HIDE DEF r
  <2>6. ControlTypes' /\ cancel'[c] = r
    BY <1>2, <2>2, <2>5 DEF ControlTypes
  <2>7. Reaching(c) => Reaching(c)'
    BY <2>2, <2>3, <2>5, <2>6 DEF Reaching
  <2> QED BY <1>1, <2>6, <2>7
<1>5. CASE Control!ReadStates(c)
  <2> DEFINE x == {w \in Workers : key[w] = "running"}
             half == [cancel[c] EXCEPT !.pc = "pause"]
             r == [half EXCEPT !.running = x]
  <2>1. /\ cancel[c].pc = "states" /\ channel' = channel
        /\ cancel' = [cancel EXCEPT ![c].pc = "pause", ![c].running = x]
    BY <1>5 DEF Control!ReadStates
  <2>2. half \in Control!Cancel /\ half.pc = "pause" /\ half.left = cancel[c].left /\ half.seen = cancel[c].seen
    BY <1>0, Requests DEF CancelStates
  <2>3. cancel' = [cancel EXCEPT ![c] = r]
    <3> HIDE DEF x
    <3> QED BY <1>0, <2>1
  <2>4. x \in SUBSET Workers
    OBVIOUS
  <2> HIDE DEF half, x
  <2>5. r \in Control!Cancel /\ r.pc = half.pc /\ r.left = half.left /\ r.seen = half.seen
    BY <2>2, <2>4, Requests
  <2> HIDE DEF r
  <2>6. ControlTypes' /\ cancel'[c] = r
    BY <1>2, <2>1, <2>3, <2>5 DEF ControlTypes
  <2>7. Reaching(c) => Reaching(c)'
    BY <2>1, <2>2, <2>5, <2>6 DEF Reaching
  <2> QED BY <1>1, <2>6, <2>7
<1>6. CASE Control!AbortActive(c)
  <2> DEFINE r == [cancel[c] EXCEPT !.pc = "clear"]
  <2>1. /\ cancel[c].pc = "abort" /\ cancel' = [cancel EXCEPT ![c] = r]
        /\ Control!Publish(Workers, "cancel-active")
    BY <1>6 DEF Control!AbortActive
  <2>2. r \in Control!Cancel /\ r.pc = "clear" /\ r.left = cancel[c].left /\ r.seen = cancel[c].seen
    BY <1>0, Requests DEF CancelStates
  <2> HIDE DEF r
  <2>3. /\ channel' \in [Workers -> Seq(Control!Messages)]
        /\ \A w \in Workers : worker[w].pc = "up" => channel'[w] = Append(channel[w], "cancel-active")
    BY <2>1, Published DEF ControlTypes, Control!Messages
  <2>4. ControlTypes' /\ cancel'[c] = r
    BY <1>2, <2>1, <2>2, <2>3
  <2>5. ASSUME NEW w \in Workers, worker[w].pc = "up" PROVE Told(w)'
    <3>1. channel[w] \in Seq(Control!Messages) /\ channel'[w] = Append(channel[w], "cancel-active")
      BY <2>3, <2>5 DEF ControlTypes
    <3>2. /\ Len(channel'[w]) = Len(channel[w]) + 1 /\ channel'[w][Len(channel[w]) + 1] = "cancel-active"
          /\ Len(channel[w]) + 1 \in 1 .. Len(channel'[w])
      BY <3>1
    <3> QED BY <3>2 DEF Told
  <2>6. cancel[c].seen \in SUBSET Jobs /\ \A j \in Jobs : queued[j].queue \in Workers
    BY <1>0, Requests DEF ControlTypes, JobRecords
  <2>7. AllUp /\ Reaching(c) => Reaching(c)'
    BY <1>1, <2>1, <2>2, <2>4, <2>5, <2>6 DEF Reaching, AllUp
  <2> QED BY <1>1, <2>4, <2>7
<1> QED BY <1>3, <1>4, <1>5, <1>6

\* A cancel-all pauses a queue, clears it or resumes it.
LEMMA CancelLoops ==
  ASSUME ControlTypes, NEW c \in Cancels, NEW w \in Workers,
         Control!PauseAll(c, w) \/ Control!ClearQueue(c, w) \/ Control!ResumeAll(c, w)
  PROVE  /\ ControlTypes' /\ UNCHANGED worker
         /\ Reaching(c) => Reaching(c)'
<1>0. cancel[c] \in Control!Cancel /\ cancel \in [Cancels -> Control!Cancel] /\ queued \in [Jobs -> JobRecords]
  BY DEF ControlTypes
<1>1. UNCHANGED <<worker, key>>
  BY DEF Control!PauseAll, Control!ClearQueue, Control!ResumeAll
<1>2. \A j \in Jobs : queued[j].queue \in Workers
  BY DEF ControlTypes, JobRecords
<1>3. CASE Control!PauseAll(c, w)
  <2> DEFINE l == Control!Loop(c, w, "abort")
             x == l.seen \cup Control!Waiting(w) \cup Control!Active(w)
             r == [l EXCEPT !.seen = x]
  <2>1. /\ cancel[c].pc = "pause" /\ w \in cancel[c].left /\ halted' = halted \cup {w} /\ queued' = queued
        /\ Control!Publish({w} \cap cancel[c].running, "pause")
        /\ cancel' = [cancel EXCEPT ![c] = r]
    BY <1>3 DEF Control!PauseAll, Control!At
  <2>2. /\ l \in Control!Cancel /\ l.seen = cancel[c].seen
        /\ \/ l.left = cancel[c].left \ {w} /\ l.pc = "pause"
           \/ cancel[c].left \ {w} = {} /\ l.left = Workers /\ l.pc = "abort"
    BY <1>0, <2>1, Loops DEF CancelStates
  <2> HIDE DEF l
  <2>3. x \in SUBSET Jobs
    BY <2>2, Requests DEF Control!Waiting, Control!Active
  <2>4. \A j \in x : j \in cancel[c].seen \/ queued[j].state # "new"
    BY <2>2 DEF Control!Waiting, Control!Active
  <2> HIDE DEF x
  <2>5. r \in Control!Cancel /\ r.pc = l.pc /\ r.left = l.left /\ r.seen = x
    BY <2>2, <2>3, Requests
  <2> HIDE DEF r
  <2>6. cancel'[c] = r /\ cancel' \in [Cancels -> Control!Cancel]
    BY <1>0, <2>1, <2>5
  <2>7. channel' \in [Workers -> Seq(Control!Messages)]
    BY <2>1, Published DEF ControlTypes, Control!Messages
  <2>8. ControlTypes'
    BY <1>1, <2>1, <2>6, <2>7 DEF ControlTypes, Control!Active
  <2>9. Reaching(c) => Reaching(c)'
    <3> SUFFICES ASSUME Reaching(c) PROVE Reaching(c)'
      OBVIOUS
    <3>1. \A j \in cancel'[c].seen : queued'[j].state # "new"
      BY <2>1, <2>4, <2>5, <2>6 DEF Reaching
    <3>2. halted \subseteq Workers /\ Workers \ cancel[c].left \subseteq halted
      BY <2>1 DEF Reaching, ControlTypes
    <3> QED BY <2>1, <2>2, <2>5, <2>6, <3>1, <3>2 DEF Reaching
  <2> QED BY <1>1, <2>8, <2>9
<1>4. CASE Control!ClearQueue(c, w)
  <2> DEFINE r == Control!Loop(c, w, "resume")
  <2>1. /\ cancel[c].pc = "clear" /\ w \in cancel[c].left
        /\ Control!Active(w) = {} \/ channel[w] = <<>>
        /\ queued' = [j \in Jobs |-> IF j \in Control!Waiting(w) THEN [queued[j] EXCEPT !.state = "removed"]
                                     ELSE queued[j]]
        /\ cancel' = [cancel EXCEPT ![c] = r]
        /\ UNCHANGED <<halted, channel>>
    BY <1>4 DEF Control!ClearQueue, Control!At
  <2>2. /\ r \in Control!Cancel /\ r.seen = cancel[c].seen
        /\ \/ r.left = cancel[c].left \ {w} /\ r.pc = "clear"
           \/ cancel[c].left \ {w} = {} /\ r.left = Workers /\ r.pc = "resume"
    BY <1>0, <2>1, Loops DEF CancelStates
  <2> HIDE DEF r
  <2>3. cancel'[c] = r /\ cancel' \in [Cancels -> Control!Cancel]
    BY <1>0, <2>1, <2>2
  <2>4. /\ queued' \in [Jobs -> JobRecords]
        /\ \A j \in Jobs : /\ queued'[j].queue = queued[j].queue
                           /\ queued'[j].state = IF j \in Control!Waiting(w) THEN "removed" ELSE queued[j].state
    <3>1. Control!Waiting(w) \in SUBSET Jobs
      BY DEF Control!Waiting
    <3> QED BY <1>0, <2>1, <3>1, JobsMove DEF Control!JobState
  <2>5. \A v \in Workers : Control!Active(v)' \subseteq Control!Active(v)
    BY <2>4 DEF Control!Active
  <2>6. ControlTypes'
    BY <1>1, <2>1, <2>3, <2>4, <2>5 DEF ControlTypes
  <2>7. Reaching(c) => Reaching(c)'
    <3> SUFFICES ASSUME Reaching(c) PROVE Reaching(c)'
      OBVIOUS
    <3>1. cancel[c].seen \in SUBSET Jobs
      BY <1>0, Requests
    <3>2. ASSUME NEW j \in cancel[c].seen, queued[j].queue = w
          PROVE  queued'[j].state \in Cancelled
      <4>1. \/ queued[j].state \in Cancelled \/ queued[j].state = "waiting" \/ Told(w)
        BY <2>1, <3>2 DEF Reaching
      <4>2. CASE queued[j].state = "waiting"
        BY <2>4, <3>1, <3>2, <4>2 DEF Control!Waiting, Cancelled
      <4>3. CASE queued[j].state \in Cancelled
        BY <2>4, <3>1, <3>2, <4>3 DEF Cancelled
      <4>4. CASE Told(w) /\ queued[j].state \notin Cancelled /\ queued[j].state # "waiting"
        <5>1. Control!Active(w) = {}
          BY <2>1, <4>4 DEF Told
        <5>2. queued[j].state # "new" /\ queued[j].state \in Control!JobState
          BY <1>0, <3>1 DEF Reaching, JobRecords
        <5> QED BY <3>1, <3>2, <4>4, <5>1, <5>2 DEF Control!Active, Control!JobState, Cancelled
      <4> QED BY <4>1, <4>2, <4>3, <4>4
    <3>3. ASSUME NEW j \in cancel[c].seen, queued[j].queue # w
          PROVE  /\ queued'[j] .state = queued[j].state /\ queued'[j].queue = queued[j].queue
                 /\ \/ queued[j].state \in Cancelled
                    \/ /\ queued[j].queue \in cancel[c].left \ {w}
                       /\ queued[j].state = "waiting" \/ Told(queued[j].queue)'
      BY <2>1, <2>4, <3>1, <3>3 DEF Reaching, Control!Waiting, Told
    <3>4. \A j \in cancel[c].seen : queued'[j].state # "new"
      BY <3>2, <3>3 DEF Reaching, Cancelled
    <3> QED BY <2>1, <2>2, <2>3, <3>2, <3>3, <3>4 DEF Reaching
  <2> QED BY <1>1, <2>6, <2>7
<1>5. CASE Control!ResumeAll(c, w)
  <2> DEFINE r == Control!Loop(c, w, "done")
  <2>1. /\ cancel[c].pc = "resume" /\ w \in cancel[c].left /\ halted' \subseteq halted /\ queued' = queued
        /\ Control!Publish({w} \cap cancel[c].running, "resume")
        /\ cancel' = [cancel EXCEPT ![c] = r]
    BY <1>5 DEF Control!ResumeAll, Control!At
  <2>2. /\ r \in Control!Cancel /\ r.seen = cancel[c].seen /\ r.pc \in {"resume", "done"}
    BY <1>0, <2>1, Loops DEF CancelStates
  <2> HIDE DEF r
  <2>3. cancel'[c] = r /\ cancel' \in [Cancels -> Control!Cancel]
    BY <1>0, <2>1, <2>2
  <2>4. channel' \in [Workers -> Seq(Control!Messages)]
    BY <2>1, Published DEF ControlTypes, Control!Messages
  <2>5. ControlTypes'
    BY <1>1, <2>1, <2>3, <2>4 DEF ControlTypes, Control!Active
  <2>6. Reaching(c) => Reaching(c)'
    BY <2>1, <2>2, <2>3 DEF Reaching
  <2> QED BY <1>1, <2>5, <2>6
<1> QED BY <1>3, <1>4, <1>5

LEMMA Clicks ==
  ASSUME ControlTypes, NEW w \in Workers, Control!Click(w)
  PROVE  /\ ControlTypes' /\ UNCHANGED <<queued, halted, worker, cancel>>
         /\ \A v \in Workers : Told(v) => Told(v)'
<1>1. UNCHANGED <<queued, halted, worker, key, cancel>>
  BY DEF Control!Click
<1>2. PICK m \in Control!Messages : Control!Publish({w}, m)
  BY DEF Control!Click, Control!Messages
<1>3. /\ channel' \in [Workers -> Seq(Control!Messages)]
      /\ \A v \in Workers : channel'[v] = channel[v] \/ channel'[v] = Append(channel[v], m)
  BY <1>2, Published DEF ControlTypes
<1>4. ControlTypes'
  BY <1>1, <1>3 DEF ControlTypes, Control!Active
<1>5. ASSUME NEW v \in Workers, Told(v) PROVE Told(v)'
  <2>1. channel[v] \in Seq(Control!Messages)
    BY DEF ControlTypes
  <2>2. CASE channel'[v] = channel[v]
    BY <1>5, <2>2 DEF Told
  <2>3. CASE channel'[v] = Append(channel[v], m)
    <3>1. PICK i \in 1 .. Len(channel[v]) : channel[v][i] = "cancel-active"
      BY <1>5 DEF Told
    <3>2. i \in 1 .. Len(channel'[v]) /\ channel'[v][i] = "cancel-active"
      BY <2>1, <2>3, <3>1
    <3> QED BY <3>2 DEF Told
  <2> QED BY <1>3, <2>2, <2>3
<1> QED BY <1>1, <1>4, <1>5

\* The types are kept by every step, with any number of cancel-alls and restarts.
LEMMA ControlTypeStep ==
  ASSUME ControlTypes, [Control!Next]_Control!vars
  PROVE  ControlTypes'
<1>1. ASSUME NEW w \in Workers,
             Control!WorkerNext(w) \/ Control!KeyExpires(w) \/ Control!Crash(w) \/ Control!Stop(w) \/ Control!Click(w)
      PROVE  ControlTypes'
  BY <1>1, Hears, ProcessSteps, QueueSteps, Clicks DEF Control!WorkerNext
<1>2. ASSUME NEW c \in Cancels, Control!StartCancel(c) \/ Control!CancelNext(c)
      PROVE  ControlTypes'
  BY <1>2, CancelReads, CancelLoops DEF Control!CancelNext
<1>3. CASE \E j \in Jobs : Control!AddJob(j) \/ Control!JobEnds(j)
  BY <1>3, QueueSteps
<1>4. CASE UNCHANGED Control!vars
  BY <1>4 DEF Control!vars, ControlTypes, Control!Active
<1> QED BY <1>1, <1>2, <1>3, <1>4 DEF Control!Next

\* The invariant of a single cancel-all among workers that stay up
ControlInv == ControlTypes /\ restarts = 0 /\ AllUp /\ \A c \in Cancels : Reaching(c)

LEMMA ControlStep ==
  ASSUME \A c, d \in Cancels : c = d, MaxRestarts = 0, ControlInv, [Control!Next]_Control!vars
  PROVE  ControlInv'
<1>0. ControlTypes /\ restarts = 0 /\ AllUp /\ \A c \in Cancels : Reaching(c)
  BY DEF ControlInv
<1>1. ControlTypes'
  BY <1>0, ControlTypeStep
<1>2. ASSUME NEW w \in Workers PROVE ~ Control!Crash(w) /\ ~ Control!Stop(w)
  BY <1>0 DEF Control!Crash, Control!Stop, Control!Restart
<1>3. ASSUME UNCHANGED <<worker, restarts>>, \A c \in Cancels : Reaching(c)'
      PROVE  ControlInv'
  BY <1>0, <1>1, <1>3 DEF ControlInv, AllUp
<1>4. ASSUME NEW w \in Workers, Control!Hear(w)
      PROVE  ControlInv'
  <2>1. /\ \A v \in Workers : worker'[v].pc = worker[v].pc
        /\ channel'[w] = Tail(channel[w]) /\ channel[w] # <<>>
        /\ \A v \in Workers \ {w} : channel'[v] = channel[v]
        /\ \/ Head(channel[w]) # "cancel-active" /\ queued' = queued
           \/ queued' = [j \in Jobs |-> IF j \in Control!Active(w) THEN [queued[j] EXCEPT !.state = "aborted"]
                                        ELSE queued[j]]
        /\ UNCHANGED <<halted, cancel>>
    BY <1>0, <1>4, Hears
  <2>2. restarts' = restarts
    BY <1>4 DEF Control!Hear
  <2>3. CASE Head(channel[w]) # "cancel-active" /\ queued' = queued
    <3>1. Told(w) => Told(w)'
      <4>1. channel[w] \in Seq(Control!Messages)
        BY <1>0 DEF ControlTypes
      <4>2. ASSUME NEW i \in 1 .. Len(channel[w]), channel[w][i] = "cancel-active"
            PROVE  i - 1 \in 1 .. Len(channel'[w]) /\ channel'[w][i - 1] = "cancel-active"
        BY <2>1, <2>3, <4>1, <4>2
      <4> QED BY <4>2 DEF Told
    <3>2. \A v \in Workers : Told(v) => Told(v)'
      BY <2>1, <3>1 DEF Told
    <3>3. \A c \in Cancels : Reaching(c)'
      BY <1>0, <2>1, <2>3, <3>2, Meanwhile
    <3> QED BY <1>0, <1>1, <2>1, <2>2, <3>3 DEF ControlInv, AllUp
  <2>4. CASE queued' = [j \in Jobs |-> IF j \in Control!Active(w) THEN [queued[j] EXCEPT !.state = "aborted"]
                                       ELSE queued[j]]
    <3>1. \A j \in Jobs : /\ queued'[j].queue = queued[j].queue
                          /\ queued'[j].state = IF j \in Control!Active(w) THEN "aborted" ELSE queued[j].state
      <4>1. Control!Active(w) \in SUBSET Jobs
        BY DEF Control!Active
      <4> QED BY <1>0, <2>4, <4>1, JobsMove DEF ControlTypes, Control!JobState
    <3>2. \A v \in Workers \ {w} : Told(v) => Told(v)'
      BY <2>1 DEF Told
    <3>3. ASSUME NEW j \in Jobs, queued[j].queue = w
          PROVE  queued'[j].state \in Cancelled \cup {"waiting", "new"}
      <4>1. queued[j].state \in Control!JobState
        BY <1>0 DEF ControlTypes, JobRecords
      <4> QED BY <3>1, <3>3, <4>1 DEF Control!Active, Control!JobState, Cancelled
    <3>4. \A j \in Jobs : queued'[j].state = queued[j].state \/ queued'[j].state \in Cancelled
      BY <3>1 DEF Cancelled
    <3>5. \A c \in Cancels : Reaching(c)'
      BY <1>0, <2>1, <3>1, <3>2, <3>3, <3>4, Meanwhile
    <3> QED BY <1>0, <1>1, <2>1, <2>2, <3>5 DEF ControlInv, AllUp
  <2> QED BY <2>1, <2>3, <2>4
<1>5. ASSUME NEW w \in Workers,
             \/ Control!Pauses(w) \/ Control!Heartbeat(w) \/ Control!KeyExpires(w)
             \/ Control!Exit(w) \/ Control!StartWorker(w) \/ Control!Subscribe(w)
      PROVE  ControlInv'
  <2>1. ~ Control!Exit(w) /\ ~ Control!StartWorker(w) /\ ~ Control!Subscribe(w)
    BY <1>0 DEF AllUp, Control!Exit, Control!StartWorker, Control!Subscribe
  <2>2. UNCHANGED <<queued, halted, channel, cancel, restarts>>
    BY <1>5, <2>1 DEF Control!Pauses, Control!Heartbeat, Control!KeyExpires
  <2>3. \A c \in Cancels : Reaching(c)'
    BY <1>0, <2>2 DEF Reaching, Told
  <2>4. \A v \in Workers : worker'[v].pc = "up"
    <3>1. CASE Control!Heartbeat(w) \/ Control!KeyExpires(w)
      BY <1>0, <3>1 DEF AllUp, Control!Heartbeat, Control!KeyExpires
    <3>2. CASE Control!Pauses(w)
      <4>1. worker \in [Workers -> Control!Process]
        BY <1>0 DEF ControlTypes
      <4>2. PICK S \in worker[w].waits : Control!UpdateStatus(w, [worker[w] EXCEPT !.waits = @ \ {S}], "paused")
        BY <3>2 DEF Control!Pauses
      <4>3. worker' = [worker EXCEPT ![w] = [[worker[w] EXCEPT !.waits = @ \ {S}] EXCEPT !.status = "paused"]]
        BY <4>2 DEF Control!UpdateStatus
      <4>4. [[worker[w] EXCEPT !.waits = @ \ {S}] EXCEPT !.status = "paused"].pc = worker[w].pc
        BY <4>1 DEF Control!Process
      <4> QED BY <1>0, <4>1, <4>3, <4>4 DEF AllUp
    <3> QED BY <1>5, <2>1, <3>1, <3>2
  <2> QED BY <1>0, <1>1, <2>2, <2>3, <2>4 DEF ControlInv, AllUp
<1>6. CASE \/ \E j \in Jobs : Control!AddJob(j) \/ Control!JobEnds(j)
           \/ \E w \in Workers : Control!TakeJob(w)
  <2>1. UNCHANGED restarts
    BY <1>6 DEF Control!AddJob, Control!JobEnds, Control!TakeJob
  <2>2. \A v \in Workers : Told(v) => Told(v)'
    BY <1>0, <1>6, QueueSteps DEF Told
  <2>3. \A c \in Cancels : Reaching(c)'
    <3>1. "ended" \in Cancelled
      BY DEF Cancelled
    <3> QED BY <1>0, <1>6, <2>2, <3>1, QueueSteps, Meanwhile
  <2> QED BY <1>0, <1>3, <1>6, <2>1, <2>3, QueueSteps
<1>7. ASSUME NEW w \in Workers, Control!Click(w)
      PROVE  ControlInv'
  <2>1. UNCHANGED restarts
    BY <1>7 DEF Control!Click
  <2>2. \A c \in Cancels : Reaching(c)'
    BY <1>0, <1>7, Clicks, Meanwhile
  <2> QED BY <1>0, <1>3, <1>7, <2>1, <2>2, Clicks
<1>8. ASSUME NEW c \in Cancels, Control!StartCancel(c) \/ Control!CancelNext(c)
      PROVE  ControlInv'
  <2>1. UNCHANGED restarts
    BY <1>8 DEF Control!StartCancel, Control!CancelNext, Control!ReadStates, Control!AbortActive,
                Control!ReadPaused, Control!PauseAll, Control!ClearQueue, Control!ResumeAll
  <2>2. Reaching(c)' /\ UNCHANGED worker
    BY <1>0, <1>8, CancelReads, CancelLoops DEF Control!CancelNext
  <2>3. \A d \in Cancels : Reaching(d)'
    BY <2>2
  <2> QED BY <1>3, <2>1, <2>2, <2>3
<1>9. CASE UNCHANGED Control!vars
  <2>1. UNCHANGED <<queued, halted, worker, channel, cancel, restarts>>
    BY <1>9 DEF Control!vars
  <2>2. \A c \in Cancels : Reaching(c)'
    BY <1>0, <2>1 DEF Reaching, Told
  <2> QED BY <1>3, <2>1, <2>2
<1> QED BY <1>2, <1>4, <1>5, <1>6, <1>7, <1>8, <1>9 DEF Control!Next, Control!WorkerNext

LEMMA ControlInit ==
  ASSUME Control!Init
  PROVE  ControlInv
<1>1. Control!Fresh("up") \in Control!Process /\ Control!Fresh("up").pc = "up"
  BY DEF Control!Fresh, Control!Process
<1>2. /\ Control!NoCancel \in Control!Cancel /\ Control!NoCancel.pc = "idle" /\ Control!NoCancel.seen = {}
  BY DEF Control!NoCancel, Control!Cancel
<1>3. queued \in [Jobs -> JobRecords]
  BY DEF Control!Init, JobRecords, Control!JobState
<1>4. /\ worker \in [Workers -> Control!Process] /\ AllUp
      /\ cancel \in [Cancels -> Control!Cancel]
      /\ \A c \in Cancels : cancel[c] = Control!NoCancel
  BY <1>1, <1>2 DEF Control!Init, AllUp
<1>5. channel \in [Workers -> Seq(Control!Messages)]
  BY DEF Control!Init
<1>6. ControlTypes
  BY <1>3, <1>4, <1>5 DEF Control!Init, ControlTypes, AllUp
<1>7. \A c \in Cancels : Reaching(c)
  BY <1>2, <1>4 DEF Reaching
<1> QED BY <1>4, <1>6, <1>7 DEF Control!Init, ControlInv

\* When a single cancel-all resumes the queues, every job it has found is
\* removed, has ended or has been aborted, whatever the workers take, are told
\* or finish meanwhile, as long as none of them starts again: one that takes
\* jobs before it has subscribed misses the message.
THEOREM CancelReaches ==
  ASSUME \A c, d \in Cancels : c = d, MaxRestarts = 0
  PROVE  Control!Spec => []CancelReachesAll
<1>1. ControlInv => CancelReachesAll
  BY DEF ControlInv, Reaching, Cancelled, CancelReachesAll, Control!CancelReachesAll
<1>2. Control!Init => ControlInv
  BY ControlInit
<1>3. ControlInv /\ [Control!Next]_Control!vars => ControlInv'
  BY ControlStep
<1> QED BY <1>1, <1>2, <1>3, PTL DEF Control!Spec

---------------------------------------------------------------------------
(* The parts together: in MCWorkers each moves as its own specification says. *)

LEMMA EachMoves ==
  ASSUME PartNext \/ UNCHANGED allVars
  PROVE  [Next]_vars /\ [Tasks!Next]_Tasks!vars /\ [Durations!Next]_Durations!vars /\ [Control!Next]_Control!vars
BY DEF PartNext, allVars, taskVars, durationVars, controlVars, vars, Tasks!vars, Durations!vars, Control!vars

LEMMA EachSpec == PartSpec => Spec /\ Tasks!Spec /\ Durations!Spec /\ Control!Spec
<1>1. PartInit => Init /\ Tasks!Init /\ Durations!Init /\ Control!Init
  BY DEF PartInit
<1>2. [PartNext]_allVars =>
        [Next]_vars /\ [Tasks!Next]_Tasks!vars /\ [Durations!Next]_Durations!vars /\ [Control!Next]_Control!vars
  BY EachMoves
<1> QED BY <1>1, <1>2, PTL DEF PartSpec, Spec, Tasks!Spec, Durations!Spec, Control!Spec

\* The bounds of the runs
LEMMA FaultsBounded ==
  ASSUME MaxDurationFaults \in Nat
  PROVE  Durations!Spec => [](durationFaults \in 0 .. MaxDurationFaults)
<1> DEFINE B == durationFaults \in 0 .. MaxDurationFaults
<1>1. Durations!Init => B
  BY DEF Durations!Init
<1>2. B /\ [Durations!Next]_Durations!vars => B'
  <2>1. ASSUME B, Durations!Next PROVE B'
    <3>1. durationFaults' = durationFaults \/ Durations!Fault
      BY <2>1 DEF Durations!Next, Durations!ImportStep, Durations!Request, Durations!Resume, Durations!RecordStart,
           Durations!FailDeploy, Durations!WriteStatus, Durations!RecordDeploy, Durations!CompleteDeploy,
           Durations!Customize, Durations!FailCustom, Durations!WriteCustom, Durations!RecordCustom,
           Durations!CompleteCustom, Durations!Apply, Durations!Remove, Durations!ForgetJobs,
           Durations!StartImport, Durations!ReadQueue, Durations!EndImport, Durations!FailImport,
           Durations!Upsert, Durations!Swallowed, Durations!SetRow
    <3> QED BY <2>1, <3>1 DEF Durations!Fault
  <2>2. ASSUME B, UNCHANGED Durations!vars PROVE B'
    BY <2>2 DEF Durations!vars
  <2> QED BY <2>1, <2>2
<1> HIDE DEF B
<1>3. Durations!Spec => []B
  BY <1>1, <1>2, PTL DEF Durations!Spec
<1> QED BY <1>3 DEF B

LEMMA ControlBounded ==
  ASSUME MaxClicks \in Nat, MaxRestarts \in Nat
  PROVE  Control!Spec => [](clicks \in 0 .. MaxClicks /\ restarts \in 0 .. MaxRestarts)
<1> DEFINE B == clicks \in 0 .. MaxClicks /\ restarts \in 0 .. MaxRestarts
<1>1. Control!Init => B
  BY DEF Control!Init
<1>2. B /\ [Control!Next]_Control!vars => B'
  <2>1. ASSUME B, Control!Next PROVE B'
    <3>1. /\ clicks' = clicks \/ (clicks < MaxClicks /\ clicks' = clicks + 1)
          /\ restarts' = restarts \/ (restarts < MaxRestarts /\ restarts' = restarts + 1)
      BY <2>1 DEF Control!Next, Control!WorkerNext, Control!CancelNext, Control!Hear, Control!Pauses, Control!TakeJob,
           Control!Heartbeat, Control!Exit, Control!StartWorker, Control!Subscribe, Control!KeyExpires, Control!Crash,
           Control!Stop, Control!Click, Control!StartCancel, Control!ReadStates, Control!AbortActive,
           Control!ReadPaused, Control!PauseAll, Control!ClearQueue, Control!ResumeAll, Control!AddJob,
           Control!JobEnds, Control!Restart
    <3> QED BY <2>1, <3>1
  <2>2. ASSUME B, UNCHANGED Control!vars PROVE B'
    BY <2>2 DEF Control!vars
  <2> QED BY <2>1, <2>2
<1> HIDE DEF B
<1>3. Control!Spec => []B
  BY <1>1, <1>2, PTL DEF Control!Spec
<1> QED BY <1>3 DEF B

LEMMA ControlTyped == Control!Spec => []ControlTypes
<1>1. Control!Init => ControlTypes
  BY ControlInit DEF ControlInv
<1>2. ControlTypes /\ [Control!Next]_Control!vars => ControlTypes'
  BY ControlTypeStep
<1> QED BY <1>1, <1>2, PTL DEF Control!Spec

\* The values of all four parts, that a task reported as a success ended with
\* exit code 0, and that only full, successful deployments are measured.
THEOREM PartsHold ==
  ASSUME MaxDurationFaults \in Nat, MaxClicks \in Nat, MaxRestarts \in Nat
  PROVE  PartSpec => []PartsInvariant
<1>1. DurationInv /\ durationFaults \in 0 .. MaxDurationFaults => Durations!TypeOK /\ Durations!MeasuredIsSuccess
  <2> SUFFICES ASSUME DurationInv, durationFaults \in 0 .. MaxDurationFaults
               PROVE  Durations!TypeOK /\ Durations!MeasuredIsSuccess
    OBVIOUS
  <2>1. Durations!TypeOK
    BY DEF DurationInv, DurationTypes, Rows, RowStatuses, Deploys, JobStates, Measures, Imports, Durations!TypeOK
  <2>2. Durations!MeasuredIsSuccess
    BY DEF DurationInv, RunHistory, Durations!MeasuredIsSuccess
  <2> QED BY <2>1, <2>2
<1>2. ControlTypes /\ clicks \in 0 .. MaxClicks /\ restarts \in 0 .. MaxRestarts => Control!TypeOK
  BY DEF ControlTypes, JobRecords, Control!TypeOK
<1>3. TaskInv => Tasks!TypeOK /\ Tasks!SuccessIsReal
  BY DEF TaskInv, TaskHistory, Tasks!SuccessIsReal
<1>4. /\ TypeOK /\ TaskInv /\ DurationInv /\ durationFaults \in 0 .. MaxDurationFaults
      /\ ControlTypes /\ clicks \in 0 .. MaxClicks /\ restarts \in 0 .. MaxRestarts
      => PartsInvariant
  BY <1>1, <1>2, <1>3 DEF PartsInvariant, PartsTypeOK
<1> QED BY <1>4, EachSpec, CustomizationTypes, TaskInvariant, DurationInvariant, FaultsBounded, ControlTyped,
           ControlBounded, PTL

===========================================================================
