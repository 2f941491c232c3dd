-------------------------- MODULE KubernetesTask --------------------------
(***************************************************************************)
(* runKubernetesTaskBlock: a block of Ansible tasks runs as a Kubernetes   *)
(* Job that waits for a Secret holding its input.  Requests to the API     *)
(* server are given up after a timeout, but may be carried out later; the  *)
(* worker may die.  What is left behind is removed by the deadline and TTL *)
(* of the Job and by the garbage collection of what the Job owns.          *)
(*                                                                         *)
(* A definition X_Bug above X is X with a plausible bug, not used here.    *)
(***************************************************************************)
EXTENDS Naturals

CONSTANTS
  Calls,       \* calls of runKubernetesTaskBlock, each with a name of its own
  MaxFaults    \* bound on refused, unanswered and given-up requests and deaths

VARIABLES
  pc,       \* where a call is
  created,  \* the call's flag: the Job's creation has been answered
  outcome,  \* what the call returns: "none" yet, "ok" or "error"
  request,  \* creations on their way to the API server
  job, secret, pod, \* the objects named after the call
  ran,      \* history: times the playbook was started
  worked,   \* history: the playbook ended with exit code 0
  faults

vars == <<pc, created, outcome, request, job, secret, pod, ran, worked, faults>>
cluster == <<job, secret, pod, ran, worked>>

TypeOK ==
  /\ pc \in [Calls -> {"new", "job", "secret", "poll", "deleteJob",
                       "deleteSecret", "done", "dead"}]
  /\ created \in [Calls -> BOOLEAN]
  /\ outcome \in [Calls -> {"none", "ok", "error"}]
  /\ request \in [Calls -> SUBSET {"job", "secret"}]
  /\ job \in [Calls -> {"none", "active", "succeeded", "failed", "gone"}]
  /\ secret \in [Calls -> {"none", "present", "gone"}]
  /\ pod \in [Calls -> {"none", "waiting", "running", "exit0", "exit1", "gone"}]
  /\ ran \in [Calls -> 0 .. 1] /\ worked \in [Calls -> BOOLEAN]
  /\ faults \in Nat

Fault == faults < MaxFaults /\ faults' = faults + 1

---------------------------------------------------------------------------
(* The call *)

Begin_SecretFirst(c) ==
  /\ pc[c] = "new"
  /\ pc' = [pc EXCEPT ![c] = "job"]
  /\ request' = [request EXCEPT ![c] = {"job", "secret"}]
  /\ UNCHANGED <<created, outcome, cluster, faults>>

Begin(c) ==
  /\ pc[c] = "new"
  /\ pc' = [pc EXCEPT ![c] = "job"]
  /\ request' = [request EXCEPT ![c] = {"job"}]
  /\ UNCHANGED <<created, outcome, cluster, faults>>

\* Every failure before the result leads through the finally block.
ToCleanup(c) ==
  /\ pc' = [pc EXCEPT ![c] = "deleteJob"]
  /\ outcome' = [outcome EXCEPT ![c] = "error"]

\* The API server carries out the Job's creation; the answer reaches the call
\* if it still waits, and the Secret is sent.
JobAccepted(c) ==
  /\ "job" \in request[c]
  /\ job' = [job EXCEPT ![c] = "active"]
  /\ \/ /\ pc[c] = "job"
        /\ created' = [created EXCEPT ![c] = TRUE]
        /\ pc' = [pc EXCEPT ![c] = "secret"]
        /\ request' = [request EXCEPT ![c] = (@ \ {"job"}) \cup {"secret"}]
        /\ UNCHANGED faults
     \/ /\ pc[c] # "job" \/ faults < MaxFaults
        /\ faults' = IF pc[c] = "job" THEN faults + 1 ELSE faults
        /\ request' = [request EXCEPT ![c] = @ \ {"job"}]
        /\ UNCHANGED <<created, pc>>
  /\ UNCHANGED <<outcome, secret, pod, ran, worked>>

\* The Secret names the Job as its owner.
SecretAccepted(c) ==
  /\ "secret" \in request[c]
  /\ secret' = [secret EXCEPT ![c] = "present"]
  /\ request' = [request EXCEPT ![c] = @ \ {"secret"}]
  /\ \/ pc[c] = "secret" /\ pc' = [pc EXCEPT ![c] = "poll"] /\ UNCHANGED faults
     \/ pc[c] # "secret" /\ UNCHANGED <<pc, faults>>
     \/ pc[c] = "secret" /\ Fault /\ UNCHANGED pc
  /\ UNCHANGED <<created, outcome, job, pod, ran, worked>>

Refused(c) ==
  /\ Fault
  /\ \E r \in request[c] :
       /\ request' = [request EXCEPT ![c] = @ \ {r}]
       /\ IF pc[c] = r THEN ToCleanup(c) ELSE UNCHANGED <<pc, outcome>>
  /\ UNCHANGED <<created, cluster>>

\* The 15 s of a request, the deadline of the operation or a cancellation
GiveUp(c) ==
  /\ pc[c] \in {"job", "secret", "poll"}
  /\ Fault
  /\ ToCleanup(c)
  /\ UNCHANGED <<created, request, cluster>>

\* An unanswered request is given up in any case.
Unanswered(c) ==
  /\ pc[c] \in {"job", "secret"} /\ pc[c] \notin request[c]
  /\ ToCleanup(c)
  /\ UNCHANGED <<created, request, cluster, faults>>

Finished_AnyPod(c) == pod[c] \notin {"none", "waiting", "running"}

\* What a poll takes for a success; a failure is looked for first.
Finished(c) == pod[c] = "exit0" \/ job[c] = "succeeded"

Poll(c) ==
  /\ pc[c] = "poll"
  /\ \/ /\ job[c] \in {"failed", "gone"} \/ pod[c] = "exit1"
        /\ ToCleanup(c)
     \/ /\ job[c] \notin {"failed", "gone"} /\ Finished(c)
        /\ outcome' = [outcome EXCEPT ![c] = "ok"]
        /\ pc' = [pc EXCEPT ![c] = "deleteJob"]
  /\ UNCHANGED <<created, request, cluster, faults>>

DeleteJob(c) ==
  /\ pc[c] = "deleteJob"
  /\ \/ /\ job' = [job EXCEPT ![c] = IF @ = "none" THEN @ ELSE "gone"]
        /\ UNCHANGED faults
     \/ Fault /\ UNCHANGED job
  /\ pc' = [pc EXCEPT ![c] = IF created[c] THEN "deleteSecret" ELSE "done"]
  /\ UNCHANGED <<created, outcome, request, secret, pod, ran, worked>>

DeleteSecret(c) ==
  /\ pc[c] = "deleteSecret"
  /\ \/ /\ secret' = [secret EXCEPT ![c] = IF @ = "none" THEN @ ELSE "gone"]
        /\ UNCHANGED faults
     \/ Fault /\ UNCHANGED secret
  /\ pc' = [pc EXCEPT ![c] = "done"]
  /\ UNCHANGED <<created, outcome, request, job, pod, ran, worked>>

WorkerDies(c) ==
  /\ pc[c] \notin {"new", "done", "dead"}
  /\ Fault
  /\ pc' = [pc EXCEPT ![c] = "dead"]
  /\ UNCHANGED <<created, outcome, request, cluster>>

---------------------------------------------------------------------------
(* The cluster: one Pod (backoffLimit 0, restartPolicy Never), which starts *)
(* when the Secret it mounts exists                                        *)

PodCreated(c) ==
  /\ job[c] = "active" /\ pod[c] = "none"
  /\ pod' = [pod EXCEPT ![c] = "waiting"]
  /\ UNCHANGED <<pc, created, outcome, request, job, secret, ran, worked, faults>>

PodStarts(c) ==
  /\ pod[c] = "waiting" /\ secret[c] = "present"
  /\ pod' = [pod EXCEPT ![c] = "running"]
  /\ ran' = [ran EXCEPT ![c] = @ + 1]
  /\ UNCHANGED <<pc, created, outcome, request, job, secret, worked, faults>>

PodEnds(c) ==
  /\ pod[c] = "running"
  /\ \E ok \in BOOLEAN :
       /\ pod' = [pod EXCEPT ![c] = IF ok THEN "exit0" ELSE "exit1"]
       /\ worked' = [worked EXCEPT ![c] = ok]
  /\ UNCHANGED <<pc, created, outcome, request, job, secret, ran, faults>>

JobEnds_Backoff(c) ==
  /\ job[c] = "active" /\ pod[c] \in {"exit0", "exit1"}
  /\ IF pod[c] = "exit0"
     THEN job' = [job EXCEPT ![c] = "succeeded"] /\ UNCHANGED pod
     ELSE pod' = [pod EXCEPT ![c] = "none"] /\ UNCHANGED job
  /\ UNCHANGED <<pc, created, outcome, request, secret, ran, worked, faults>>

JobEnds(c) ==
  /\ job[c] = "active" /\ pod[c] \in {"exit0", "exit1"}
  /\ job' = [job EXCEPT ![c] = IF pod[c] = "exit0" THEN "succeeded" ELSE "failed"]
  /\ UNCHANGED <<pc, created, outcome, request, secret, pod, ran, worked, faults>>

DeadlinePasses_Started(c) ==
  /\ job[c] = "active" /\ pod[c] = "running"
  /\ job' = [job EXCEPT ![c] = "failed"]
  /\ pod' = [pod EXCEPT ![c] = "gone"]
  /\ UNCHANGED <<pc, created, outcome, request, secret, ran, worked, faults>>

\* activeDeadlineSeconds, which covers the wait for the Secret too
DeadlinePasses(c) ==
  /\ job[c] = "active"
  /\ job' = [job EXCEPT ![c] = "failed"]
  /\ pod' = [pod EXCEPT ![c] = "gone"]
  /\ UNCHANGED <<pc, created, outcome, request, secret, ran, worked, faults>>

\* ttlSecondsAfterFinished
TTLPasses(c) ==
  /\ job[c] \in {"succeeded", "failed"}
  /\ job' = [job EXCEPT ![c] = "gone"]
  /\ UNCHANGED <<pc, created, outcome, request, secret, pod, ran, worked, faults>>

Collect(c) ==
  /\ job[c] = "gone"
  /\ \/ secret[c] = "present" /\ secret' = [secret EXCEPT ![c] = "gone"] /\ UNCHANGED pod
     \/ pod[c] \notin {"none", "gone"} /\ pod' = [pod EXCEPT ![c] = "gone"] /\ UNCHANGED secret
  /\ UNCHANGED <<pc, created, outcome, request, job, ran, worked, faults>>

---------------------------------------------------------------------------
Init ==
  /\ pc = [c \in Calls |-> "new"] /\ created = [c \in Calls |-> FALSE]
  /\ outcome = [c \in Calls |-> "none"] /\ request = [c \in Calls |-> {}]
  /\ job = [c \in Calls |-> "none"] /\ secret = [c \in Calls |-> "none"]
  /\ pod = [c \in Calls |-> "none"]
  /\ ran = [c \in Calls |-> 0] /\ worked = [c \in Calls |-> FALSE] /\ faults = 0

CallNext(c) ==
  \/ Begin(c) \/ GiveUp(c) \/ Unanswered(c) \/ Poll(c)
  \/ DeleteJob(c) \/ DeleteSecret(c) \/ WorkerDies(c)
ApiNext(c) == JobAccepted(c) \/ SecretAccepted(c) \/ Refused(c)
ClusterNext(c) ==
  \/ PodCreated(c) \/ PodStarts(c) \/ PodEnds(c) \/ JobEnds(c)
  \/ DeadlinePasses(c) \/ TTLPasses(c) \/ Collect(c)

Next == \E c \in Calls : CallNext(c) \/ ApiNext(c) \/ ClusterNext(c)

Spec == Init /\ [][Next]_vars

\* Requests are carried out or refused; Kubernetes keeps its deadlines, TTLs
\* and collection; a playbook need not end.
Fairness ==
  \A c \in Calls :
    /\ WF_vars(Unanswered(c) \/ Poll(c) \/ DeleteJob(c) \/ DeleteSecret(c))
    /\ WF_vars(ApiNext(c))
    /\ WF_vars(DeadlinePasses(c)) /\ WF_vars(TTLPasses(c)) /\ WF_vars(Collect(c))

FairSpec == Spec /\ Fairness

---------------------------------------------------------------------------
(* Properties *)

\* A call reports success only of a playbook that ran to exit code 0: a Job
\* ended by its deadline, its TTL or another's deletion is never a success.
SuccessIsReal == \A c \in Calls : outcome[c] = "ok" => worked[c]

\* A Job whose creation timed out, accepted or not, never runs its playbook:
\* it waits for a Secret that is not sent before the Job is known to exist.
NothingRunsUnanswered == \A c \in Calls : ran[c] > 0 => created[c]

\* Whatever is lost, refused or late, and also when the worker dies, the Job,
\* its Pod and the Secret with the guest's password disappear in the end.
EverythingRemoved ==
  \A c \in Calls : <>[](/\ job[c] \in {"none", "gone"}
                        /\ secret[c] # "present"
                        /\ pod[c] \in {"none", "gone"})

\* A call of a worker that lives returns, with the result of its playbook.
CallsReturn ==
  \A c \in Calls : (pc[c] = "job") ~> (pc[c] = "dead" \/ (pc[c] = "done" /\ outcome[c] # "none"))
===========================================================================
