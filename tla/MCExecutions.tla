--------------------------- MODULE MCExecutions ---------------------------
(* Executions for TLC, in three scenes that let some of its steps happen.  An *)
(* apply and a plan of one environment are cancelled and outlive their locks;  *)
(* or two applies and the plan, of which one apply has a key of its own, so    *)
(* that the scheduler's query alone keeps the applies apart, are not cancelled; *)
(* or no lock expires under its holder and each of the first two ends.         *)
EXTENDS Executions, TLC

VARIABLE scene

MCType == [a1 |-> "terraform_apply", a2 |-> "terraform_apply", p |-> "terraform_plan"]
MCExecutions == DOMAIN MCType
MCEnv == [e \in MCExecutions |-> "prod"]
MCKey == [e \in MCExecutions |-> IF e = "a2" THEN <<"given", "key">> ELSE None]

\* The executions somebody is at work on
InHand == {sched.e, launch.e} \cup scheduled \cup pods

\* What a scene leaves out
Played ==
  /\ scene = "applies" => cancelling' = {}
  /\ scene # "applies" => status'["a2"] = "none"
  /\ scene = "ends" => (late' \ late) \cap InHand = {}

SceneInit == scene \in {"locks", "applies", "ends"} /\ Init
SceneNext == UNCHANGED scene /\ Next /\ Played

\* The fairness of Executions, where everything ends, for those it plays with
Ending(A) == scene = "ends" /\ A /\ UNCHANGED scene /\ Played

SceneSpec ==
  /\ SceneInit /\ [][SceneNext]_<<vars, scene>>
  /\ WF_vars(Ending(SchedulerNext)) /\ WF_vars(Ending(LauncherNext))
  /\ \A e \in {"a1", "p"} :
       /\ WF_vars(Ending(Enqueue(e))) /\ WF_vars(Ending(WriteCancel(e))) /\ WF_vars(Ending(PodEnds(e)))
       /\ SF_vars(Ending(TakeSchedule(e))) /\ SF_vars(Ending(TakeLaunch(e)))
       /\ SF_vars(Ending(Acquire /\ sched.e = e /\ lock[LockKey(e)] = None))
       /\ SF_vars(Ending(CheckConflict /\ sched.e = e /\ ~ \E f \in Executions : Conflicts(e, f)))
  /\ WF_vars(Ending(Expire(LockKey("a1"))))

---------------------------------------------------------------------------
\* EveryExecutionEnds, where no lock expires under its holder.
ExecutionsEnd ==
  \A e \in Executions : (scene = "ends" /\ status[e] = "queued") ~> (status[e] \in Final)
===========================================================================
