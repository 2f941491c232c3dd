--------------------------- MODULE WorkerControl ---------------------------
(***************************************************************************)
(* Control of the worker processes.  Each publishes its status in a Redis  *)
(* key and listens on a channel for pause, resume and cancel-active.  The  *)
(* messages come from the buttons of the Jobs page and from cancel-all,    *)
(* which pauses queues and workers, aborts and removes the jobs, and puts  *)
(* back what it has paused.  What cancel-all does to the deployments is in *)
(* LabLifecycle.                                                           *)
(*                                                                         *)
(* A definition X_Bug above X is X with a plausible bug, not used here.    *)
(***************************************************************************)
EXTENDS Naturals, Sequences, FiniteSets

CONSTANTS
  Workers,       \* one queue, channel, key and process each
  Jobs,
  Cancels,       \* cancel-all requests
  Slots,         \* jobs of a worker at a time
  MaxClicks,     \* bound on clicks on pause and resume
  MaxRestarts    \* bound on crashes and stops of workers

VARIABLES
  job,       \* the jobs and their queues
  halted,    \* the paused queues, which no worker takes from
  worker,    \* the processes
  key,       \* the status in Redis
  channel,   \* messages on their way to the subscriber
  cancel,    \* the cancel-all requests
  clicks, restarts

vars == <<job, halted, worker, key, channel, cancel, clicks, restarts>>

Messages == {"pause", "resume", "cancel-active"}

\* "starting": takes jobs, but has not subscribed; waits: the pauses that
\* wait for jobs to end, each with these jobs
Process == [pc : {"starting", "up", "stopping", "down"}, paused : BOOLEAN,
            status : {"running", "paused"}, waits : SUBSET SUBSET Jobs]
Fresh(pc) == [pc |-> pc, paused |-> FALSE, status |-> "running", waits |-> {}]

\* left: the workers a loop has yet to come to; halted, running: what was read
\* at the start; seen: the jobs there were when the queues were paused
Cancel == [pc : {"idle", "read", "states", "pause", "abort", "clear", "resume", "done"},
           left : SUBSET Workers, halted : SUBSET Workers, running : SUBSET Workers,
           seen : SUBSET Jobs]
NoCancel == [pc |-> "idle", left |-> {}, halted |-> {}, running |-> {}, seen |-> {}]

JobState == {"new", "waiting", "active", "aborted", "ended", "removed"}
Active(w) == {j \in Jobs : job[j].queue = w /\ job[j].state \in {"active", "aborted"}}
Waiting(w) == {j \in Jobs : job[j].queue = w /\ job[j].state = "waiting"}

TypeOK ==
  /\ job \in [Jobs -> [queue : Workers, state : JobState]]
  /\ halted \subseteq Workers
  /\ worker \in [Workers -> Process]
  /\ key \in [Workers -> {"none", "running", "paused", "stopped"}]
  /\ \A w \in Workers : channel[w] \in Seq(Messages)
  /\ cancel \in [Cancels -> Cancel]
  /\ clicks \in 0 .. MaxClicks /\ restarts \in 0 .. MaxRestarts
  /\ \A w \in Workers : worker[w].pc = "down" => Active(w) = {}

---------------------------------------------------------------------------
(* The worker process *)

UpdateStatus(w, p, s) ==
  /\ worker' = [worker EXCEPT ![w] = [p EXCEPT !.status = s]]
  /\ key' = [key EXCEPT ![w] = s]

Settled(w, S) == \A j \in S : job[j].state \notin {"active", "aborted"}

\* worker.pause() waits for the jobs it finds, unless it has been called before.
HearPause(w) ==
  LET p == worker[w] IN
  /\ Head(channel[w]) = "pause"
  /\ IF p.paused \/ Active(w) = {}
     THEN UpdateStatus(w, [p EXCEPT !.paused = TRUE], "paused")
     ELSE /\ worker' = [worker EXCEPT ![w].paused = TRUE, ![w].waits = @ \cup {Active(w)}]
          /\ UNCHANGED key
  /\ UNCHANGED job

\* worker.resume(), of which the module assumes that it takes the pause away also
\* while worker.pause() still waits for its jobs: BullMQ is not in the repository.
HearResume(w) ==
  /\ Head(channel[w]) = "resume"
  /\ UpdateStatus(w, [worker[w] EXCEPT !.paused = FALSE], "running")
  /\ UNCHANGED job

HearCancel(w) ==
  /\ Head(channel[w]) = "cancel-active"
  /\ job' = [j \in Jobs |-> IF j \in Active(w) THEN [job[j] EXCEPT !.state = "aborted"] ELSE job[j]]
  /\ UNCHANGED <<worker, key>>

\* The listener is called for each message in order, and not waited for.
Hear(w) ==
  /\ worker[w].pc = "up" /\ channel[w] # <<>>
  /\ HearPause(w) \/ HearResume(w) \/ HearCancel(w)
  /\ channel' = [channel EXCEPT ![w] = Tail(@)]
  /\ UNCHANGED <<halted, cancel, clicks, restarts>>

\* The pause goes on when its jobs have ended.
Pauses(w) == \E S \in worker[w].waits :
  /\ worker[w].pc \in {"up", "stopping"} /\ Settled(w, S)
  /\ UpdateStatus(w, [worker[w] EXCEPT !.waits = @ \ {S}], "paused")
  /\ UNCHANGED <<job, halted, channel, cancel, clicks, restarts>>

Heartbeat(w) ==
  /\ worker[w].pc = "up" /\ key[w] # worker[w].status
  /\ key' = [key EXCEPT ![w] = worker[w].status]
  /\ UNCHANGED <<job, halted, worker, channel, cancel, clicks, restarts>>

\* No heartbeat for 15 seconds
KeyExpires(w) ==
  /\ worker[w].pc # "up" /\ key[w] # "none"
  /\ key' = [key EXCEPT ![w] = "none"]
  /\ UNCHANGED <<job, halted, worker, channel, cancel, clicks, restarts>>

TakeJob(w) == \E j \in Waiting(w) :
  /\ worker[w].pc \in {"starting", "up"} /\ ~ worker[w].paused /\ w \notin halted
  /\ Cardinality(Active(w)) < Slots
  /\ job' = [job EXCEPT ![j].state = "active"]
  /\ UNCHANGED <<halted, worker, key, channel, cancel, clicks, restarts>>

JobEnds(j) ==
  /\ job[j].state \in {"active", "aborted"}
  /\ job' = [job EXCEPT ![j].state = "ended"]
  /\ UNCHANGED <<halted, worker, key, channel, cancel, clicks, restarts>>

Restart == restarts < MaxRestarts /\ restarts' = restarts + 1

\* The jobs of a crashed worker are found stalled and fail.
Crash(w) ==
  /\ worker[w].pc \in {"starting", "up"} /\ Restart
  /\ worker' = [worker EXCEPT ![w] = Fresh("down")]
  /\ channel' = [channel EXCEPT ![w] = <<>>]
  /\ job' = [j \in Jobs |-> IF j \in Active(w) THEN [job[j] EXCEPT !.state = "ended"] ELSE job[j]]
  /\ UNCHANGED <<halted, key, cancel, clicks>>

\* SIGTERM: worker.close() waits for the active jobs.
Stop(w) ==
  /\ worker[w].pc = "up" /\ Restart
  /\ worker' = [worker EXCEPT ![w].pc = "stopping"]
  /\ channel' = [channel EXCEPT ![w] = <<>>]
  /\ key' = [key EXCEPT ![w] = "stopped"]
  /\ UNCHANGED <<job, halted, cancel, clicks>>

Exit(w) ==
  /\ worker[w].pc = "stopping" /\ Active(w) = {}
  /\ worker' = [worker EXCEPT ![w] = Fresh("down")]
  /\ UNCHANGED <<job, halted, key, channel, cancel, clicks, restarts>>

StartWorker(w) ==
  /\ worker[w].pc = "down"
  /\ worker' = [worker EXCEPT ![w] = Fresh("starting")]
  /\ UNCHANGED <<job, halted, key, channel, cancel, clicks, restarts>>

Subscribe(w) ==
  /\ worker[w].pc = "starting"
  /\ UpdateStatus(w, [worker[w] EXCEPT !.pc = "up"], "running")
  /\ UNCHANGED <<job, halted, channel, cancel, clicks, restarts>>

---------------------------------------------------------------------------
(* The dashboard *)

AddJob(j) ==
  /\ job[j].state = "new"
  /\ job' = [job EXCEPT ![j].state = "waiting"]
  /\ UNCHANGED <<halted, worker, key, channel, cancel, clicks, restarts>>

\* Nobody keeps a message for a worker that does not listen.
Publish(W, m) ==
  channel' = [w \in Workers |-> IF w \in W /\ worker[w].pc = "up"
                                THEN Append(channel[w], m) ELSE channel[w]]

\* The button offers what the key does not say.
Click(w) ==
  /\ clicks < MaxClicks /\ clicks' = clicks + 1
  /\ Publish({w}, IF key[w] = "running" THEN "pause" ELSE "resume")
  /\ UNCHANGED <<job, halted, worker, key, cancel, restarts>>

\* The next loop of cancel-all begins when no worker is left of this one.
Loop(c, w, next) ==
  LET rest == cancel[c].left \ {w} IN
  [cancel[c] EXCEPT !.left = IF rest = {} THEN Workers ELSE rest,
                    !.pc   = IF rest = {} THEN next ELSE @]

At(c, pc, w) == cancel[c].pc = pc /\ w \in cancel[c].left

StartCancel(c) ==
  /\ cancel[c].pc = "idle"
  /\ cancel' = [cancel EXCEPT ![c] = [NoCancel EXCEPT !.pc = "read", !.left = Workers]]
  /\ UNCHANGED <<job, halted, worker, key, channel, clicks, restarts>>

ReadPaused(c, w) ==
  /\ At(c, "read", w)
  /\ cancel' = [cancel EXCEPT ![c] =
       [Loop(c, w, "states") EXCEPT !.halted = @ \cup ({w} \cap halted)]]
  /\ UNCHANGED <<job, halted, worker, key, channel, clicks, restarts>>

ReadStates(c) ==
  /\ cancel[c].pc = "states"
  /\ cancel' = [cancel EXCEPT ![c].pc = "pause",
                              ![c].running = {w \in Workers : key[w] = "running"}]
  /\ UNCHANGED <<job, halted, worker, key, channel, clicks, restarts>>

PauseAll_WorkerOnly(c, w) ==
  /\ At(c, "pause", w)
  /\ Publish({w} \cap cancel[c].running, "pause")
  /\ cancel' = [cancel EXCEPT ![c] =
       [Loop(c, w, "abort") EXCEPT !.seen = @ \cup Waiting(w) \cup Active(w)]]
  /\ UNCHANGED <<job, halted, worker, key, clicks, restarts>>

PauseAll(c, w) ==
  /\ At(c, "pause", w)
  /\ halted' = halted \cup {w}
  /\ Publish({w} \cap cancel[c].running, "pause")
  /\ cancel' = [cancel EXCEPT ![c] =
       [Loop(c, w, "abort") EXCEPT !.seen = @ \cup Waiting(w) \cup Active(w)]]
  /\ UNCHANGED <<job, worker, key, clicks, restarts>>

AbortActive(c) ==
  /\ cancel[c].pc = "abort"
  /\ cancel' = [cancel EXCEPT ![c].pc = "clear"]
  /\ Publish(Workers, "cancel-active")
  /\ UNCHANGED <<job, halted, worker, key, clicks, restarts>>

\* The pending jobs are removed when no job is active, or after five seconds,
\* by when the worker has heard the message.
ClearQueue(c, w) ==
  /\ At(c, "clear", w)
  /\ Active(w) = {} \/ channel[w] = <<>>
  /\ job' = [j \in Jobs |-> IF j \in Waiting(w) THEN [job[j] EXCEPT !.state = "removed"] ELSE job[j]]
  /\ cancel' = [cancel EXCEPT ![c] = Loop(c, w, "resume")]
  /\ UNCHANGED <<halted, worker, key, channel, clicks, restarts>>

ResumeAll_QueueOnly(c, w) ==
  /\ At(c, "resume", w)
  /\ halted' = halted \ ({w} \ cancel[c].halted)
  /\ cancel' = [cancel EXCEPT ![c] = Loop(c, w, "done")]
  /\ UNCHANGED <<job, worker, key, channel, clicks, restarts>>

ResumeAll_Inverted(c, w) ==
  /\ At(c, "resume", w)
  /\ halted' = halted \ ({w} \cap cancel[c].halted)
  /\ Publish({w} \cap cancel[c].running, "resume")
  /\ cancel' = [cancel EXCEPT ![c] = Loop(c, w, "done")]
  /\ UNCHANGED <<job, worker, key, clicks, restarts>>

\* The finally block
ResumeAll(c, w) ==
  /\ At(c, "resume", w)
  /\ halted' = halted \ ({w} \ cancel[c].halted)
  /\ Publish({w} \cap cancel[c].running, "resume")
  /\ cancel' = [cancel EXCEPT ![c] = Loop(c, w, "done")]
  /\ UNCHANGED <<job, worker, key, clicks, restarts>>

---------------------------------------------------------------------------
Init ==
  /\ job \in [Jobs -> [queue : Workers, state : {"new"}]]
  /\ halted = {} /\ clicks = 0 /\ restarts = 0
  /\ worker = [w \in Workers |-> Fresh("up")]
  /\ key = [w \in Workers |-> "running"]
  /\ channel = [w \in Workers |-> <<>>]
  /\ cancel = [c \in Cancels |-> NoCancel]

WorkerNext(w) ==
  \/ Hear(w) \/ Pauses(w) \/ TakeJob(w) \/ Heartbeat(w)
  \/ Exit(w) \/ StartWorker(w) \/ Subscribe(w)
CancelNext(c) ==
  \/ ReadStates(c) \/ AbortActive(c)
  \/ \E w \in Workers : ReadPaused(c, w) \/ PauseAll(c, w) \/ ClearQueue(c, w) \/ ResumeAll(c, w)

Next ==
  \/ \E w \in Workers : WorkerNext(w) \/ KeyExpires(w) \/ Crash(w) \/ Stop(w) \/ Click(w)
  \/ \E c \in Cancels : StartCancel(c) \/ CancelNext(c)
  \/ \E j \in Jobs : AddJob(j) \/ JobEnds(j)

Spec == Init /\ [][Next]_vars

\* Messages to a listener arrive, workers are started again, and requests go on.
\* That jobs end is assumed: Terraform and the standard playbooks have no time
\* limit of their own.
Fairness ==
  /\ \A w \in Workers : /\ WF_vars(Hear(w)) /\ WF_vars(Pauses(w)) /\ WF_vars(TakeJob(w))
                        /\ WF_vars(Heartbeat(w))
                        /\ WF_vars(Exit(w) \/ StartWorker(w) \/ Subscribe(w))
  /\ \A c \in Cancels : WF_vars(CancelNext(c))
  /\ \A j \in Jobs : WF_vars(JobEnds(j))

FairSpec == Spec /\ Fairness

---------------------------------------------------------------------------
(* Properties *)

Quiet == /\ \A c \in Cancels : cancel[c].pc \in {"idle", "done"}
         /\ \A w \in Workers : channel[w] = <<>> /\ worker[w].waits = {}

\* "All active and queued jobs will be cancelled": when cancel-all resumes the
\* queues, every job it found is removed, has ended or has been aborted,
\* although workers go on, are paused or resumed and take jobs meanwhile.
CancelReachesAll ==
  \A c \in Cancels : cancel[c].pc = "resume" /\ cancel[c].left = Workers =>
    \A j \in cancel[c].seen : job[j].state \in {"aborted", "ended", "removed"}

\* One cancel-all leaves queues and workers as they were, also when a worker
\* is slow to pause, restarts, or does not hear a message because of that.
CancelRestores ==
  Quiet => halted = {} /\ \A w \in Workers : worker[w].pc = "up" => ~ worker[w].paused

\* No cancel-all keeps a job from being taken in the end.
EveryJobTaken == \A j \in Jobs : job[j].state = "waiting" ~> job[j].state # "waiting"

---------------------------------------------------------------------------
(* What the documentation says and the code does not keep *)

\* dashboardUx.api.test.js:31 "job cancellation preserves ... the original
\* queue pause state", here also for two requests at once.
QueuePauseKept == (\A c \in Cancels : cancel[c].pc \in {"idle", "done"}) => halted = {}

\* README.md:159 "worker status": the status the Jobs page shows of a worker
\* with nothing left to hear is the worker's.
StatusIsShown ==
  \A w \in Workers : Quiet /\ worker[w].pc = "up" /\ key[w] = "paused" => worker[w].paused
===========================================================================
