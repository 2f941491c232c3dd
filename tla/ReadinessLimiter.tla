------------------------- MODULE ReadinessLimiter -------------------------
(***************************************************************************)
(* The FIFO limiter every readiness probe of a worker process goes through *)
(* (lib/readinessConcurrency.js) and the retry loops that call it, one per *)
(* guest: waitForLinuxSshAndCloudInit and waitForWindowsHostReadiness in   *)
(* the Terraform worker, waitForWindowsHostReconnect in the Ansible worker.*)
(*                                                                         *)
(* The process has one thread: a step is what runs between two awaits.  An *)
(* abort may come between any two steps.                                   *)
(*                                                                         *)
(* A definition X_Bug above X is X with a plausible bug; the specification *)
(* does not use it (see LabLifecycle).                                     *)
(***************************************************************************)
EXTENDS Naturals, Sequences, FiniteSets

CONSTANTS
  Guests,  \* the guests of every lab being deployed or customized
  Jobs,    \* the jobs they belong to
  JobOf,   \* the job of a guest, whose AbortSignal its probes carry
  Kind,    \* the loop of a guest: "linux", "windows" or "reconnect"
  Limit    \* GUEST_READINESS_CONCURRENCY

ASSUME ReadinessAssumption ==
  /\ IsFiniteSet(Guests)
  /\ JobOf \in [Guests -> Jobs]
  /\ Kind \in [Guests -> {"linux", "windows", "reconnect"}]
  /\ Limit \in Nat \ {0}

VARIABLES
  pc,        \* where the loop of a guest is
  queue,     \* guests whose call waits in the limiter
  active,    \* the limiter's count of slots in use
  releasing, \* guests whose operation has settled, the finally callback still to run
  aborted,   \* jobs whose AbortController has fired
  late       \* guests whose deadline has passed

vars == <<pc, queue, active, releasing, aborted, late>>

Ended == {"ready", "failed"}
Phase == {"check",     \* at the top of the loop
          "prepare",   \* the attempt's inventory and playbook are being written
          "queued",    \* the call waits in the limiter
          "starting",  \* it has a slot, the microtask that starts it is pending
          "probing",   \* the command runs
          "answered",  \* the guest answered
          "rejected",  \* the call was rejected
          "backoff"}   \* the loop sleeps
         \cup Ended

TypeOK ==
  /\ pc \in [Guests -> Phase]
  /\ queue \in Seq(Guests)
  /\ active \in Nat
  /\ releasing \subseteq Guests
  /\ aborted \subseteq Jobs
  /\ late \subseteq Guests

Init ==
  /\ pc = [g \in Guests |-> "check"]
  /\ queue = <<>>
  /\ active = 0
  /\ releasing = {}
  /\ aborted = {}
  /\ late = {}

Aborted(g) == JobOf[g] \in aborted
Goto(g, phase) == pc' = [pc EXCEPT ![g] = phase]

---------------------------------------------------------------------------
(* The limiter *)

\* How many calls at the head of q find a slot when a are in use.
Starts_OneMore(q, a) == IF Len(q) <= Limit + 1 - a THEN Len(q) ELSE Limit + 1 - a
Starts(q, a) == IF Len(q) <= Limit - a THEN Len(q) ELSE Limit - a

\* drain(): give the free slots to the head of the queue.
Drain_Newest(q, a, phase) ==
  LET n == Starts(q, a) IN
  /\ queue' = SubSeq(q, 1, Len(q) - n)
  /\ active' = a + n
  /\ pc' = [g \in Guests |-> IF \E i \in Len(q) - n + 1 .. Len(q) : q[i] = g
                             THEN "starting" ELSE phase[g]]
Drain(q, a, phase) ==
  LET n == Starts(q, a) IN
  /\ queue' = SubSeq(q, n + 1, Len(q))
  /\ active' = a + n
  /\ pc' = [g \in Guests |-> IF \E i \in 1 .. n : q[i] = g THEN "starting" ELSE phase[g]]

\* limit(operation, signal)
Call(g) ==
  IF Aborted(g) THEN Goto(g, "rejected") /\ UNCHANGED <<queue, active>>
  ELSE Drain(Append(queue, g), active, [pc EXCEPT ![g] = "queued"])

\* The microtask of a call that has a slot: throwIfAborted, then the operation.
Begin_Unchecked(g) ==
  /\ pc[g] = "starting"
  /\ Goto(g, "probing")
  /\ UNCHANGED <<queue, active, releasing, aborted, late>>
Begin(g) ==
  /\ pc[g] = "starting"
  /\ IF Aborted(g) THEN Goto(g, "rejected") /\ releasing' = releasing \cup {g}
                   ELSE Goto(g, "probing") /\ UNCHANGED releasing
  /\ UNCHANGED <<queue, active, aborted, late>>

\* The command ends, with an error if its job has been aborted.
EndProbe(g) ==
  /\ pc[g] = "probing"
  /\ \/ ~Aborted(g) /\ Goto(g, "answered")
     \/ Goto(g, "rejected")
  /\ releasing' = releasing \cup {g}
  /\ UNCHANGED <<queue, active, aborted, late>>

\* The finally callback
Release_NoDrain(g) ==
  /\ g \in releasing
  /\ releasing' = releasing \ {g}
  /\ active' = active - 1
  /\ UNCHANGED <<pc, queue, aborted, late>>
Release_OnSuccess(g) ==
  /\ g \in releasing
  /\ releasing' = releasing \ {g}
  /\ IF pc[g] = "answered" THEN Drain(queue, active - 1, pc) ELSE UNCHANGED <<pc, queue, active>>
  /\ UNCHANGED <<aborted, late>>
Release(g) ==
  /\ g \in releasing
  /\ releasing' = releasing \ {g}
  /\ Drain(queue, active - 1, pc)
  /\ UNCHANGED <<aborted, late>>

\* controller.abort(): the listener of each waiting call takes it out of the queue
\* and rejects it; a call that has its slot has no listener any more.  at: the
\* places of the calls that stay, in order.
Abort_StaysQueued(job) ==
  /\ job \notin aborted
  /\ aborted' = aborted \cup {job}
  /\ pc' = [g \in Guests |-> IF pc[g] = "queued" /\ JobOf[g] = job THEN "rejected" ELSE pc[g]]
  /\ UNCHANGED <<queue, active, releasing, late>>
Abort(job) ==
  LET stay == {i \in 1 .. Len(queue) : JobOf[queue[i]] # job} IN
  /\ job \notin aborted
  /\ aborted' = aborted \cup {job}
  /\ \E at \in [1 .. Cardinality(stay) -> stay] :
       /\ \A i, k \in DOMAIN at : i < k => at[i] < at[k]
       /\ queue' = [i \in DOMAIN at |-> queue[at[i]]]
  /\ pc' = [g \in Guests |-> IF pc[g] = "queued" /\ JobOf[g] = job THEN "rejected" ELSE pc[g]]
  /\ UNCHANGED <<active, releasing, late>>

---------------------------------------------------------------------------
(* The loops of the guests *)

\* The loop condition and the abort check; a Linux probe is called for at once, a
\* Windows one after its files are written.
Check(g) ==
  /\ pc[g] = "check"
  /\ IF g \in late \/ Aborted(g) THEN Goto(g, "failed") /\ UNCHANGED <<queue, active>>
     ELSE IF Kind[g] = "linux" THEN Call(g)
     ELSE Goto(g, "prepare") /\ UNCHANGED <<queue, active>>
  /\ UNCHANGED <<releasing, aborted, late>>

\* The directory and the files of a Windows attempt may fail to be written.
Prepare(g) ==
  /\ pc[g] = "prepare"
  /\ \/ Call(g)
     \/ \E phase \in {"failed", "rejected"} : Goto(g, phase) /\ UNCHANGED <<queue, active>>
  /\ UNCHANGED <<releasing, aborted, late>>

\* The catch and finally blocks: the Terraform loops retry whatever happened; a
\* reconnect gives up when it is aborted or the error is not one of the connection;
\* both Windows loops end when the attempt's directory cannot be removed.
Catch(g) ==
  /\ pc[g] = "rejected"
  /\ \/ Kind[g] # "linux" /\ Goto(g, "failed")
     \/ ~(Kind[g] = "reconnect" /\ Aborted(g)) /\ Goto(g, "backoff")
  /\ UNCHANGED <<queue, active, releasing, aborted, late>>

\* The sleep ends, by its timer or, in a reconnect, by the abort.  Every microtask
\* has run by then, the limiter's finally callback among them.
Wake(g) ==
  /\ pc[g] = "backoff" /\ g \notin releasing
  /\ Goto(g, IF Kind[g] = "reconnect" /\ Aborted(g) THEN "failed" ELSE "check")
  /\ UNCHANGED <<queue, active, releasing, aborted, late>>

\* The guest is ready, unless the request that hands it to Proxmox HA, the report of
\* its progress or the removal of the attempt's directory fails.
Conclude(g) ==
  /\ pc[g] = "answered"
  /\ Goto(g, "ready") \/ Goto(g, "failed")
  /\ UNCHANGED <<queue, active, releasing, aborted, late>>

Deadline(g) ==
  /\ pc[g] \notin Ended /\ g \notin late
  /\ late' = late \cup {g}
  /\ UNCHANGED <<pc, queue, active, releasing, aborted>>

Step(g) ==
  \/ Check(g) \/ Prepare(g) \/ Begin(g) \/ EndProbe(g) \/ Release(g)
  \/ Catch(g) \/ Wake(g) \/ Conclude(g)

Next ==
  \/ \E g \in Guests : Step(g) \/ Deadline(g)
  \/ \E job \in Jobs : Abort(job)

Spec == Init /\ [][Next]_vars

---------------------------------------------------------------------------
(* Safety *)

Holding == {g \in Guests : pc[g] \in {"starting", "probing"}}

\* The limiter's counter is the number of slots in use, counting those of settled
\* operations until their finally callback, and never exceeds the limit.
SlotsCounted ==
  /\ active = Cardinality(Holding) + Cardinality(releasing)
  /\ active <= Limit

\* No slot is idle while a probe waits: every await between two steps leaves the
\* limiter drained, however calls were aborted or failed.
NoIdleSlot == queue # <<>> => active = Limit

\* What waits in the limiter is what the loops believe to be waiting, once each, and
\* no probe of an aborted job is among it.
QueueIsWaiting ==
  /\ \A g \in Guests : pc[g] = "queued" <=> \E i \in 1 .. Len(queue) : queue[i] = g
  /\ \A i, k \in 1 .. Len(queue) : queue[i] = queue[k] => i = k
  /\ \A i \in 1 .. Len(queue) : ~Aborted(queue[i])

\* Probes start in the order of their calls: none starts while an older one waits.
FirstComeFirstServed ==
  [][\A i, k \in 1 .. Len(queue) :
       i < k /\ pc'[queue[k]] = "starting" => pc'[queue[i]] # "queued"]_vars

\* No command is started for an aborted job, neither one that waited nor one
\* that already had its slot.
NoProbeAfterAbort ==
  [][\A g \in Guests : pc[g] # "probing" /\ pc'[g] = "probing" => ~Aborted(g)]_vars

\* The limiter is a counting semaphore.
Slots == INSTANCE ProbeSlots
           WITH wanting <- {g \in Guests : pc[g] = "queued"}, probed <- Holding
ImplementsSlots == Slots!Spec

---------------------------------------------------------------------------
(* Liveness *)

\* Commands run under timeout(1), sleeps and deadlines are timers, microtasks run.
Fairness == \A g \in Guests : WF_vars(Step(g)) /\ WF_vars(Deadline(g))
FairSpec == Spec /\ Fairness

\* Every guest's wait ends, ready or failed: no probe waits for a slot for ever.
EveryGuestSettles == \A g \in Guests : <>(pc[g] \in Ended)

===========================================================================
