------------------------ MODULE MCReadinessLimiter ------------------------
(* Guests and jobs of ReadinessLimiter for TLC.  A process is the Terraform  *)
(* worker, which deploys Linux and Windows guests, or the Ansible worker,    *)
(* which customizes; they differ in the loops of the guests.                 *)
EXTENDS ReadinessLimiter

VARIABLE process

\* Two labs at a time, one of them with two guests.
MCJobOf == [g1 |-> "A", g2 |-> "B", g3 |-> "B"]
MCGuests == DOMAIN MCJobOf
MCKind == [g1 |-> "linux", g2 |-> "linux", g3 |-> "windows"]

Customize == INSTANCE ReadinessLimiter WITH Kind <- [g \in Guests |-> "reconnect"]

WorkerInit == Init /\ process \in {"terraform", "ansible"}

WorkerStep(g) ==
  /\ UNCHANGED process
  /\ \/ process = "terraform" /\ Step(g)
     \/ process = "ansible" /\ Customize!Step(g)

WorkerNext ==
  \/ \E g \in Guests : WorkerStep(g) \/ (UNCHANGED process /\ Deadline(g))
  \/ \E job \in Jobs : UNCHANGED process /\ Abort(job)

WorkerSpec ==
  /\ WorkerInit /\ [][WorkerNext]_<<vars, process>>
  /\ \A g \in Guests : WF_vars(WorkerStep(g)) /\ WF_vars(Deadline(g))
===========================================================================
