---------------------------- MODULE ProbeSlots ----------------------------
(***************************************************************************)
(* What the readiness limiter promises to the guests' readiness loops: a   *)
(* counting semaphore.  A guest wants to be probed, is probed, and is done;*)
(* at most Limit guests are probed at a time.  Who goes first is left open.*)
(***************************************************************************)
EXTENDS Naturals, FiniteSets

CONSTANTS Guests, Limit

VARIABLES wanting, probed
vars == <<wanting, probed>>

Init == wanting = {} /\ probed = {}

Want(g) ==
  /\ g \notin wanting \cup probed
  /\ wanting' = wanting \cup {g}
  /\ UNCHANGED probed

\* A guest that waits, or one that asks while a slot is free, gets a slot.
Grant(g) ==
  /\ g \notin probed
  /\ Cardinality(probed) < Limit
  /\ wanting' = wanting \ {g}
  /\ probed' = probed \cup {g}

Return(g) ==
  /\ g \in probed
  /\ probed' = probed \ {g}
  /\ UNCHANGED wanting

\* A cancelled lab takes all its guests out of the line at once.
Withdraw(G) ==
  /\ G \subseteq wanting
  /\ wanting' = wanting \ G
  /\ UNCHANGED probed

Next ==
  \/ \E g \in Guests : Want(g) \/ Grant(g) \/ Return(g)
  \/ \E G \in SUBSET wanting : Withdraw(G)

Spec == Init /\ [][Next]_vars
===========================================================================
