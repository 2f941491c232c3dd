------------------------------- MODULE MCVmIds -------------------------------
(* VmIds for TLC, in three scenes: two labs whose ranges overlap are deployed, *)
(* redeployed and destroyed; the classroom of one lab is edited; one lab's     *)
(* inventory fails and its row may be removed, among VMs of others.            *)
EXTENDS VmIds, TLC

CONSTANTS a, b, c

VARIABLE scene

\* The ranges 1..3 and 2..4 overlap; the third is apart.
MCBase == (a :> 1) @@ (b :> 2) @@ (c :> 5)

\* What a scene leaves out
Played ==
  /\ scene # "shrunk" => stations' = 2
  /\ scene # "halted" =>
       /\ \A l \in Labs : row'[l] # "gone" /\ (row'[l] = "stopped" => halted'[l] # {})
       /\ \A i \in Ids : owner'[i] # "other"
  /\ IF scene = "two labs"
       THEN /\ row'[c] = "idle" /\ req'[c] = NoReq
            /\ \A l \in {a, b} : req'[l].action \notin {"start", "stop"}
       ELSE /\ \A l \in {a, b} : row'[l] \in {"idle", "gone"} /\ req'[l] = NoReq
            /\ \A i \in Ids \ Payload(c) : owner'[i] # "other"

SceneInit ==
  /\ scene \in {"two labs", "shrunk", "halted"}
  /\ Init
  /\ scene # "shrunk" => stations = 2
SceneNext == UNCHANGED scene /\ Next /\ Played

SceneSpec == SceneInit /\ [][SceneNext]_<<vars, scene>>
===========================================================================
