------------------------- MODULE MCBlueprintFiles -------------------------
(* BlueprintFiles for TLC, in two scenes: two blueprints and one file, or one *)
(* blueprint and two uploads, so that one may replace the other.              *)
EXTENDS BlueprintFiles

CONSTANTS b1, f1

VARIABLE scene

\* What a scene leaves out
Played ==
  /\ scene = "two uploads" => \A p \in Procs : {req'[p].b, req'[p].n} \subseteq {b1, None}
  /\ scene = "two blueprints" =>
       /\ used' \subseteq {f1}
       /\ Cardinality({p \in Procs : req'[p].op = "upload" /\ req'[p].file = None})
            <= Cardinality({f1} \ used')

SceneInit == scene \in {"two uploads", "two blueprints"} /\ Init
SceneNext == UNCHANGED scene /\ Next /\ Played

SceneSpec == SceneInit /\ [][SceneNext]_<<vars, scene>> /\ Fairness

---------------------------------------------------------------------------
\* OrphansRemoved, of one blueprint and one file that both scenes have; what the
\* code does with the others is the same.
EveryOrphanRemoved ==
  (f1 \in disk[b1] \ refs[b1]) ~> (f1 \notin disk[b1] \/ f1 \in refs[b1])
===========================================================================
