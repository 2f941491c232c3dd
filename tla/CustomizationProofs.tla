------------------------ MODULE CustomizationProofs ------------------------
(***************************************************************************)
(* Proofs about Customization, for any lists of VMs, roles, steps and      *)
(* blocks, any number of lanes, attempts and faults: the barriers of a run *)
(* and the checkpoints it leaves, also in the runs that resume it.         *)
(***************************************************************************)
EXTENDS Customization, TLAPS, FiniteSetTheorems, WellFoundedInduction

---------------------------------------------------------------------------
(* The plan *)

\* The VMs a phase works on, the steps it owes each of them, and the phases a
\* run has been through before it.
On(p) ==
  CASE p = "linux"                  -> Elements(LinuxTargets)
    [] p = "windows"                -> Elements(WindowsTargets)
    [] p \in {"controller", "member"} -> {v \in Elements(WindowsTargets) : Role[v] = p}
    [] p = "blocks"                 -> {v \in VMs : Blocks[v] # <<>>}
    [] OTHER                        -> {}

Due(p, v) == IF v \in On(p) THEN Elements(StepsOf(p, v)) ELSE {}

Earlier(p) ==
  CASE p = "windows"    -> {"linux"}
    [] p = "controller" -> {"linux", "windows"}
    [] p = "member"     -> {"linux", "windows", "controller"}
    [] p = "blocks"     -> {"linux", "windows", "controller", "member"}
    [] OTHER            -> {}

Plan(v) == Standard(v) \cup Elements(Blocks[v])

---------------------------------------------------------------------------
(* The inductive invariant *)

\* The step in hand is one the phase owes, and it has no checkpoint.
InHand(v) == lane[v].step \in Due(phase, v) \ records[v].done

\* A lane works on a VM of its phase that has been through the earlier ones.
OnDuty ==
  \A v \in Working :
    /\ v \in On(phase)
    /\ \A q \in Earlier(phase) : Due(q, v) \subseteq records[v].done
    /\ lane[v].pc \in {"cmd", "clean", "sleep"} => InHand(v)
    /\ lane[v].pc = "clean" => lane[v].step \in effects[v]

\* A lane waits for one update, and on a broken chain for none; a retry is
\* within its attempts.
Entries == {chain[i] : i \in DOMAIN chain}
Waits ==
  /\ \A v \in VMs : lane[v].pc = "sleep" => lane[v].tries < MaxAttempts
  /\ \A e \in Entries :
       lane[e.vm].pc = "write" /\ (e.to = "sleep" => lane[e.vm].tries < MaxAttempts)
  /\ \A i, j \in DOMAIN chain : chain[i].vm = chain[j].vm => i = j
  /\ broken => chain = <<>> /\ lost > 0

\* An update that ends the lane reports a failure or leaves nothing of the
\* phase to do; one that reports success leaves nothing at all.
Queued ==
  \A e \in Entries :
    /\ e.done # NoStep => e.done \in effects[e.vm] \cap Due(phase, e.vm)
    /\ e.to \in {"cmd", "sleep"} => e.done = NoStep /\ InHand(e.vm)
    /\ e.to = "idle" /\ e.status # "failed" => Due(phase, e.vm) \subseteq records[e.vm].done \cup {e.done}
    /\ e.status = "succeeded" =>
         /\ e.to = "idle"
         /\ phase # "blocks" => Blocks[e.vm] = <<>> /\ (phase = "windows" => Role[e.vm] = "none")

\* What is checkpointed was done, and success is the whole plan.
Accounts(r) ==
  \A v \in VMs :
    /\ r[v].done \subseteq effects[v] \cap Plan(v)
    /\ r[v].status = "succeeded" => Plan(v) \subseteq r[v].done

\* A VM that is behind a phase has done its steps or failed; of the phase the
\* run is in this holds as long as no lane is lost.
Through(p, v) == Due(p, v) \subseteq records[v].done \/ records[v].status = "failed"
Passed ==
  /\ \A q \in Earlier(phase) : \A v \in On(q) : Through(q, v)
  /\ lost = 0 => \A i \in DOMAIN Items(phase) :
       i < next /\ Items(phase)[i] \in On(phase) \ Working => Through(phase, Items(phase)[i])

Prepared ==
  phase = "blocks" => ~ unready /\ \A v \in VMs : Standard(v) \subseteq records[v].done

\* What the lanes of an earlier run may still write: the results of a run that
\* had been through the preparation of every guest, and blocks that were done.
OldRuns ==
  \A r \in left :
    /\ Accounts(r.records)
    /\ r.writes => \A v \in VMs : Standard(v) \subseteq r.records[v].done
    /\ \A x \in r.lanes :
         /\ x.pc = "go" => r.writes
         /\ x.pc = "clean" => x.step \in effects[x.vm] \cap Plan(x.vm)

\* Redis has what the store has, except of a VM whose write failed, which no
\* lane can work on any more, after a crash, when no lane is left, and once an
\* earlier run has written over it.
Synced(v) ==
  \/ overwritten
  \/ saved[v] = records[v]
  \/ broken /\ (lane[v].pc = "idle" \/ (lane[v].pc = "go" /\ phase \notin {"linux", "windows"}))
  \/ Working = {} /\ lost >= Lanes

Ended ==
  /\ phase = "end" /\ job \in {"active", "completed"} => overwritten \/ saved = records
  /\ job = "completed" => phase = "end" /\ \A v \in VMs : records[v].status = "succeeded"


---------------------------------------------------------------------------
(* Facts about the constants *)

LEMMA Lists ==
  /\ \A p \in Phases : Items(p) \in Seq(VMs)
  /\ \A p \in Phases : On(p) \subseteq {Items(p)[i] : i \in DOMAIN Items(p)}
  /\ \A p \in Phases, v \in VMs : DOMAIN StepsOf(p, v) \subseteq Nat
<1>1. LinuxTargets \in Seq(VMs) /\ WindowsTargets \in Seq(VMs)
  <2>1. ASSUME NEW s, s \in Seq(Elements(s)), Elements(s) \subseteq VMs PROVE s \in Seq(VMs)
    BY <2>1 DEF Elements
  <2> QED BY <2>1, CustomizationAssumption DEF IsSequence, VMs
<1>2. LinuxTargets \o WindowsTargets \in Seq(VMs)
  BY <1>1
<1>3. \A v \in VMs : \E i \in DOMAIN (LinuxTargets \o WindowsTargets) : (LinuxTargets \o WindowsTargets)[i] = v
  <2>1. ASSUME NEW i \in DOMAIN LinuxTargets
        PROVE  /\ i \in DOMAIN (LinuxTargets \o WindowsTargets)
               /\ (LinuxTargets \o WindowsTargets)[i] = LinuxTargets[i]
    BY <1>1, <2>1
  <2>2. ASSUME NEW i \in DOMAIN WindowsTargets
        PROVE  /\ Len(LinuxTargets) + i \in DOMAIN (LinuxTargets \o WindowsTargets)
               /\ (LinuxTargets \o WindowsTargets)[Len(LinuxTargets) + i] = WindowsTargets[i]
    BY <1>1, <2>2
  <2> QED BY <2>1, <2>2 DEF VMs, Elements
<1>4. \A p \in Phases : Items(p) \in Seq(VMs)
  BY <1>1, <1>2 DEF Items, Phases
<1>5. \A p \in Phases : On(p) \subseteq {Items(p)[i] : i \in DOMAIN Items(p)}
  BY <1>3 DEF Items, Phases, On, Elements
<1>6. \A p \in Phases, v \in VMs : DOMAIN StepsOf(p, v) \subseteq Nat
  BY CustomizationAssumption DEF StepsOf, IsSequence, Phases
<1> QED BY <1>4, <1>5, <1>6

LEMMA DueSets ==
  ASSUME NEW v \in VMs
  PROVE  /\ Due("linux", v) = IF v \in Elements(LinuxTargets) THEN {"linux"} ELSE {}
         /\ Due("windows", v) = IF v \in Elements(WindowsTargets) THEN Elements(WindowsSteps) ELSE {}
         /\ \A r \in {"controller", "member"} :
              Due(r, v) = IF v \in Elements(WindowsTargets) /\ Role[v] = r THEN {"domain"} ELSE {}
         /\ Due("blocks", v) = Elements(Blocks[v])
         /\ Due("syntax", v) = {} /\ Due("end", v) = {}
<1>1. Elements(<<"linux">>) = {"linux"} /\ Elements(<<"domain">>) = {"domain"} /\ Elements(<<>>) = {}
  BY DEF Elements
<1> QED BY <1>1 DEF Due, On, StepsOf

LEMMA Dues ==
  ASSUME NEW v \in VMs
  PROVE  /\ \A p \in Phases : On(p) \subseteq VMs /\ Due(p, v) \subseteq Plan(v)
         /\ Plan(v) \subseteq Steps \ {NoStep}
         /\ \A s \in Standard(v) : \E q \in Earlier("blocks") : s \in Due(q, v)
         /\ \A q \in Earlier("blocks") : Due(q, v) \subseteq Standard(v)
         /\ v \in On("blocks") <=> Blocks[v] # <<>>
         /\ Elements(Blocks[v]) = Due("blocks", v)

<1>1. \A p \in Phases : On(p) \subseteq VMs
  BY DEF On, VMs, Phases
<1>3. \A p \in Phases : Due(p, v) \subseteq Plan(v)
  BY DueSets, CustomizationAssumption DEF Plan, Standard, Phases, VMs
<1>4. Plan(v) \subseteq Steps \ {NoStep}
  BY CustomizationAssumption DEF Plan, Standard, Steps, VMs, NoStep
<1>5. \A s \in Standard(v) : \E q \in Earlier("blocks") : s \in Due(q, v)
  BY DueSets, CustomizationAssumption DEF Standard, Earlier, VMs
<1>6. \A q \in Earlier("blocks") : Due(q, v) \subseteq Standard(v)
  BY DueSets, CustomizationAssumption DEF Standard, Earlier, VMs
<1> QED BY <1>1, DueSets, <1>3, <1>4, <1>5, <1>6 DEF On

LEMMA FiniteVMs == IsFiniteSet(VMs)
<1>1. ASSUME NEW s, IsSequence(s) PROVE IsFiniteSet(Elements(s))
  <2>1. s \in Surjection(1 .. Len(s), Elements(s)) /\ Len(s) \in Nat
    BY <1>1 DEF IsSequence, Elements, Surjection
  <2> QED BY <2>1, FS_NatSurjection DEF ExistsSurjection
<1> QED BY <1>1, FS_Union, CustomizationAssumption DEF VMs

LEMMA CountWorking ==
  ASSUME NEW S \in SUBSET VMs
  PROVE  Cardinality(S) \in Nat /\ (S # {} => Cardinality(S) > 0)
BY FiniteVMs, FS_Subset, FS_CardinalityType, FS_EmptySet

---------------------------------------------------------------------------
(* Types *)

LEMMA UpdateVMs ==
  ASSUME TypeOK
  PROVE  \A x \in Entries : x \in Update /\ x.vm \in VMs
<1>1. \A x \in Update : x.vm \in VMs
  BY DEF Update
<1>2. Entries \subseteq Update
  BY DEF TypeOK, Entries
<1> QED BY <1>1, <1>2

\* What Put does: the lane waits for its update, or is lost on a broken chain.
LEMMA PutParts ==
  ASSUME TypeOK, Waits, NEW v \in VMs, lane[v].pc # "write", NEW l \in Lane,
         NEW st \in Status \cup {"same"}, NEW d \in Steps,
         NEW to \in {"idle", "go", "cmd", "sleep", "throw"}, to = "sleep" => l.tries < MaxAttempts,
         Put(v, l, st, d, to), UNCHANGED broken
  PROVE  /\ lane' \in [VMs -> Lane] /\ lost' \in Nat /\ chain' \in Seq(Update) /\ Waits'
         /\ \A w \in VMs \ {v} : lane'[w] = lane[w]
         /\ \/ /\ broken /\ lost' > 0 /\ Entries' = Entries /\ lane'[v] = Idle
            \/ /\ ~ broken /\ lost' = lost
               /\ Entries' = Entries \cup {[vm |-> v, status |-> st, done |-> d, to |-> to]}
               /\ lane'[v].pc = "write" /\ lane'[v].step = l.step /\ lane'[v].tries = l.tries
<1>1. Idle \in Lane /\ Idle.pc = "idle"
  BY CustomizationAssumption DEF Idle, Lane, Steps
<1>2. CASE broken
  BY <1>1, <1>2 DEF Put, Lose, TypeOK, Waits, Entries
<1>3. CASE ~ broken
  <2> DEFINE e == [vm |-> v, status |-> st, done |-> d, to |-> to]
             w == [l EXCEPT !.pc = "write"]
  <2>1. e \in Update /\ e.vm = v /\ e.to = to
    BY DEF Update
  <2>2. w \in Lane /\ w.pc = "write" /\ w.step = l.step /\ w.tries = l.tries
    BY DEF Lane
  <2>3. chain' = Append(chain, e) /\ lane' = [lane EXCEPT ![v] = w] /\ lost' = lost
    BY <1>3 DEF Put
  <2> HIDE DEF e, w
  <2>4. chain' \in Seq(Update)
    BY <2>1, <2>3 DEF TypeOK
  <2>5. /\ \A i \in DOMAIN chain : i \in DOMAIN chain' /\ chain'[i] = chain[i]
        /\ Len(chain) + 1 \in DOMAIN chain' /\ chain'[Len(chain) + 1] = e
        /\ \A i \in DOMAIN chain' : i \in DOMAIN chain \/ i = Len(chain) + 1
    BY <2>1, <2>3 DEF TypeOK
  <2>6. Entries' = Entries \cup {e}
    BY <2>5 DEF Entries
  <2>7. \A x \in Entries : x.vm # v
    BY DEF Waits
  <2>8. lane' \in [VMs -> Lane] /\ lane'[v] = w /\ \A x \in VMs \ {v} : lane'[x] = lane[x]
    BY <2>2, <2>3 DEF TypeOK
  <2>9. Waits'
    <3>1. \A x \in Entries : x.vm \in VMs
      BY UpdateVMs
    <3>2. \A i, j \in DOMAIN chain' : chain'[i].vm = chain'[j].vm => i = j
      BY <2>1, <2>5, <2>7 DEF Waits, Entries
    <3> QED BY <1>3, <2>1, <2>2, <2>6, <2>7, <2>8, <3>1, <3>2 DEF Waits
  <2> QED BY <1>3, <2>2, <2>3, <2>4, <2>6, <2>8, <2>9 DEF e, TypeOK
<1> QED BY <1>2, <1>3

\* What a lane of an earlier run does to its run, to Redis and to the guest: the
\* run has other lanes and other records, which may be written over what Redis has.
LateLanes(r, x, lanes) ==
  /\ lanes \in SUBSET OldLane
  /\ \A y \in lanes : y \in r.lanes \/ (y.step = NoStep /\ y.pc # "clean" /\ (r.writes \/ x.pc = "go"))

LateRecords(r, x, recs) ==
  /\ recs \in [VMs -> Record]
  /\ \A v \in VMs :
       /\ \A u \in recs[v].done : u \in r.records[v].done \/ (x.pc = "clean" /\ v = x.vm /\ u = x.step)
       /\ r.records[v].done \subseteq recs[v].done
       /\ recs[v].status = "succeeded" =>
            r.records[v].status = "succeeded" \/ (x.pc = "go" /\ Elements(Blocks[v]) \subseteq recs[v].done)

LateRun(r, lanes, recs) ==
  /\ left' \subseteq OldRun
  /\ \A y \in left' : y \in left \/ (y.lanes = lanes /\ y.records = recs /\ y.writes = r.writes)

LateWrite(recs) ==
  UNCHANGED <<saved, overwritten>> \/ (saved' = recs /\ overwritten' = (overwritten \/ recs # saved))

LateStep(r, x) ==
  \E lanes, recs :
    LateLanes(r, x, lanes) /\ LateRecords(r, x, recs) /\ LateRun(r, lanes, recs) /\ LateWrite(recs)

LateEffects(x) ==
  /\ effects' \in [VMs -> SUBSET Steps]
  /\ \A v \in VMs : /\ effects[v] \subseteq effects'[v]
                    /\ \A u \in effects'[v] \ effects[v] : v = x.vm /\ u = x.step /\ u # NoStep

Others == <<job, phase, next, lost, records, broken, lane, chain, aborted, unready, faults>>

LEMMA LateParts ==
  ASSUME TypeOK, NEW r \in left, NEW x \in r.lanes,
         LeftoverEnds(r, x) \/ LeftoverCleaned(r, x) \/ \E v \in VMs : LeftoverTakes(r, x, v)
  PROVE  UNCHANGED Others /\ LateStep(r, x) /\ LateEffects(x)
<1>0. /\ left \subseteq OldRun /\ r \in OldRun /\ x \in OldLane /\ x.vm \in VMs /\ x.step \in Steps
      /\ r.lanes \in SUBSET OldLane /\ r.records \in [VMs -> Record] /\ r.writes \in BOOLEAN
      /\ NoStep \in Steps /\ {"running", "succeeded"} \subseteq Status
      /\ effects \in [VMs -> SUBSET Steps]
  BY DEF TypeOK, OldRun, OldLane, Steps, Status
<1>1. ASSUME NEW lanes \in SUBSET OldLane, NEW recs \in [VMs -> Record], LanesNow(r, lanes, recs)
      PROVE  LateRun(r, lanes, recs)
  <2> DEFINE y0 == [r EXCEPT !.lanes = lanes, !.records = recs]
  <2>1. y0 \in OldRun /\ y0.lanes = lanes /\ y0.records = recs /\ y0.writes = r.writes
    BY <1>0 DEF OldRun
  <2>2. left' \subseteq left \cup {y0}
    BY <1>1 DEF LanesNow
  <2> HIDE DEF y0
  <2> QED BY <1>0, <2>1, <2>2 DEF LateRun
<1>2. ASSUME effects' = effects PROVE LateEffects(x)
  BY <1>0, <1>2 DEF LateEffects
<1>3. CASE LeftoverEnds(r, x)
  <2>1. LanesNow(r, r.lanes \ {x}, r.records)
    BY <1>3 DEF LeftoverEnds
  <2>2. LateWrite(r.records)
    BY <1>3 DEF LeftoverEnds, Overwrite, LateWrite
  <2>3. LateLanes(r, x, r.lanes \ {x}) /\ LateRecords(r, x, r.records)
    BY <1>0 DEF LateLanes, LateRecords
  <2>4. LateRun(r, r.lanes \ {x}, r.records)
    BY <1>0, <1>1, <2>1
  <2>5. LateStep(r, x)
    BY <2>2, <2>3, <2>4, Zenon DEF LateStep
  <2>6. LateEffects(x)
    <3>1. effects' \in {effects, [effects EXCEPT ![x.vm] = @ \cup ({x.step} \ {NoStep})]}
      BY <1>3 DEF LeftoverEnds
    <3> QED BY <1>0, <3>1 DEF LateEffects
  <2> QED BY <1>3, <2>5, <2>6 DEF LeftoverEnds, run, Others
<1>4. CASE LeftoverCleaned(r, x)
  <2> DEFINE recs == [r.records EXCEPT ![x.vm].done = @ \cup {x.step}]
             y0 == [vm |-> x.vm, step |-> NoStep, pc |-> "go"]
             lanes == (r.lanes \ {x}) \cup {y0}
  <2>1. LateRecords(r, x, recs)
    <3>1. x.pc = "clean"
      BY <1>4 DEF LeftoverCleaned
    <3>2. /\ recs \in [VMs -> Record]
          /\ \A v \in VMs : /\ recs[v].status = r.records[v].status
                            /\ recs[v].done = r.records[v].done \cup (IF v = x.vm THEN {x.step} ELSE {})
      BY <1>0 DEF Record
    <3> HIDE DEF recs
    <3> QED BY <3>1, <3>2 DEF LateRecords
  <2>2. LateLanes(r, x, lanes)
    <3>1. y0 \in OldLane /\ y0.step = NoStep /\ y0.pc = "go" /\ r.writes
      BY <1>0, <1>4 DEF OldLane, LeftoverCleaned
    <3> HIDE DEF y0
    <3> QED BY <1>0, <3>1 DEF LateLanes
  <2>3. LanesNow(r, lanes, recs) /\ LateWrite(recs) /\ effects' = effects
    BY <1>4 DEF LeftoverCleaned, Overwrite, LateWrite
  <2> HIDE DEF recs, lanes
  <2>4. LateRun(r, lanes, recs)
    BY <1>1, <2>1, <2>2, <2>3 DEF LateRecords, LateLanes
  <2>5. LateStep(r, x)
    BY <2>1, <2>2, <2>3, <2>4, Zenon DEF LateStep
  <2> QED BY <1>2, <1>4, <2>3, <2>5 DEF LeftoverCleaned, run, Others
<1>5. ASSUME NEW v \in VMs, LeftoverTakes(r, x, v)
      PROVE  UNCHANGED Others /\ LateStep(r, x) /\ LateEffects(x)
  <2> DEFINE all == Elements(Blocks[v]) \subseteq r.records[v].done
             recs == [r.records EXCEPT ![v].status = IF all THEN "succeeded" ELSE "running"]
             y0 == [vm |-> v, step |-> NoStep, pc |-> IF all THEN "go" ELSE "cmd"]
             lanes == (r.lanes \ {x}) \cup {y0}
  <2>1. LanesNow(r, lanes, recs) /\ LateWrite(recs) /\ x.pc = "go" /\ effects' = effects
    BY <1>5 DEF LeftoverTakes, Overwrite, LateWrite
  <2>2. LateLanes(r, x, lanes)
    <3>1. y0 \in OldLane /\ y0.step = NoStep /\ y0.pc # "clean"
      BY <1>0 DEF OldLane
    <3> HIDE DEF y0
    <3> QED BY <1>0, <2>1, <3>1 DEF LateLanes
  <2>3. LateRecords(r, x, recs)
    <3>1. /\ recs \in [VMs -> Record]
          /\ \A w \in VMs : /\ recs[w].done = r.records[w].done
                            /\ recs[w].status = "succeeded" => r.records[w].status = "succeeded" \/ (w = v /\ all)
      BY <1>0 DEF Record
    <3> HIDE DEF recs
    <3> QED BY <2>1, <3>1 DEF LateRecords
  <2> HIDE DEF recs, lanes
  <2>4. LateRun(r, lanes, recs)
    BY <1>1, <2>1, <2>2, <2>3 DEF LateRecords, LateLanes
  <2>5. LateStep(r, x)
    BY <2>1, <2>2, <2>3, <2>4, Zenon DEF LateStep
  <2> QED BY <1>2, <1>5, <2>1, <2>5 DEF LeftoverTakes, run, Others
<1> QED BY <1>3, <1>4, <1>5

\* One of them takes each step of LeftoverNext.
LEMMA LateOne ==
  ASSUME TypeOK, LeftoverNext
  PROVE  UNCHANGED Others /\ \E r \in left : \E x \in r.lanes : LateStep(r, x) /\ LateEffects(x)
BY LateParts DEF LeftoverNext

\* The first update of the chain, when there is one
LEMMA FirstUpdate ==
  ASSUME TypeOK, Waits, chain # <<>>
  PROVE  /\ Head(chain) \in Update /\ Head(chain) \in Entries /\ Head(chain).vm \in VMs
         /\ Tail(chain) \in Seq(Update)
         /\ {Tail(chain)[i] : i \in DOMAIN Tail(chain)} = Entries \ {Head(chain)}
         /\ \A x \in Entries \ {Head(chain)} : x.vm \in VMs /\ x.vm # Head(chain).vm
         /\ \A i, j \in DOMAIN Tail(chain) : Tail(chain)[i].vm = Tail(chain)[j].vm => i = j
         /\ ~ broken
<1>1. /\ Len(chain) \in Nat \ {0} /\ Head(chain) = chain[1] /\ 1 \in DOMAIN chain
      /\ DOMAIN Tail(chain) = 1 .. (Len(chain) - 1)
      /\ \A i \in DOMAIN Tail(chain) : Tail(chain)[i] = chain[i + 1] /\ i + 1 \in DOMAIN chain
      /\ Tail(chain) \in Seq(Update) /\ Head(chain) \in Update
      /\ \A i \in DOMAIN chain : i # 1 => i - 1 \in DOMAIN Tail(chain) /\ chain[i] = Tail(chain)[i - 1]
  BY DEF TypeOK
<1>2. \A i \in DOMAIN chain : i # 1 => chain[i].vm # chain[1].vm
  BY <1>1 DEF Waits
<1>3. \A i \in DOMAIN chain : chain[i] \in Update /\ chain[i].vm \in VMs
  BY UpdateVMs DEF Entries
<1>4. {Tail(chain)[i] : i \in DOMAIN Tail(chain)} = Entries \ {Head(chain)}
  <2>1. ASSUME NEW i \in DOMAIN Tail(chain) PROVE Tail(chain)[i] \in Entries \ {Head(chain)}
    <3>1. i + 1 # 1
      BY <1>1, <2>1
    <3> QED BY <1>1, <1>2, <2>1, <3>1 DEF Entries
  <2>2. ASSUME NEW x \in Entries \ {Head(chain)} PROVE \E i \in DOMAIN Tail(chain) : Tail(chain)[i] = x
    <3>1. PICK i \in DOMAIN chain : chain[i] = x
      BY <2>2 DEF Entries
    <3>2. i # 1
      BY <1>1, <2>2, <3>1
    <3> QED BY <1>1, <3>1, <3>2
  <2> QED BY <2>1, <2>2
<1>5. \A x \in Entries \ {Head(chain)} : x.vm \in VMs /\ x.vm # Head(chain).vm
  BY <1>1, <1>2, <1>3 DEF Entries
<1>6. \A i, j \in DOMAIN Tail(chain) : Tail(chain)[i].vm = Tail(chain)[j].vm => i = j
  <2> SUFFICES ASSUME NEW i \in DOMAIN Tail(chain), NEW j \in DOMAIN Tail(chain),
                      Tail(chain)[i].vm = Tail(chain)[j].vm
               PROVE  i = j
    OBVIOUS
  <2>1. i + 1 = j + 1
    BY <1>1 DEF Waits
  <2> QED BY <1>1, <2>1
<1> QED BY <1>1, <1>3, <1>4, <1>5, <1>6 DEF Entries, Waits

LEMMA PatchTypes ==
  ASSUME TypeOK, NEW e \in Update
  PROVE  /\ Patch(e) \in [VMs -> Record]
         /\ \A v \in VMs \ {e.vm} : Patch(e)[v] = records[v]
         /\ Patch(e)[e.vm].status = IF e.status = "same" THEN records[e.vm].status ELSE e.status
         /\ Patch(e)[e.vm].done = records[e.vm].done \cup ({e.done} \ {NoStep})
<1> DEFINE st == IF e.status = "same" THEN records[e.vm].status ELSE e.status
           dn == records[e.vm].done \cup ({e.done} \ {NoStep})
<1>1. e.vm \in VMs /\ records \in [VMs -> Record] /\ st \in Status /\ dn \in SUBSET Steps
  BY DEF TypeOK, Update, Record
<1> DEFINE half == [records EXCEPT ![e.vm].status = IF e.status = "same" THEN @ ELSE e.status]
<1>2. Patch(e) = [records EXCEPT ![e.vm] = [status |-> st, done |-> dn]]
  <2>1. half = [records EXCEPT ![e.vm] = [status |-> st, done |-> records[e.vm].done]]
    <3>1. ASSUME NEW r \in Record, NEW x PROVE [r EXCEPT !.status = x] = [status |-> x, done |-> r.done]
      BY DEF Record
    <3>2. records[e.vm] \in Record
      BY <1>1
    <3>3. [records[e.vm] EXCEPT !.status = st] = [status |-> st, done |-> records[e.vm].done]
      BY <3>1, <3>2
    <3> QED BY <3>3
  <2>2. Patch(e) = [half EXCEPT ![e.vm].done = @ \cup ({e.done} \ {NoStep})]
    BY DEF Patch
  <2>3. half[e.vm] = [status |-> st, done |-> records[e.vm].done]
    BY <1>1, <2>1
  <2> HIDE DEF half, st
  <2> QED BY <1>1, <2>1, <2>2, <2>3
<1> HIDE DEF st, dn
<1>3. [status |-> st, done |-> dn] \in Record
  BY <1>1 DEF Record
<1>4. /\ Patch(e) \in [VMs -> Record]
      /\ \A v \in VMs \ {e.vm} : Patch(e)[v] = records[v]
      /\ Patch(e)[e.vm] = [status |-> st, done |-> dn]
  BY <1>1, <1>2, <1>3
<1> QED BY <1>4 DEF st, dn

\* What a run leaves behind when the next one begins
LEMMA LeftoverType ==
  ASSUME TypeOK, Quiet
  PROVE  Leftover \in OldRun
<1>1. \A v \in Working : /\ v \in VMs /\ lane[v].step \in Steps /\ lane[v].pc \in {"cmd", "clean", "go"}
  BY DEF TypeOK, Lane, Working, Quiet
<1>2. {[vm |-> v, step |-> lane[v].step, pc |-> lane[v].pc] : v \in Working} \in SUBSET OldLane
  BY <1>1 DEF OldLane
<1>3. records \in [VMs -> Record] /\ NoResults \in [VMs -> Record]
  BY DEF TypeOK, NoResults, Record, Status
<1>4. (phase = "blocks" /\ aborted /\ ~ broken) \in BOOLEAN
  BY Zenon
<1> QED BY <1>2, <1>3, <1>4 DEF Leftover, OldRun, TypeOK

Typed == TypeOK /\ Waits

LEMMA TypeStep == Typed /\ [Next]_vars => Typed'
<1> SUFFICES ASSUME TypeOK, Waits, [Next]_vars PROVE TypeOK' /\ Waits'
  BY DEF Typed
<1> USE CustomizationAssumption
<1> DEFINE Goal == TypeOK' /\ Waits'
           Rest == lane' \in [VMs -> Lane] /\ lost' \in Nat /\ chain' \in Seq(Update) /\ Waits'
<1>0. /\ Idle \in Lane /\ Idle.pc = "idle" /\ NoStep \in Steps /\ {"pending", "succeeded"} \subseteq Status
      /\ \A v \in VMs : lane[v] \in Lane /\ lane[v].step \in Steps
      /\ \A e \in Entries : e \in Update /\ e.vm \in VMs
  BY UpdateVMs DEF Idle, Lane, Steps, TypeOK, NoStep, Status
<1>1. CASE Written
  <2> DEFINE e == Head(chain)
             l == IF e.to = "idle" THEN Idle ELSE [lane[e.vm] EXCEPT !.pc = e.to]
  <2>1. chain # <<>>
    BY <1>1 DEF Written
  <2>2. /\ e \in Update /\ e \in Entries /\ e.vm \in VMs /\ Tail(chain) \in Seq(Update)
        /\ {Tail(chain)[i] : i \in DOMAIN Tail(chain)} = Entries \ {e}
        /\ \A x \in Entries \ {e} : x.vm \in VMs /\ x.vm # e.vm
        /\ \A i, j \in DOMAIN Tail(chain) : Tail(chain)[i].vm = Tail(chain)[j].vm => i = j
        /\ ~ broken
    BY <2>1, FirstUpdate
  <2>3. l \in Lane /\ l.pc = e.to /\ (e.to # "idle" => l.tries = lane[e.vm].tries)
    <3>1. e.to \in {"idle", "go", "cmd", "sleep", "throw"}
      BY <2>2 DEF Update
    <3>2. lane[e.vm] \in Lane
      BY <1>0, <2>2
    <3> QED BY <1>0, <3>1, <3>2 DEF Lane
  <2>4. lane' = [lane EXCEPT ![e.vm] = l]
    BY <1>1 DEF Written
  <2>5. records' \in [VMs -> Record] /\ saved' \in [VMs -> Record]
    BY <1>1, <2>2, PatchTypes DEF Written, Saved
  <2>6. chain' = Tail(chain) /\ Entries' = Entries \ {e}
    <3>1. chain' = Tail(chain)
      BY <1>1 DEF Written
    <3>2. Entries' = {Tail(chain)[i] : i \in DOMAIN Tail(chain)}
      BY <3>1 DEF Entries
    <3> QED BY <2>2, <3>1, <3>2
  <2>7. UNCHANGED <<job, phase, next, lost, broken, aborted, unready, left, effects, overwritten, faults>>
    BY <1>1 DEF Written
  <2>a. e.to \in {"idle", "go", "cmd", "sleep", "throw"}
    BY <2>2 DEF Update
  <2> HIDE DEF e, l
  <2>8. lane' \in [VMs -> Lane] /\ lane'[e.vm] = l /\ \A w \in VMs \ {e.vm} : lane'[w] = lane[w]
    BY <2>2, <2>3, <2>4 DEF TypeOK
  <2>9. Waits'
    BY <2>2, <2>3, <2>6, <2>7, <2>8 DEF Waits
  <2> QED BY <2>2, <2>5, <2>6, <2>7, <2>8, <2>9 DEF TypeOK
<1>2. CASE Take
  <2> DEFINE v == Items(phase)[next]
             l == [lane[v] EXCEPT !.pc = "go"]
  <2>1. v \in VMs
    BY <1>2, Lists DEF Take, TypeOK
  <2>2. lane[v].pc = "idle" /\ UNCHANGED broken
    BY <1>2, <2>1 DEF Take, Working
  <2>3. l \in Lane /\ l.pc = "go"
    BY <1>0, <2>1 DEF Lane
  <2>4. \/ UNCHANGED <<lane, lost, chain>>
        \/ Put(v, Idle, "running", NoStep, "go")
        \/ lane' = [lane EXCEPT ![v] = l] /\ UNCHANGED <<lost, chain>>
    BY <1>2 DEF Take
  <2>5. UNCHANGED <<job, phase, records, broken, saved, aborted, unready, left, effects, overwritten, faults>> /\ next' \in Nat \ {0}
    BY <1>2 DEF Take, TypeOK
  <2> HIDE DEF v, l
  <2>6. CASE Put(v, Idle, "running", NoStep, "go")
    BY <1>0, <2>1, <2>2, <2>5, <2>6, PutParts DEF TypeOK, Status
  <2>7. CASE lane' = [lane EXCEPT ![v] = l] /\ UNCHANGED <<lost, chain>>
    <3>1. lane' \in [VMs -> Lane] /\ lane'[v] = l /\ \A w \in VMs \ {v} : lane'[w] = lane[w]
      BY <2>1, <2>3, <2>7 DEF TypeOK
    <3>2. Entries' = Entries
      BY <2>7 DEF Entries
    <3>3. Waits'
      BY <1>0, <2>1, <2>2, <2>3, <2>5, <2>7, <3>1, <3>2 DEF Waits
    <3> QED BY <2>5, <2>7, <3>1, <3>3 DEF TypeOK
  <2>8. CASE UNCHANGED <<lane, lost, chain>>
    BY <2>5, <2>8 DEF TypeOK, Waits, Entries
  <2> QED BY <2>4, <2>6, <2>7, <2>8
<1>3. ASSUME NEW v \in VMs, Proceed(v) PROVE Goal
  <2>1. CASE Todo(v) = {} /\ Put(v, Idle, Finished(v), NoStep, "idle")
    BY <1>0, <1>3, <2>1, PutParts DEF Proceed, TypeOK, Finished
  <2>2. ASSUME NEW i \in Todo(v),
               LET l == [pc |-> "cmd", step |-> StepsOf(phase, v)[i], tries |-> 1] IN
               IF phase = "linux"
               THEN lane' = [lane EXCEPT ![v] = l] /\ UNCHANGED <<lost, chain>>
               ELSE Put(v, l, "running", NoStep, "cmd")
        PROVE  Rest
    <3>1. StepsOf(phase, v)[i] \in Steps
      <4>1. CASE phase = "linux"
        BY <4>1 DEF Todo, StepsOf, Steps
      <4>2. CASE phase = "windows"
        BY <4>2 DEF Todo, StepsOf, Steps, Elements
      <4>3. CASE phase = "blocks"
        BY <4>3 DEF Todo, StepsOf, Steps, Elements
      <4>4. CASE phase \notin {"linux", "windows", "blocks"}
        BY <4>4 DEF Todo, StepsOf, Steps
      <4> QED BY <4>1, <4>2, <4>3, <4>4
    <3> DEFINE l == [pc |-> "cmd", step |-> StepsOf(phase, v)[i], tries |-> 1]
    <3>2. l \in Lane /\ l.pc = "cmd"
      BY <3>1 DEF Lane
    <3>3. UNCHANGED broken /\ lane[v].pc = "go"
      BY <1>3 DEF Proceed
    <3>4. \/ Put(v, l, "running", NoStep, "cmd")
          \/ lane' = [lane EXCEPT ![v] = l] /\ UNCHANGED <<lost, chain>>
      BY <2>2
    <3> HIDE DEF l
    <3>5. CASE Put(v, l, "running", NoStep, "cmd")
      BY <1>0, <3>2, <3>3, <3>5, PutParts DEF Status
    <3>6. CASE lane' = [lane EXCEPT ![v] = l] /\ UNCHANGED <<lost, chain>>
      <4>1. lane' \in [VMs -> Lane] /\ lane'[v] = l /\ \A w \in VMs \ {v} : lane'[w] = lane[w]
        BY <3>2, <3>6 DEF TypeOK
      <4>2. Entries' = Entries
        BY <3>6 DEF Entries
      <4>3. Waits'
        BY <1>0, <3>2, <3>3, <3>6, <4>1, <4>2 DEF Waits
      <4> QED BY <3>6, <4>1, <4>3 DEF TypeOK
    <3> QED BY <3>4, <3>5, <3>6
  <2>3. Rest
    <3>1. CASE Todo(v) = {}
      BY <1>0, <1>3, <2>1, <3>1, PutParts DEF Proceed, Finished
    <3>2. CASE Todo(v) # {}
      BY <1>3, <2>2, <3>2, <2>1, <1>0, PutParts DEF Proceed, Finished
    <3> QED BY <3>1, <3>2
  <2> QED BY <1>3, <2>3 DEF Proceed, TypeOK
<1>d. ASSUME NEW v \in VMs, NEW l \in Lane, lane[v].pc # "write", l.pc \notin {"sleep", "write"},
             lane' = [lane EXCEPT ![v] = l], UNCHANGED <<lost, chain, broken>>
      PROVE  Rest
  <2>1. lane' \in [VMs -> Lane] /\ lane'[v] = l /\ \A w \in VMs \ {v} : lane'[w] = lane[w]
    BY <1>d DEF TypeOK
  <2>2. Entries' = Entries
    BY <1>d DEF Entries
  <2>3. Waits'
    BY <1>0, <1>d, <2>1, <2>2 DEF Waits
  <2> QED BY <1>d, <2>1, <2>3 DEF TypeOK
<1>4. ASSUME NEW v \in VMs, Succeeds(v) PROVE Goal
  <2>1. Rest
    <3> DEFINE l == [lane[v] EXCEPT !.pc = "clean"]
    <3>1. l \in Lane /\ l.pc = "clean"
      BY <1>0 DEF Lane
    <3>2. /\ lane[v].pc = "cmd" /\ UNCHANGED broken
          /\ \/ Put(v, lane[v], Finished(v), lane[v].step, "idle")
             \/ Put(v, lane[v], "same", lane[v].step, "go")
             \/ lane' = [lane EXCEPT ![v] = l] /\ UNCHANGED <<lost, chain>>
      BY <1>4 DEF Succeeds
    <3>3. Finished(v) \in Status
      BY <1>0 DEF Finished
    <3> HIDE DEF l
    <3>4. CASE lane' = [lane EXCEPT ![v] = l] /\ UNCHANGED <<lost, chain>>
      BY <1>d, <3>1, <3>2, <3>4
    <3> QED BY <1>0, <3>2, <3>3, <3>4, PutParts
  <2>2. effects' \in [VMs -> SUBSET Steps]
    BY <1>0, <1>4 DEF Succeeds, TypeOK
  <2> QED BY <1>4, <2>1, <2>2 DEF Succeeds, TypeOK
<1>e. ASSUME NEW v \in VMs, Cleaned(v) PROVE Goal
  <2>1. Rest
    BY <1>0, <1>e, PutParts DEF Cleaned
  <2> QED BY <1>e, <2>1 DEF Cleaned, TypeOK
<1>5. ASSUME NEW v \in VMs, Fails(v) PROVE Goal
  <2>1. Rest
    BY <1>0, <1>5, PutParts DEF Fails, Again, Status
  <2>2. effects' \in [VMs -> SUBSET Steps]
    BY <1>0, <1>5 DEF Fails, TypeOK
  <2> QED BY <1>5, <2>1, <2>2 DEF Fails, TypeOK, Fault
<1>6. ASSUME NEW v \in VMs, Probe(v) PROVE Goal
  <2> DEFINE l == [lane[v] EXCEPT !.tries = @ + 1]
  <2>1. lane[v].tries < MaxAttempts /\ lane[v].pc = "sleep"
    BY <1>6 DEF Probe, Waits
  <2>2. l \in Lane
    BY <1>0, <2>1 DEF Lane
  <2>3. /\ UNCHANGED broken
        /\ \/ Put(v, l, "running", NoStep, "cmd")
           \/ Put(v, Idle, "failed", NoStep, "idle")
           \/ l.tries < MaxAttempts /\ Put(v, l, "retrying", NoStep, "sleep")
    BY <1>6 DEF Probe
  <2> HIDE DEF l
  <2>4. Rest
    BY <1>0, <2>1, <2>2, <2>3, PutParts DEF Status
  <2> QED BY <1>6, <2>4 DEF Probe, TypeOK, Fault
<1>7. ASSUME NEW v \in VMs, Stopped(v) \/ SyntaxFails(v) PROVE Goal
  <2>1. CASE Stopped(v)
    <3>1. /\ lane[v].pc \in {"cmd", "sleep", "throw"}
          /\ UNCHANGED <<job, phase, next, records, broken, saved, aborted, unready, left, overwritten, faults>>
          /\ \/ Put(v, lane[v], "same", NoStep, "throw")
             \/ Lose(v) /\ UNCHANGED chain
      BY <2>1 DEF Stopped
    <3>2. effects' \in [VMs -> SUBSET Steps]
      BY <1>0, <2>1 DEF Stopped, TypeOK
    <3>3. CASE Put(v, lane[v], "same", NoStep, "throw")
      <4>1. Rest
        BY <1>0, <3>1, <3>3, PutParts
      <4> QED BY <3>1, <3>2, <4>1 DEF TypeOK
    <3>4. CASE Lose(v) /\ UNCHANGED chain
      <4>1. lane' \in [VMs -> Lane] /\ lane'[v] = Idle /\ \A w \in VMs \ {v} : lane'[w] = lane[w]
        BY <1>0, <3>4 DEF Lose, TypeOK
      <4>2. Entries' = Entries /\ lane[v].pc # "write" /\ lost' = lost + 1 /\ lost' \in Nat /\ lost' > 0
        BY <3>1, <3>4 DEF Entries, Lose, TypeOK
      <4>3. Waits'
        BY <1>0, <3>1, <3>4, <4>1, <4>2 DEF Waits
      <4> QED BY <3>1, <3>2, <3>4, <4>1, <4>2, <4>3 DEF TypeOK
    <3> QED BY <3>1, <3>3, <3>4
  <2>2. CASE SyntaxFails(v)
    <3>1. records' \in [VMs -> Record]
      BY <2>2 DEF SyntaxFails, TypeOK, Record, Status
    <3>2. Waits'
      BY <2>2 DEF SyntaxFails, Waits, Entries
    <3> QED BY <2>2, <3>1, <3>2 DEF SyntaxFails, Fault, TypeOK
  <2> QED BY <1>7, <2>1, <2>2
<1>8. CASE WriteFails
  <2> DEFINE waiting == {v \in VMs : lane[v].pc = "write"}
  <2>1. waiting # {} /\ chain # <<>>
    BY <1>8, FirstUpdate DEF WriteFails, Waits
  <2>2. lost' \in Nat /\ lost' > 0
    <3>1. Cardinality(waiting) \in Nat /\ Cardinality(waiting) > 0
      BY <2>1, CountWorking
    <3>2. lost' = lost + Cardinality(waiting)
      BY <1>8 DEF WriteFails
    <3> HIDE DEF waiting
    <3> QED BY <3>1, <3>2 DEF TypeOK
  <2>3. saved' \in [VMs -> Record]
    BY <1>8, <2>1, PatchTypes, FirstUpdate DEF WriteFails, TypeOK, Saved
  <2>4. lane' \in [VMs -> Lane] /\ \A v \in VMs : lane'[v] = Idle \/ lane'[v] = lane[v]
    BY <1>0, <1>8 DEF WriteFails, TypeOK
  <2>5. chain' = <<>> /\ Entries' = {} /\ chain' \in Seq(Update)
    BY <1>8 DEF WriteFails, Entries
  <2>6. Waits'
    BY <1>0, <2>2, <2>4, <2>5 DEF Waits
  <2> QED BY <1>8, <2>2, <2>3, <2>4, <2>5, <2>6 DEF WriteFails, Fault, TypeOK
<1>9. CASE Crash
  <2>1. saved' \in [VMs -> Record]
    BY <1>9, PatchTypes, FirstUpdate DEF Crash, TypeOK, Saved
  <2>2. /\ chain' = <<>> /\ Entries' = {} /\ chain' \in Seq(Update) /\ broken' = broken
        /\ lane' \in [VMs -> Lane] /\ (\A v \in VMs : lane'[v] = Idle) /\ lost' \in Nat /\ lost' > 0
    BY <1>0, <1>9 DEF Crash, Entries
  <2>3. Waits'
    BY <1>0, <2>2 DEF Waits
  <2> QED BY <1>9, <2>1, <2>2, <2>3 DEF Crash, Fault, TypeOK
<1>10. CASE Start
  <2>1. /\ chain' = <<>> /\ Entries' = {} /\ chain' \in Seq(Update) /\ broken' = FALSE
        /\ lane' \in [VMs -> Lane] /\ (\A v \in VMs : lane'[v] = Idle)
    BY <1>0, <1>10 DEF Start, Entries
  <2>2. Waits'
    BY <1>0, <2>1 DEF Waits
  <2>3. left' \subseteq OldRun
    BY <1>10, LeftoverType DEF Start, TypeOK
  <2>4. /\ job' = "active" /\ phase' \in Phases /\ next' = 1 /\ lost' = 0 /\ records' = saved
        /\ aborted' = FALSE /\ UNCHANGED <<saved, unready, effects, overwritten, faults>>
    BY <1>10 DEF Start, First, Phases
  <2>5. lost' \in Nat /\ next' \in Nat \ {0}
    BY <2>4
  <2>7. broken' \in BOOLEAN /\ aborted' \in BOOLEAN
    BY <2>1, <2>4, Zenon
  <2>6. records' \in [VMs -> Record] /\ saved' \in [VMs -> Record] /\ effects' \in [VMs -> SUBSET Steps]
        /\ unready' \in BOOLEAN /\ overwritten' \in BOOLEAN /\ faults' \in Nat
    BY <2>4 DEF TypeOK
  <2> QED BY <2>1, <2>2, <2>3, <2>4, <2>5, <2>6, <2>7 DEF TypeOK
<1>11. CASE NextPhase \/ Complete \/ JobFails \/ Resume \/ Abort
  <2>1. UNCHANGED <<lane, lost, chain, broken, records, saved, left, effects, overwritten>>
    BY <1>11 DEF NextPhase, Complete, JobFails, Resume, Abort, run
  <2>2. Waits'
    BY <2>1 DEF Waits, Entries
  <2>3. /\ job' \in {"waiting", "active", "failed", "completed"} /\ phase' \in Phases /\ next' \in Nat \ {0}
        /\ aborted' \in BOOLEAN /\ unready' \in BOOLEAN /\ faults' \in Nat
    <3>1. CASE NextPhase
      <4>1. After(phase) \in Phases
        BY DEF After, Phases
      <4> QED BY <3>1, <4>1 DEF NextPhase, TypeOK
    <3>2. CASE Complete \/ JobFails \/ Resume
      BY <3>2 DEF Complete, JobFails, Resume, TypeOK, run
    <3>3. CASE Abort
      BY <3>3 DEF Abort, Fault, TypeOK, run
    <3> QED BY <1>11, <3>1, <3>2, <3>3
  <2> QED BY <2>1, <2>2, <2>3 DEF TypeOK
<1>12. CASE LeftoverNext
  <2>0. PICK r \in left : \E x \in r.lanes : LateStep(r, x) /\ LateEffects(x)
    BY <1>12, LateOne DEF Typed
  <2>1. PICK x \in r.lanes : LateStep(r, x) /\ LateEffects(x)
    BY <2>0
  <2>2. PICK lanes, recs : LateLanes(r, x, lanes) /\ LateRecords(r, x, recs) /\ LateRun(r, lanes, recs) /\ LateWrite(recs)
    BY <2>1, Zenon DEF LateStep
  <2>3. overwritten \in BOOLEAN /\ saved \in [VMs -> Record]
    BY DEF TypeOK
  <2>4. effects' \in [VMs -> SUBSET Steps] /\ left' \subseteq OldRun /\ saved' \in [VMs -> Record]
    BY <2>1, <2>2, <2>3 DEF LateEffects, LateRun, LateRecords, LateWrite
  <2>5. overwritten' \in BOOLEAN
    <3>1. CASE overwritten' = overwritten
      BY <2>3, <3>1
    <3>2. CASE overwritten' = (overwritten \/ recs # saved)
      BY <3>2
    <3> QED BY <2>2, <3>1, <3>2 DEF LateWrite
  <2>6. UNCHANGED Others
    BY <1>12, LateOne
  <2> QED BY <2>4, <2>5, <2>6 DEF TypeOK, Waits, Entries, Others
<1>13. CASE UNCHANGED vars
  BY <1>13 DEF vars, TypeOK, Waits, Entries
<1> QED BY <1>1, <1>2, <1>3, <1>4, <1>e, <1>5, <1>6, <1>7, <1>8, <1>9, <1>10, <1>11, <1>12, <1>13
        DEF Next, LaneNext, RunNext, FaultNext

---------------------------------------------------------------------------
(* What the steps do *)

\* No step takes back what a VM has been through.
LEMMA EffectsGrow ==
  ASSUME Typed, [Next]_vars
  PROVE  \A v \in VMs : effects[v] \subseteq effects'[v]
<1> USE DEF Typed, TypeOK
<1>1. ASSUME NEW v \in VMs, Succeeds(v) \/ Fails(v) \/ Stopped(v) PROVE \A w \in VMs : effects[w] \subseteq effects'[w]
  BY <1>1 DEF Succeeds, Fails, Stopped
<1>2. CASE LeftoverNext
  BY <1>2, LateOne DEF LateEffects
<1>3. CASE effects' = effects
  BY <1>3
<1> QED BY <1>1, <1>2, <1>3 DEF Next, LaneNext, RunNext, FaultNext, vars, Written, Take, Proceed, Cleaned, Probe,
        Start, NextPhase, Complete, JobFails, Resume, WriteFails, Crash, Abort, SyntaxFails

\* Only a lane of an earlier run overwrites what Redis has.
LEMMA Overwritten ==
  ASSUME Typed, [Next]_vars
  PROVE  /\ overwritten => overwritten'
         /\ overwritten' = overwritten \/ LeftoverNext
         /\ LeftoverNext => overwritten' \/ UNCHANGED saved
<1>1. CASE LeftoverNext
  <2>0. PICK r \in left : \E x \in r.lanes : LateStep(r, x) /\ LateEffects(x)
    BY <1>1, LateOne DEF Typed
  <2>1. PICK x \in r.lanes : LateStep(r, x) /\ LateEffects(x)
    BY <2>0
  <2>2. PICK recs : LateWrite(recs)
    BY <2>1, Zenon DEF LateStep
  <2>3. CASE UNCHANGED <<saved, overwritten>>
    BY <1>1, <2>3
  <2>4. CASE saved' = recs /\ overwritten' = (overwritten \/ recs # saved)
    BY <1>1, <2>4, Zenon
  <2> QED BY <2>2, <2>3, <2>4 DEF LateWrite
<1>2. CASE overwritten' = overwritten /\ ~ LeftoverNext
  BY <1>2
<1> QED BY <1>1, <1>2 DEF Next, LaneNext, RunNext, FaultNext, vars, Written, Take, Proceed, Succeeds, Cleaned, Fails,
        Probe, Stopped, Start, NextPhase, Complete, JobFails, Resume, WriteFails, Crash, Abort, SyntaxFails

LEMMA WrittenParts ==
  ASSUME Typed, Written
  PROVE  \E e \in Entries :
           /\ e \in Update /\ e.vm \in VMs /\ lane[e.vm].pc = "write" /\ ~ broken
           /\ \A x \in Entries \ {e} : x.vm \in VMs /\ x.vm # e.vm
           /\ Entries' = Entries \ {e}
           /\ lane'[e.vm].pc = e.to /\ (e.to # "idle" => lane'[e.vm].step = lane[e.vm].step)
           /\ \A v \in VMs \ {e.vm} : lane'[v] = lane[v] /\ records'[v] = records[v]
           /\ records'[e.vm].status = IF e.status = "same" THEN records[e.vm].status ELSE e.status
           /\ records'[e.vm].done = records[e.vm].done \cup ({e.done} \ {NoStep})
           /\ saved' = records'
           /\ UNCHANGED <<job, phase, next, lost, broken, aborted, unready, left, effects, overwritten, faults>>
<1> USE DEF Typed
<1> DEFINE e == Head(chain)
           l == IF e.to = "idle" THEN Idle ELSE [lane[e.vm] EXCEPT !.pc = e.to]
<1>1. chain # <<>>
  BY DEF Written
<1>2. /\ e \in Update /\ e \in Entries /\ e.vm \in VMs
      /\ {Tail(chain)[i] : i \in DOMAIN Tail(chain)} = Entries \ {e}
      /\ \A x \in Entries \ {e} : x.vm \in VMs /\ x.vm # e.vm
      /\ ~ broken
  BY <1>1, FirstUpdate
<1>3. l.pc = e.to /\ (e.to # "idle" => l.step = lane[e.vm].step)
  <2>1. lane[e.vm] \in Lane
    BY <1>2 DEF TypeOK
  <2> QED BY <2>1 DEF Lane, Idle
<1>4. lane' = [lane EXCEPT ![e.vm] = l] /\ chain' = Tail(chain)
  BY DEF Written
<1>5. Entries' = Entries \ {e}
  <2>1. Entries' = {Tail(chain)[i] : i \in DOMAIN Tail(chain)}
    BY <1>4 DEF Entries
  <2> QED BY <2>1, <1>2
<1>6. /\ \A v \in VMs \ {e.vm} : records'[v] = records[v]
      /\ records'[e.vm].status = IF e.status = "same" THEN records[e.vm].status ELSE e.status
      /\ records'[e.vm].done = records[e.vm].done \cup ({e.done} \ {NoStep})
      /\ saved' = records'
  BY <1>2, PatchTypes DEF Written, Saved
<1>7. UNCHANGED <<job, phase, next, lost, broken, aborted, unready, left, effects, overwritten, faults>>
  BY DEF Written
<1>8. lane[e.vm].pc = "write"
  BY <1>2 DEF Waits
<1> HIDE DEF e, l
<1>9. lane'[e.vm] = l /\ \A v \in VMs \ {e.vm} : lane'[v] = lane[v]
  BY <1>2, <1>4 DEF TypeOK
<1> QED BY <1>2, <1>3, <1>5, <1>6, <1>7, <1>8, <1>9

\* The steps that change neither a lane nor a record: the run moves on, or
\* something outside it happens.
Aside ==
  \/ NextPhase \/ Complete \/ JobFails \/ Resume \/ Abort
  \/ LeftoverNext
  \/ UNCHANGED vars

LEMMA AsideKeeps ==
  ASSUME Typed, Aside
  PROVE  /\ UNCHANGED <<lane, records, broken, lost, unready>> /\ Entries' = Entries /\ Working' = Working
         /\ UNCHANGED saved \/ LeftoverNext
         /\ UNCHANGED <<phase, next>> \/ NextPhase
<1>1. CASE LeftoverNext
  <2>1. UNCHANGED <<lane, chain, records, broken, lost, unready, phase, next>>
    BY <1>1, LateOne DEF Others, Typed
  <2> QED BY <1>1, <2>1 DEF Entries, Working
<1>2. CASE NextPhase \/ Complete \/ JobFails \/ Resume \/ Abort \/ UNCHANGED vars
  BY <1>2 DEF NextPhase, Complete, JobFails, Resume, Abort, vars, run, Entries, Working
<1> QED BY <1>1, <1>2 DEF Aside

\* After a fault of the run, or when it starts, no update is queued, the lanes
\* that waited are gone, and a resumed run begins with what Redis has.
LEMMA Cleared ==
  ASSUME Typed, WriteFails \/ Crash \/ Start
  PROVE  /\ Entries' = {} /\ (\A v \in VMs : lane'[v] = lane[v] \/ lane'[v] = Idle)
         /\ WriteFails => UNCHANGED <<phase, next, records, unready>> /\ broken' /\ \A v \in VMs : lane'[v].pc # "write"
         /\ Crash => UNCHANGED <<phase, next, records, unready, broken>> /\ (\A v \in VMs : lane'[v] = Idle) /\ lost' = Lanes
         /\ Start => /\ phase' = "syntax" /\ next' = 1 /\ lost' = 0 /\ records' = saved /\ (\A v \in VMs : lane'[v] = Idle)
                     /\ UNCHANGED <<saved, unready>> /\ job' = "active" /\ ~ broken'
         /\ ~ Start => \/ saved' = saved
                       \/ \E e \in Entries : chain # <<>> /\ e = Head(chain) /\ saved' = Patch(e)
<1>1. chain' = <<>> /\ Entries' = {}
  BY DEF WriteFails, Crash, Start, Entries
<1>2. ASSUME saved' = Saved(Head(chain)), chain # <<>>
      PROVE  \E e \in Entries : chain # <<>> /\ e = Head(chain) /\ saved' = Patch(e)
  BY <1>2, FirstUpdate DEF Saved, Typed
<1>3. CASE WriteFails
  <2>1. /\ lane' = [v \in VMs |-> IF v \in {w \in VMs : lane[w].pc = "write"} THEN Idle ELSE lane[v]]
        /\ UNCHANGED <<phase, next, records, unready>> /\ broken'
    BY <1>3 DEF WriteFails
  <2>2. \A v \in VMs : lane'[v] = lane[v] \/ lane'[v] = Idle
    BY <2>1
  <2>3. \A v \in VMs : lane'[v].pc # "write"
    BY <2>1 DEF Idle
  <2>4. saved' = saved \/ (saved' = Saved(Head(chain)) /\ chain # <<>>)
    BY <1>3 DEF WriteFails
  <2>5. ~ Start /\ ~ Crash
    BY <1>3, <2>1 DEF Typed, TypeOK, WriteFails, Start, Crash
  <2> QED BY <1>1, <1>2, <2>1, <2>2, <2>3, <2>4, <2>5
<1>4. CASE Crash
  <2>1. /\ lane' = [v \in VMs |-> Idle] /\ lost' = Lanes
        /\ UNCHANGED <<phase, next, records, unready, broken>> /\ job' = "failed" /\ job = "active"
    BY <1>4 DEF Crash
  <2>2. saved' = saved \/ (saved' = Saved(Head(chain)) /\ chain # <<>>)
    BY <1>4 DEF Crash
  <2>3. ~ Start /\ ~ WriteFails
    BY <2>1 DEF WriteFails, Start
  <2> QED BY <1>1, <1>2, <2>1, <2>2, <2>3
<1>5. CASE Start
  <2>1. /\ phase' = "syntax" /\ next' = 1 /\ lost' = 0 /\ records' = saved /\ lane' = [v \in VMs |-> Idle]
        /\ UNCHANGED <<saved, unready>> /\ job' = "active" /\ job = "waiting" /\ broken' = FALSE
    BY <1>5 DEF Start, First
  <2>2. ~ Crash /\ ~ WriteFails
    BY <2>1 DEF WriteFails, Crash
  <2> QED BY <1>1, <1>5, <2>1, <2>2
<1> QED BY <1>3, <1>4, <1>5

---------------------------------------------------------------------------
(* What a lane works on *)

Duty == OnDuty /\ Queued

LEMMA PutDuty ==
  ASSUME Typed, Duty, NEW v \in VMs, lane[v].pc # "write",
         v \in On(phase), \A q \in Earlier(phase) : Due(q, v) \subseteq records[v].done,
         NEW l \in Lane, NEW st \in Status \cup {"same"}, NEW d \in Steps,
         NEW to \in {"idle", "go", "cmd", "sleep", "throw"}, to = "sleep" => l.tries < MaxAttempts,
         Put(v, l, st, d, to), UNCHANGED <<broken, phase, records>>,
         \A w \in VMs : effects[w] \subseteq effects'[w],
         d # NoStep => d \in effects'[v] \cap Due(phase, v),
         to \in {"cmd", "sleep"} => d = NoStep /\ l.step \in Due(phase, v) \ records[v].done,
         to = "idle" /\ st # "failed" => Due(phase, v) \subseteq records[v].done \cup {d},
         st = "succeeded" =>
           /\ to = "idle"
           /\ phase # "blocks" => Blocks[v] = <<>> /\ (phase = "windows" => Role[v] = "none")
  PROVE  Duty' /\ (lost' = 0 => Working' = Working \cup {v})
<1> DEFINE e == [vm |-> v, status |-> st, done |-> d, to |-> to]
<1>1. /\ \A w \in VMs \ {v} : lane'[w] = lane[w]
      /\ \/ broken /\ lost' > 0 /\ Entries' = Entries /\ lane'[v] = Idle
         \/ /\ lost' = lost /\ Entries' = Entries \cup {e}
            /\ lane'[v].pc = "write" /\ lane'[v].step = l.step
  <2>1. TypeOK /\ Waits /\ broken' = broken
    BY DEF Typed
  <2> HIDE DEF e
  <2>2. /\ \A w \in VMs \ {v} : lane'[w] = lane[w]
        /\ \/ broken /\ lost' > 0 /\ Entries' = Entries /\ lane'[v] = Idle
           \/ /\ ~ broken /\ lost' = lost
              /\ Entries' = Entries \cup {[vm |-> v, status |-> st, done |-> d, to |-> to]}
              /\ lane'[v].pc = "write" /\ lane'[v].step = l.step /\ lane'[v].tries = l.tries
    BY <2>1, PutParts
  <2> QED BY <2>2 DEF e
<1>2. e.vm = v /\ e.status = st /\ e.done = d /\ e.to = to
  OBVIOUS
<1>3. Idle.pc = "idle"
  BY DEF Idle
<1>4. \A x \in Entries : x.vm \in VMs /\ x.vm # v
  BY UpdateVMs DEF Typed, Waits
<1> HIDE DEF e
<1>5. OnDuty'
  BY <1>1, <1>3 DEF Duty, OnDuty, InHand, Working
<1>6. Queued'
  <2>1. ASSUME NEW x \in Entries
        PROVE  /\ x.done # NoStep => x.done \in effects'[x.vm] \cap Due(phase, x.vm)
               /\ x.to \in {"cmd", "sleep"} => x.done = NoStep /\ lane'[x.vm].step \in Due(phase, x.vm) \ records[x.vm].done
               /\ x.to = "idle" /\ x.status # "failed" => Due(phase, x.vm) \subseteq records[x.vm].done \cup {x.done}
               /\ x.status = "succeeded" =>
                    /\ x.to = "idle"
                    /\ phase # "blocks" => Blocks[x.vm] = <<>> /\ (phase = "windows" => Role[x.vm] = "none")
    BY <1>1, <1>4 DEF Duty, Queued, InHand
  <2> QED BY <1>1, <1>2, <2>1 DEF Queued, InHand
<1>7. lost' = 0 => Working' = Working \cup {v}
  <2>1. ~ (0 > 0)
    OBVIOUS
  <2>2. lost' = 0 => /\ lane'[v].pc = "write" /\ \A w \in VMs \ {v} : lane'[w] = lane[w]
    BY <1>1, <2>1
  <2> QED BY <2>2 DEF Working
<1> QED BY <1>5, <1>6, <1>7 DEF Duty

\* The item a lane takes, unless it is skipped, belongs to the phase and has
\* been through the earlier ones.
LEMMA TakenItem ==
  ASSUME Typed, Passed, Prepared, Take, NEW v, v = Items(phase)[next]
  PROVE  /\ v \in VMs /\ next \in DOMAIN Items(phase) /\ lane[v].pc = "idle"
         /\ ~ Skipped(phase, v) =>
              v \in On(phase) /\ \A q \in Earlier(phase) : Due(q, v) \subseteq records[v].done
         /\ Skipped(phase, v) /\ v \in On(phase) => records[v].status \in {"succeeded", "failed"}
<1>1. v \in VMs /\ next \in DOMAIN Items(phase)
  BY Lists DEF Take, Typed, TypeOK
<1>2. lane[v].pc = "idle"
  BY <1>1 DEF Take, Working
<1>3. phase \in {"linux", "windows", "controller", "member", "blocks"}
  BY <1>1 DEF Items, Typed, TypeOK, Phases
<1>4. /\ phase = "linux" => v \in Elements(LinuxTargets)
      /\ phase \in {"windows", "controller", "member"} => v \in Elements(WindowsTargets)
  BY <1>1 DEF Items, Elements
<1>5. ASSUME ~ Skipped(phase, v)
      PROVE  v \in On(phase) /\ \A q \in Earlier(phase) : Due(q, v) \subseteq records[v].done
  <2>1. v \in On(phase)
    BY <1>1, <1>3, <1>4, <1>5 DEF Skipped, On
  <2>2. CASE phase \in {"linux", "windows"}
    <3>1. \A q \in Earlier(phase) : v \notin On(q)
      BY <1>4, <2>2, CustomizationAssumption DEF Earlier, On
    <3> QED BY <2>1, <3>1 DEF Due
  <2>3. CASE phase \in {"controller", "member"}
    <3>1. records[v].status # "failed"
      BY <1>5, <2>3 DEF Skipped
    <3> QED BY <2>1, <3>1 DEF Passed, Through, Due
  <2>4. CASE phase = "blocks"
    BY <1>1, <2>1, <2>4, Dues DEF Prepared
  <2> QED BY <1>3, <2>2, <2>3, <2>4
<1>6. ASSUME Skipped(phase, v), v \in On(phase)
      PROVE  records[v].status \in {"succeeded", "failed"}
  BY <1>1, <1>3, <1>6 DEF Skipped, On
<1> QED BY <1>1, <1>2, <1>5, <1>6

LEMMA DutyStep ==
  ASSUME Typed, Duty, Passed, Prepared, [Next]_vars
  PROVE  Duty'
<1> USE CustomizationAssumption
<1>0. /\ Idle \in Lane /\ Idle.pc = "idle" /\ NoStep \in Steps /\ {"pending", "succeeded"} \subseteq Status
      /\ {"running", "failed", "retrying"} \subseteq Status
      /\ \A v \in VMs : lane[v] \in Lane /\ lane[v].step \in Steps
      /\ \A v \in VMs : effects[v] \subseteq effects'[v]
  BY EffectsGrow DEF Idle, Lane, Steps, Typed, TypeOK, NoStep, Status
<1>a. ASSUME NEW v \in VMs, lane[v].pc # "idle"
      PROVE  v \in On(phase) /\ \A q \in Earlier(phase) : Due(q, v) \subseteq records[v].done
  BY <1>a DEF Duty, OnDuty, Working
<1>1. CASE Written
  <2>1. PICK e \in Entries :
           /\ e \in Update /\ e.vm \in VMs /\ lane[e.vm].pc = "write" /\ ~ broken
           /\ \A x \in Entries \ {e} : x.vm \in VMs /\ x.vm # e.vm
           /\ Entries' = Entries \ {e}
           /\ lane'[e.vm].pc = e.to /\ (e.to # "idle" => lane'[e.vm].step = lane[e.vm].step)
           /\ \A v \in VMs \ {e.vm} : lane'[v] = lane[v] /\ records'[v] = records[v]
           /\ records'[e.vm].status = IF e.status = "same" THEN records[e.vm].status ELSE e.status
           /\ records'[e.vm].done = records[e.vm].done \cup ({e.done} \ {NoStep})
           /\ saved' = records'
           /\ UNCHANGED <<job, phase, next, lost, broken, aborted, unready, left, effects, overwritten, faults>>
    BY <1>1, WrittenParts
  <2>2. OnDuty'
    <3>1. e.to \in {"cmd", "sleep"} => e.done = NoStep /\ InHand(e.vm)
      BY DEF Duty, Queued
    <3>2. e.vm \in On(phase) /\ \A q \in Earlier(phase) : Due(q, e.vm) \subseteq records'[e.vm].done
      BY <1>a, <2>1
    <3>3. e.to # "clean"
      BY <2>1 DEF Update
    <3> QED BY <1>0, <2>1, <3>1, <3>2, <3>3 DEF Duty, OnDuty, InHand, Working
  <2>3. Queued'
    BY <2>1 DEF Duty, Queued, InHand
  <2> QED BY <2>2, <2>3 DEF Duty
<1>2. CASE Take
  <2> DEFINE v == Items(phase)[next]
             l == [lane[v] EXCEPT !.pc = "go"]
  <2>1. /\ v \in VMs /\ lane[v].pc = "idle"
        /\ ~ Skipped(phase, v) =>
             v \in On(phase) /\ \A q \in Earlier(phase) : Due(q, v) \subseteq records[v].done
    BY <1>2, TakenItem
  <2>2. l.pc = "go"
    BY <1>0, <2>1 DEF Lane
  <2>3. \/ UNCHANGED <<lane, lost, chain>>
        \/ ~ Skipped(phase, v) /\ Put(v, Idle, "running", NoStep, "go")
        \/ ~ Skipped(phase, v) /\ lane' = [lane EXCEPT ![v] = l] /\ UNCHANGED <<lost, chain>>
    BY <1>2 DEF Take
  <2>4. UNCHANGED <<broken, phase, records>>
    BY <1>2 DEF Take
  <2> HIDE DEF v, l
  <2>5. CASE ~ Skipped(phase, v) /\ Put(v, Idle, "running", NoStep, "go")
    BY <1>0, <2>1, <2>4, <2>5, PutDuty
  <2>6. CASE ~ Skipped(phase, v) /\ lane' = [lane EXCEPT ![v] = l] /\ UNCHANGED <<lost, chain>>
    <3>1. lane'[v] = l /\ \A w \in VMs \ {v} : lane'[w] = lane[w]
      BY <2>1, <2>6 DEF Typed, TypeOK
    <3>2. Entries' = Entries /\ \A e \in Entries : e.vm \in VMs /\ e.vm # v
      BY <2>1, <2>6, UpdateVMs DEF Typed, Waits, Entries
    <3>3. OnDuty'
      BY <1>0, <2>1, <2>2, <2>4, <2>6, <3>1 DEF Duty, OnDuty, InHand, Working
    <3>4. Queued'
      BY <1>0, <2>4, <3>1, <3>2 DEF Duty, Queued, InHand
    <3> QED BY <3>3, <3>4 DEF Duty
  <2>7. CASE UNCHANGED <<lane, lost, chain>>
    <3>1. Entries' = Entries /\ effects' = effects
      BY <1>2, <2>7 DEF Take, Entries
    <3> QED BY <2>4, <2>7, <3>1 DEF Duty, OnDuty, Queued, InHand, Working
  <2> QED BY <2>3, <2>5, <2>6, <2>7
<1>b. \A v \in VMs : /\ lane[v].pc \in {"cmd", "clean", "sleep"} => InHand(v)
                     /\ lane[v].pc = "clean" => lane[v].step \in effects[v]
  BY DEF Duty, OnDuty, Working
<1>3. ASSUME NEW v \in VMs, Proceed(v) PROVE Duty'
  <2>1. lane[v].pc = "go" /\ UNCHANGED <<broken, phase, records, effects>>
    BY <1>3 DEF Proceed
  <2>2. v \in On(phase) /\ \A q \in Earlier(phase) : Due(q, v) \subseteq records[v].done
    BY <1>a, <2>1
  <2>3. CASE Todo(v) = {} /\ Put(v, Idle, Finished(v), NoStep, "idle")
    <3>1. Due(phase, v) \subseteq records[v].done
      BY <2>2, <2>3 DEF Todo, Due, Elements
    <3>2. Finished(v) = "succeeded" =>
            (phase # "blocks" => Blocks[v] = <<>> /\ (phase = "windows" => Role[v] = "none"))
      BY DEF Finished
    <3>3. Finished(v) \in {"pending", "succeeded"}
      BY DEF Finished
    <3> QED BY <1>0, <2>1, <2>2, <2>3, <3>1, <3>2, <3>3, PutDuty
  <2>4. ASSUME NEW i \in Todo(v),
               IF phase = "linux"
               THEN /\ lane' = [lane EXCEPT ![v] = [pc |-> "cmd", step |-> StepsOf(phase, v)[i], tries |-> 1]]
                    /\ UNCHANGED <<lost, chain>>
               ELSE Put(v, [pc |-> "cmd", step |-> StepsOf(phase, v)[i], tries |-> 1], "running", NoStep, "cmd")
        PROVE  Duty'
    <3> DEFINE s == StepsOf(phase, v)[i]
               l == [pc |-> "cmd", step |-> s, tries |-> 1]
    <3>1. s \in Due(phase, v) \ records[v].done
      BY <2>2 DEF Todo, Due, Elements
    <3>2. s \in Steps
      BY <3>1, Dues DEF Typed, TypeOK
    <3>3. l \in Lane /\ l.pc = "cmd" /\ l.step = s
      BY <3>2 DEF Lane
    <3>4. \/ phase = "linux" /\ lane' = [lane EXCEPT ![v] = l] /\ UNCHANGED <<lost, chain>>
          \/ Put(v, l, "running", NoStep, "cmd")
      BY <2>4
    <3> HIDE DEF l, s
    <3>5. CASE Put(v, l, "running", NoStep, "cmd")
      BY <1>0, <2>1, <2>2, <3>1, <3>3, <3>5, PutDuty
    <3>6. CASE phase = "linux" /\ lane' = [lane EXCEPT ![v] = l] /\ UNCHANGED <<lost, chain>>
      <4>1. lane'[v] = l /\ \A w \in VMs \ {v} : lane'[w] = lane[w]
        BY <3>6 DEF Typed, TypeOK
      <4>2. Entries' = Entries /\ \A e \in Entries : e.vm \in VMs /\ e.vm # v
        BY <2>1, <3>6, UpdateVMs DEF Typed, Waits, Entries
      <4>3. OnDuty'
        BY <2>1, <2>2, <3>1, <3>3, <4>1 DEF Duty, OnDuty, InHand, Working
      <4>4. Queued'
        BY <1>0, <2>1, <4>1, <4>2 DEF Duty, Queued, InHand
      <4> QED BY <4>3, <4>4 DEF Duty
    <3> QED BY <3>4, <3>5, <3>6
  <2> QED BY <1>3, <2>3, <2>4 DEF Proceed
<1>4. ASSUME NEW v \in VMs, Succeeds(v) PROVE Duty'
  <2> DEFINE s == lane[v].step
  <2>1. /\ lane[v].pc = "cmd" /\ UNCHANGED <<broken, phase, records>>
        /\ s \in effects'[v]
        /\ \/ phase = "linux" /\ Put(v, lane[v], Finished(v), s, "idle")
           \/ Put(v, lane[v], "same", s, "go")
           \/ lane' = [lane EXCEPT ![v].pc = "clean"] /\ UNCHANGED chain
    BY <1>4 DEF Succeeds, Typed, TypeOK
  <2>2. v \in On(phase) /\ (\A q \in Earlier(phase) : Due(q, v) \subseteq records[v].done) /\ s \in Due(phase, v)
    BY <1>a, <1>b, <2>1 DEF InHand
  <2>3. Finished(v) \in {"pending", "succeeded"}
    BY DEF Finished
  <2>4. CASE phase = "linux" /\ Put(v, lane[v], Finished(v), s, "idle")
    <3>1. Due(phase, v) \subseteq records[v].done \cup {s}
      BY <2>2, <2>4, DueSets
    <3>2. Finished(v) = "succeeded" => Blocks[v] = <<>>
      BY <2>4 DEF Finished
    <3> QED BY <1>0, <2>1, <2>2, <2>3, <2>4, <3>1, <3>2, PutDuty
  <2>5. CASE Put(v, lane[v], "same", s, "go")
    BY <1>0, <2>1, <2>2, <2>5, PutDuty
  <2>6. CASE lane' = [lane EXCEPT ![v].pc = "clean"] /\ UNCHANGED chain
    <3>1. lane'[v].pc = "clean" /\ lane'[v].step = s /\ \A w \in VMs \ {v} : lane'[w] = lane[w]
      BY <1>0, <2>6 DEF Typed, TypeOK, Lane
    <3>2. Entries' = Entries /\ \A e \in Entries : e.vm \in VMs /\ e.vm # v
      BY <2>1, <2>6, UpdateVMs DEF Typed, Waits, Entries
    <3>3. OnDuty'
      BY <1>0, <1>b, <2>1, <2>2, <3>1 DEF Duty, OnDuty, InHand, Working
    <3>4. Queued'
      BY <1>0, <2>1, <3>1, <3>2 DEF Duty, Queued, InHand
    <3> QED BY <3>3, <3>4 DEF Duty
  <2> QED BY <2>1, <2>4, <2>5, <2>6
<1>d. ASSUME NEW v \in VMs, Cleaned(v) PROVE Duty'
  <2>1. /\ lane[v].pc = "clean" /\ UNCHANGED <<broken, phase, records>>
        /\ Put(v, lane[v], "same", lane[v].step, "go")
    BY <1>d DEF Cleaned
  <2>2. /\ v \in On(phase) /\ \A q \in Earlier(phase) : Due(q, v) \subseteq records[v].done
        /\ lane[v].step \in Due(phase, v) \cap effects'[v]
    BY <1>0, <1>a, <1>b, <2>1 DEF InHand
  <2> QED BY <1>0, <2>1, <2>2, PutDuty
<1>5. ASSUME NEW v \in VMs, Fails(v) PROVE Duty'
  <2>1. /\ lane[v].pc = "cmd" /\ UNCHANGED <<broken, phase, records>>
        /\ \/ lane[v].tries < MaxAttempts /\ Put(v, lane[v], "retrying", NoStep, "sleep")
           \/ Put(v, Idle, "failed", NoStep, "idle")
    BY <1>5 DEF Fails, Again
  <2>2. v \in On(phase) /\ (\A q \in Earlier(phase) : Due(q, v) \subseteq records[v].done) /\ InHand(v)
    BY <1>a, <1>b, <2>1
  <2> QED BY <1>0, <2>1, <2>2, PutDuty DEF InHand
<1>6. ASSUME NEW v \in VMs, Probe(v) PROVE Duty'
  <2> DEFINE l == [lane[v] EXCEPT !.tries = @ + 1]
  <2>1. /\ lane[v].pc = "sleep" /\ UNCHANGED <<broken, phase, records>>
        /\ \/ Put(v, l, "running", NoStep, "cmd")
           \/ Put(v, Idle, "failed", NoStep, "idle")
           \/ l.tries < MaxAttempts /\ Put(v, l, "retrying", NoStep, "sleep")
    BY <1>6 DEF Probe
  <2>2. v \in On(phase) /\ (\A q \in Earlier(phase) : Due(q, v) \subseteq records[v].done) /\ InHand(v)
    BY <1>a, <1>b, <2>1
  <2>3. l \in Lane /\ l.step = lane[v].step
    BY <1>0, <2>1 DEF Lane, Typed, Waits
  <2> HIDE DEF l
  <2> QED BY <1>0, <2>1, <2>2, <2>3, PutDuty DEF InHand
<1>7. ASSUME NEW v \in VMs, Stopped(v) PROVE Duty'
  <2>1. /\ lane[v].pc \in {"cmd", "sleep", "throw"} /\ UNCHANGED <<broken, phase, records>>
        /\ \/ Put(v, lane[v], "same", NoStep, "throw")
           \/ lane' = [lane EXCEPT ![v] = Idle] /\ UNCHANGED chain
    BY <1>7 DEF Stopped, Lose
  <2>2. v \in On(phase) /\ \A q \in Earlier(phase) : Due(q, v) \subseteq records[v].done
    BY <1>a, <2>1
  <2>3. CASE Put(v, lane[v], "same", NoStep, "throw")
    BY <1>0, <2>1, <2>2, <2>3, PutDuty
  <2>4. CASE lane' = [lane EXCEPT ![v] = Idle] /\ UNCHANGED chain
    <3>2. lane'[v] = Idle /\ \A w \in VMs \ {v} : lane'[w] = lane[w]
      BY <2>4 DEF Typed, TypeOK
    <3>3. Entries' = Entries /\ \A e \in Entries : e.vm \in VMs /\ e.vm # v
      BY <2>1, <2>4, UpdateVMs DEF Typed, Waits, Entries
    <3>4. OnDuty'
      BY <1>0, <2>1, <3>2 DEF Duty, OnDuty, InHand, Working
    <3>5. Queued'
      BY <1>0, <2>1, <3>2, <3>3 DEF Duty, Queued, InHand
    <3> QED BY <3>4, <3>5 DEF Duty
  <2> QED BY <2>1, <2>3, <2>4
<1>c. ASSUME Working = {} PROVE Entries = {}
  BY <1>c, UpdateVMs DEF Typed, Waits, Working
<1>8. ASSUME NEW v \in VMs, SyntaxFails(v) PROVE Duty'
  <2>1. phase = "syntax" /\ UNCHANGED <<phase, lane, chain>>
    BY <1>8 DEF SyntaxFails
  <2>2. Working = {}
    BY <2>1 DEF Duty, OnDuty, On
  <2>3. Working' = {} /\ Entries' = {}
    BY <1>c, <2>1, <2>2 DEF Working, Entries
  <2> QED BY <2>3 DEF Duty, OnDuty, Queued
<1>9. CASE WriteFails \/ Crash \/ Start
  <2>1. Entries' = {} /\ (WriteFails => UNCHANGED <<phase, records>>)
    BY <1>9, Cleared
  <2>2. \A v \in VMs : lane'[v] = Idle \/ (lane'[v] = lane[v] /\ WriteFails)
    BY <1>9, Cleared
  <2>3. OnDuty'
    <3>1. ASSUME NEW v \in VMs, lane'[v].pc # "idle" PROVE lane'[v] = lane[v] /\ UNCHANGED <<phase, records>>
      BY <1>0, <2>1, <2>2, <3>1
    <3> QED BY <1>0, <3>1 DEF Duty, OnDuty, InHand, Working
  <2> QED BY <2>1, <2>3 DEF Duty, Queued
<1>10. CASE Aside
  <2>1. UNCHANGED <<lane, records>> /\ Entries' = Entries /\ Working' = Working
    BY <1>10, AsideKeeps
  <2>2. CASE NextPhase
    <3>1. Working' = {} /\ Entries' = {}
      BY <1>c, <2>1, <2>2 DEF NextPhase
    <3> QED BY <3>1 DEF Duty, OnDuty, Queued
  <2>3. CASE UNCHANGED phase
    <3>1. OnDuty'
      BY <1>0, <2>1, <2>3 DEF Duty, OnDuty, InHand, Working
    <3>2. Queued'
      BY <1>0, <2>1, <2>3, UpdateVMs DEF Duty, Queued, InHand, Typed
    <3> QED BY <3>1, <3>2 DEF Duty
  <2> QED BY <1>10, <2>2, <2>3, AsideKeeps
<1> QED BY <1>1, <1>2, <1>3, <1>4, <1>d, <1>5, <1>6, <1>7, <1>8, <1>9, <1>10
        DEF Next, LaneNext, RunNext, FaultNext, Aside

\* What the lane of a VM does by itself, its first step excepted
LaneMoves(v) == Proceed(v) \/ Succeeds(v) \/ Cleaned(v) \/ Fails(v) \/ Probe(v) \/ Stopped(v)

\* A lane that moves changes no record; it ends only when it is lost, and
\* begins a command at once only in the Linux phase.
LEMMA LaneStep ==
  ASSUME Typed, NEW v \in VMs, LaneMoves(v)
  PROVE  /\ lane[v].pc \in {"go", "cmd", "clean", "sleep", "throw"}
         /\ UNCHANGED <<job, phase, next, records, broken, saved, aborted, unready, left, overwritten>>
         /\ \A w \in VMs \ {v} : lane'[w] = lane[w]
         /\ lost' = 0 => lost = 0 /\ Working' = Working
         /\ lane'[v].pc \in {"idle", "write", "clean"} \/ (phase = "linux" /\ Proceed(v))
         /\ broken /\ lane[v].pc = "go" /\ phase # "linux" => lane'[v].pc = "idle"
         /\ lane'[v].pc = "cmd" => lane'[v].step \notin records[v].done /\ lane[v].pc = "go"
<1> USE CustomizationAssumption
<1> DEFINE Unset == UNCHANGED <<job, phase, next, records, broken, saved, aborted, unready, left, overwritten>>
           Kept == /\ \A w \in VMs \ {v} : lane'[w] = lane[w]
                   /\ \/ broken /\ lost' > 0 /\ lane'[v].pc = "idle"
                      \/ ~ broken /\ lost' = lost /\ lane'[v].pc = "write"
           Direct == /\ phase = "linux" /\ lane[v].pc = "go" /\ lost' = lost
                     /\ \A w \in VMs \ {v} : lane'[w] = lane[w]
                     /\ lane'[v].pc = "cmd" /\ lane'[v].step \notin records[v].done
           Cleans == /\ \A w \in VMs \ {v} : lane'[w] = lane[w]
                     /\ lost' = lost /\ lane'[v].pc = "clean"
           Gone == /\ \A w \in VMs \ {v} : lane'[w] = lane[w]
                   /\ lost' > 0 /\ lane'[v].pc = "idle" /\ lane[v].pc # "go"
<1>0. /\ Idle \in Lane /\ Idle.pc = "idle" /\ NoStep \in Steps /\ lane[v] \in Lane /\ lane[v].step \in Steps
      /\ {"pending", "succeeded", "running", "failed", "retrying"} \subseteq Status
      /\ Finished(v) \in {"pending", "succeeded"}
  BY DEF Idle, Lane, Steps, Typed, TypeOK, NoStep, Status, Finished
<1>1. ASSUME NEW l \in Lane, NEW st \in Status \cup {"same"}, NEW d \in Steps,
             NEW to \in {"idle", "go", "cmd", "sleep", "throw"}, to = "sleep" => l.tries < MaxAttempts,
             lane[v].pc # "write", Put(v, l, st, d, to), UNCHANGED broken
      PROVE  Kept
  <2> HIDE DEF Direct, Unset, Gone
  <2>1. TypeOK /\ Waits
    BY DEF Typed
  <2>2. /\ \A w \in VMs \ {v} : lane'[w] = lane[w]
        /\ \/ broken /\ lost' > 0 /\ lane'[v] = Idle
           \/ ~ broken /\ lost' = lost /\ lane'[v].pc = "write"
    BY <1>1, <2>1, PutParts
  <2> QED BY <1>0, <2>2
<1>2. CASE Proceed(v)
  <2>1. lane[v].pc = "go" /\ Unset
    BY <1>2 DEF Proceed
  <2>2. CASE Put(v, Idle, Finished(v), NoStep, "idle")
    <3>1. Kept
      BY <1>0, <1>1, <2>1, <2>2
    <3> QED BY <2>1, <3>1, <1>2 DEF Working
  <2>3. ASSUME NEW i \in Todo(v),
               IF phase = "linux"
               THEN /\ lane' = [lane EXCEPT ![v] = [pc |-> "cmd", step |-> StepsOf(phase, v)[i], tries |-> 1]]
                    /\ UNCHANGED <<lost, chain>>
               ELSE Put(v, [pc |-> "cmd", step |-> StepsOf(phase, v)[i], tries |-> 1], "running", NoStep, "cmd")
        PROVE  Kept \/ Direct
    <3> DEFINE s == StepsOf(phase, v)[i]
               l == [pc |-> "cmd", step |-> s, tries |-> 1]
    <3>1. s \in Steps /\ s \notin records[v].done
      <4>1. CASE phase = "linux"
        BY <4>1 DEF Todo, StepsOf, Steps
      <4>2. CASE phase = "windows"
        BY <4>2 DEF Todo, StepsOf, Steps, Elements
      <4>3. CASE phase = "blocks"
        BY <4>3 DEF Todo, StepsOf, Steps, Elements
      <4>4. CASE phase \notin {"linux", "windows", "blocks"}
        BY <4>4 DEF Todo, StepsOf, Steps
      <4> QED BY <4>1, <4>2, <4>3, <4>4
    <3>2. l \in Lane /\ l.pc = "cmd" /\ l.step = s
      BY <3>1 DEF Lane
    <3>3. \/ phase = "linux" /\ lane' = [lane EXCEPT ![v] = l] /\ UNCHANGED <<lost, chain>>
          \/ Put(v, l, "running", NoStep, "cmd")
      BY <2>3
    <3> HIDE DEF l, s
    <3>4. CASE Put(v, l, "running", NoStep, "cmd")
      BY <1>0, <1>1, <2>1, <3>2, <3>4
    <3>5. CASE phase = "linux" /\ lane' = [lane EXCEPT ![v] = l] /\ UNCHANGED <<lost, chain>>
      BY <2>1, <3>1, <3>2, <3>5 DEF Typed, TypeOK
    <3> QED BY <3>3, <3>4, <3>5
  <2>4. Kept \/ Direct
    BY <1>0, <1>1, <1>2, <2>1, <2>2, <2>3 DEF Proceed
  <2> QED BY <2>1, <2>4, <1>2 DEF Working
<1>3. CASE Succeeds(v) \/ Cleaned(v) \/ Fails(v) \/ Probe(v)
  <2>1. lane[v].pc \in {"cmd", "clean", "sleep"} /\ Unset
    BY <1>3 DEF Succeeds, Cleaned, Fails, Probe
  <2>2. ASSUME Succeeds(v) PROVE Kept \/ Cleans
    <3>1. \/ Put(v, lane[v], Finished(v), lane[v].step, "idle")
          \/ Put(v, lane[v], "same", lane[v].step, "go")
          \/ lane' = [lane EXCEPT ![v].pc = "clean"] /\ UNCHANGED lost
      BY <2>2 DEF Succeeds
    <3>2. CASE lane' = [lane EXCEPT ![v].pc = "clean"] /\ UNCHANGED lost
      BY <1>0, <3>2 DEF Typed, TypeOK, Lane
    <3> QED BY <1>0, <1>1, <2>1, <3>1, <3>2
  <2>a. ASSUME Cleaned(v) PROVE Kept
    BY <1>0, <1>1, <2>1, <2>a DEF Cleaned
  <2>3. ASSUME Fails(v) PROVE Kept
    BY <1>0, <1>1, <2>1, <2>3 DEF Fails, Again
  <2>4. ASSUME Probe(v) PROVE Kept
    <3> DEFINE l == [lane[v] EXCEPT !.tries = @ + 1]
    <3>1. l \in Lane /\ \/ Put(v, l, "running", NoStep, "cmd")
                        \/ Put(v, Idle, "failed", NoStep, "idle")
                        \/ l.tries < MaxAttempts /\ Put(v, l, "retrying", NoStep, "sleep")
      BY <1>0, <2>4 DEF Probe, Lane, Typed, Waits
    <3> HIDE DEF l
    <3> QED BY <1>0, <1>1, <2>1, <3>1
  <2>5. Kept \/ Cleans
    BY <1>3, <2>2, <2>a, <2>3, <2>4
  <2> QED BY <2>1, <2>5 DEF Working
<1>4. CASE Stopped(v)
  <2>1. /\ lane[v].pc \in {"cmd", "sleep", "throw"} /\ Unset
        /\ \/ Put(v, lane[v], "same", NoStep, "throw")
           \/ lane' = [lane EXCEPT ![v] = Idle] /\ lost' = lost + 1
    BY <1>4 DEF Stopped, Lose
  <2>2. ASSUME Put(v, lane[v], "same", NoStep, "throw") PROVE Kept
    BY <1>0, <1>1, <2>1, <2>2
  <2>3. ASSUME lane' = [lane EXCEPT ![v] = Idle], lost' = lost + 1 PROVE Gone
    BY <1>0, <2>1, <2>3 DEF Typed, TypeOK
  <2>4. Kept \/ Gone
    BY <2>1, <2>2, <2>3
  <2> QED BY <2>1, <2>4 DEF Working
<1> QED BY <1>2, <1>3, <1>4 DEF LaneMoves

---------------------------------------------------------------------------
(* What the records account for *)

\* A VM that has been through the earlier phases and all of this one, with
\* nothing to come, has been through its whole plan.
LEMMA WholePlan ==
  ASSUME NEW v \in VMs, NEW p \in Phases, v \in On(p), NEW D,
         \A q \in Earlier(p) : Due(q, v) \subseteq D, Due(p, v) \subseteq D,
         p # "blocks" => Blocks[v] = <<>> /\ (p = "windows" => Role[v] = "none")
  PROVE  Plan(v) \subseteq D
<1> USE CustomizationAssumption
<1>1. Blocks[v] = <<>> => Elements(Blocks[v]) = {}
  BY DEF Elements
<1>2. CASE p = "blocks"
  BY <1>2, Dues DEF Plan
<1>3. CASE p = "linux"
  <2>1. v \in Elements(LinuxTargets)
    BY <1>3 DEF On
  <2> QED BY <1>1, <1>3, <2>1, DueSets DEF Plan, Standard
<1>4. CASE p \in {"windows", "controller", "member"}
  <2>1. v \in Elements(WindowsTargets) /\ v \notin Elements(LinuxTargets)
    BY <1>4 DEF On
  <2>2. Elements(WindowsSteps) \subseteq D
    <3>1. "windows" \in Earlier(p) \/ p = "windows"
      BY <1>4 DEF Earlier
    <3> QED BY <2>1, <3>1, DueSets
  <2>3. Role[v] # "none" => "domain" \in D
    <3>1. p # "windows" => Role[v] = p
      BY <1>4 DEF On
    <3>2. p # "windows" => Due(p, v) = {"domain"}
      BY <1>4, <2>1, <3>1, DueSets
    <3> QED BY <1>4, <3>2
  <2> QED BY <1>1, <1>4, <2>1, <2>2, <2>3 DEF Plan, Standard
<1> QED BY <1>2, <1>3, <1>4 DEF On, Phases

\* Accounting goes on after each update of the store.
LEMMA PatchAccounts ==
  ASSUME Typed, Duty, Accounts(records), NEW e \in Entries
  PROVE  Accounts(Patch(e))
<1>1. e \in Update /\ e.vm \in VMs /\ lane[e.vm].pc = "write"
  BY UpdateVMs DEF Typed, Waits
<1>2. /\ \A v \in VMs \ {e.vm} : Patch(e)[v] = records[v]
      /\ Patch(e)[e.vm].status = IF e.status = "same" THEN records[e.vm].status ELSE e.status
      /\ Patch(e)[e.vm].done = records[e.vm].done \cup ({e.done} \ {NoStep})
  BY <1>1, PatchTypes DEF Typed
<1>3. e.vm \in On(phase) /\ \A q \in Earlier(phase) : Due(q, e.vm) \subseteq records[e.vm].done
  BY <1>1 DEF Duty, OnDuty, Working
<1>4. phase \in Phases /\ Due(phase, e.vm) \subseteq Plan(e.vm) /\ NoStep \notin Due(phase, e.vm)
  BY <1>1, Dues DEF Typed, TypeOK
<1>5. e.done # NoStep => e.done \in effects[e.vm] \cap Plan(e.vm)
  BY <1>4 DEF Duty, Queued
<1>6. e.status = "succeeded" => Plan(e.vm) \subseteq Patch(e)[e.vm].done
  <2> SUFFICES ASSUME e.status = "succeeded" PROVE Plan(e.vm) \subseteq Patch(e)[e.vm].done
    OBVIOUS
  <2>1. /\ phase # "blocks" => Blocks[e.vm] = <<>> /\ (phase = "windows" => Role[e.vm] = "none")
        /\ Due(phase, e.vm) \subseteq records[e.vm].done \cup {e.done}
    BY DEF Duty, Queued
  <2>2. Due(phase, e.vm) \subseteq Patch(e)[e.vm].done
    BY <1>2, <1>4, <2>1
  <2>3. \A q \in Earlier(phase) : Due(q, e.vm) \subseteq Patch(e)[e.vm].done
    BY <1>2, <1>3
  <2> QED BY <1>1, <1>3, <1>4, <2>1, <2>2, <2>3, WholePlan
<1> QED BY <1>1, <1>2, <1>5, <1>6 DEF Accounts

\* What an earlier run writes is accounted for, too.
LEMMA OldRunsStep ==
  ASSUME Typed, Duty, Prepared, Accounts(records), OldRuns, [Next]_vars
  PROVE  OldRuns' /\ (LeftoverNext /\ Accounts(saved) => Accounts(saved)')
<1>1. \A v \in VMs : effects[v] \subseteq effects'[v]
  BY EffectsGrow
<1>2. ASSUME NEW rs, Accounts(rs) PROVE Accounts(rs)'
  BY <1>1, <1>2 DEF Accounts, Plan, Standard
<1>3. ASSUME NEW y \in left
      PROVE  /\ \A v \in VMs : /\ y.records[v].done \subseteq effects'[v] \cap Plan(v)
                               /\ y.records[v].status = "succeeded" => Plan(v) \subseteq y.records[v].done
             /\ y.writes => \A v \in VMs : Standard(v) \subseteq y.records[v].done
             /\ \A x \in y.lanes : /\ x.pc = "go" => y.writes
                                   /\ x.pc = "clean" => x.step \in effects'[x.vm] \cap Plan(x.vm)
  <2>1. \A x \in y.lanes : x.vm \in VMs
    BY DEF Typed, TypeOK, OldRun, OldLane
  <2> QED BY <1>1, <2>1 DEF OldRuns, Accounts
<1>4. CASE LeftoverNext
  <2>0. PICK r \in left : \E x \in r.lanes : LateStep(r, x) /\ LateEffects(x)
    BY <1>4, LateOne DEF Typed
  <2>1. PICK x \in r.lanes : LateStep(r, x) /\ LateEffects(x)
    BY <2>0
  <2>2. PICK lanes, recs : LateLanes(r, x, lanes) /\ LateRecords(r, x, recs) /\ LateRun(r, lanes, recs) /\ LateWrite(recs)
    BY <2>1, Zenon DEF LateStep
  <2>3. x.pc = "go" => r.writes
    BY <1>3
  <2>4. ASSUME NEW v \in VMs
        PROVE  /\ recs[v].done \subseteq effects'[v] \cap Plan(v)
               /\ recs[v].status = "succeeded" => Plan(v) \subseteq recs[v].done
               /\ r.writes => Standard(v) \subseteq recs[v].done
    <3>1. /\ r.records[v].done \subseteq effects'[v] \cap Plan(v)
          /\ r.records[v].status = "succeeded" => Plan(v) \subseteq r.records[v].done
          /\ r.writes => Standard(v) \subseteq r.records[v].done
          /\ x.pc = "clean" => x.step \in effects'[x.vm] \cap Plan(x.vm)
      BY <1>3
    <3>2. /\ \A u \in recs[v].done : u \in r.records[v].done \/ (x.pc = "clean" /\ v = x.vm /\ u = x.step)
          /\ r.records[v].done \subseteq recs[v].done
          /\ recs[v].status = "succeeded" =>
               r.records[v].status = "succeeded" \/ (x.pc = "go" /\ Elements(Blocks[v]) \subseteq recs[v].done)
      BY <2>2 DEF LateRecords
    <3>3. r.writes => Standard(v) \subseteq recs[v].done
      BY <3>1, <3>2
    <3>4. recs[v].done \subseteq effects'[v] \cap Plan(v)
      BY <3>1, <3>2
    <3>5. recs[v].status = "succeeded" => Plan(v) \subseteq recs[v].done
      BY <2>3, <3>1, <3>2, <3>3 DEF Plan
    <3> QED BY <3>3, <3>4, <3>5
  <2>5. ASSUME NEW y \in left'
        PROVE  /\ \A v \in VMs : /\ y.records[v].done \subseteq effects'[v] \cap Plan(v)
                                 /\ y.records[v].status = "succeeded" => Plan(v) \subseteq y.records[v].done
               /\ y.writes => \A v \in VMs : Standard(v) \subseteq y.records[v].done
               /\ \A z \in y.lanes : /\ z.pc = "go" => y.writes
                                     /\ z.pc = "clean" => z.step \in effects'[z.vm] \cap Plan(z.vm)
    <3>1. CASE y \in left
      BY <1>3, <3>1
    <3>2. CASE y.lanes = lanes /\ y.records = recs /\ y.writes = r.writes
      <4>1. \A z \in r.lanes : /\ z.pc = "go" => r.writes
                               /\ z.pc = "clean" => z.step \in effects'[z.vm] \cap Plan(z.vm)
        BY <1>3
      <4>2. \A z \in lanes : /\ z.pc = "go" => r.writes
                             /\ z.pc = "clean" => z.step \in effects'[z.vm] \cap Plan(z.vm)
        BY <2>2, <2>3, <4>1 DEF LateLanes
      <4> QED BY <2>4, <3>2, <4>2
    <3> QED BY <2>2, <3>1, <3>2 DEF LateRun
  <2>6. OldRuns'
    BY <2>5 DEF OldRuns, Accounts
  <2>7. ASSUME Accounts(saved) PROVE Accounts(saved)'
    <3>1. CASE saved' = saved
      BY <1>1, <2>7, <3>1 DEF Accounts
    <3>2. CASE saved' = recs
      BY <2>4, <3>2 DEF Accounts
    <3> QED BY <2>2, <3>1, <3>2 DEF LateWrite
  <2> QED BY <2>6, <2>7
<1>5. ASSUME left' \subseteq left PROVE OldRuns'
  BY <1>3, <1>5 DEF OldRuns, Accounts
<1>6. CASE Start
  <2>1. left' \subseteq left \cup {Leftover}
    BY <1>6 DEF Start
  <2> DEFINE W == phase = "blocks" /\ aborted /\ ~ broken
             L == {[vm |-> v, step |-> lane[v].step, pc |-> lane[v].pc] : v \in Working}
             R == IF W THEN records ELSE NoResults
  <2>2. Leftover.lanes = L /\ Leftover.records = R /\ Leftover.writes = W
    BY DEF Leftover
  <2>3. ASSUME NEW v \in VMs
        PROVE  /\ R[v].done \subseteq effects'[v] \cap Plan(v)
               /\ R[v].status = "succeeded" => Plan(v) \subseteq R[v].done
               /\ W => Standard(v) \subseteq R[v].done
    BY <1>1 DEF Accounts, NoResults, Prepared
  <2>4. ASSUME NEW x \in L
        PROVE  x.pc # "go" /\ (x.pc = "clean" => x.step \in effects'[x.vm] \cap Plan(x.vm))
    <3>1. PICK v \in Working : x.vm = v /\ x.step = lane[v].step /\ x.pc = lane[v].pc
      OBVIOUS
    <3>2. v \in VMs /\ lane[v].pc # "idle" /\ phase \in Phases
      BY DEF Working, Typed, TypeOK
    <3>3. lane[v].pc \in {"cmd", "clean"}
      BY <1>6, <3>2 DEF Start, Quiet
    <3>4. lane[v].pc = "clean" => lane[v].step \in effects[v] /\ lane[v].step \in Due(phase, v)
      BY DEF Duty, OnDuty, InHand
    <3> QED BY <1>1, <3>1, <3>2, <3>3, <3>4, Dues
  <2> HIDE DEF L, R, W
  <2>5. ASSUME NEW y \in left'
        PROVE  /\ \A v \in VMs : /\ y.records[v].done \subseteq effects'[v] \cap Plan(v)
                                 /\ y.records[v].status = "succeeded" => Plan(v) \subseteq y.records[v].done
               /\ y.writes => \A v \in VMs : Standard(v) \subseteq y.records[v].done
               /\ \A z \in y.lanes : /\ z.pc = "go" => y.writes
                                     /\ z.pc = "clean" => z.step \in effects'[z.vm] \cap Plan(z.vm)
    BY <1>3, <2>1, <2>2, <2>3, <2>4
  <2>6. ~ LeftoverNext
    <3>1. job' # job
      BY <1>6 DEF Start
    <3> QED BY <3>1, LateOne DEF Others, Typed
  <2> QED BY <2>5, <2>6 DEF OldRuns, Accounts
<1>7. CASE left' \subseteq left /\ ~ LeftoverNext
  BY <1>5, <1>7
<1> QED BY <1>4, <1>6, <1>7
        DEF Next, LaneNext, RunNext, FaultNext, vars, Written, Take, Proceed, Succeeds, Cleaned, Fails, Probe, Stopped,
        NextPhase, Complete, JobFails, Resume, WriteFails, Crash, Abort, SyntaxFails

LEMMA AccountsStep ==
  ASSUME Typed, Duty, Prepared, OldRuns, Accounts(records), Accounts(saved), [Next]_vars
  PROVE  Accounts(records)' /\ Accounts(saved)'
<1>1. \A v \in VMs : effects[v] \subseteq effects'[v]
  BY EffectsGrow
<1>2. ASSUME NEW r, Accounts(r)
      PROVE  \A v \in VMs : /\ r[v].done \subseteq effects'[v] \cap Plan(v)
                            /\ r[v].status = "succeeded" => Plan(v) \subseteq r[v].done
  BY <1>1, <1>2 DEF Accounts
<1>3. ASSUME records' = records \/ records' = saved \/ \E e \in Entries : records' = Patch(e)
      PROVE  Accounts(records)'
  <2>1. CASE records' = records
    BY <1>2, <2>1 DEF Accounts
  <2>2. CASE records' = saved
    BY <1>2, <2>2 DEF Accounts
  <2>3. ASSUME NEW e \in Entries, records' = Patch(e) PROVE Accounts(records)'
    <3>1. Accounts(Patch(e))
      BY PatchAccounts
    <3> QED BY <1>2, <2>3, <3>1 DEF Accounts
  <2> QED BY <1>3, <2>1, <2>2, <2>3
<1>4. ASSUME saved' = saved \/ \E e \in Entries : saved' = Patch(e)
      PROVE  Accounts(saved)'
  <2>1. CASE saved' = saved
    BY <1>2, <2>1 DEF Accounts
  <2>2. ASSUME NEW e \in Entries, saved' = Patch(e) PROVE Accounts(saved)'
    <3>1. Accounts(Patch(e))
      BY PatchAccounts
    <3> QED BY <1>2, <2>2, <3>1 DEF Accounts
  <2> QED BY <1>4, <2>1, <2>2
<1>5. CASE Written
  <2>1. chain # <<>> /\ records' = Patch(Head(chain)) /\ saved' = Patch(Head(chain))
    BY <1>5 DEF Written, Saved
  <2>2. Head(chain) \in Entries
    BY <2>1, FirstUpdate DEF Typed
  <2> QED BY <1>3, <1>4, <2>1, <2>2
<1>6. CASE WriteFails \/ Crash \/ Start
  <2>1. saved' = saved \/ \E e \in Entries : saved' = Patch(e)
    BY <1>6, Cleared
  <2>2. records' = records \/ records' = saved
    BY <1>6, Cleared
  <2> QED BY <1>3, <1>4, <2>1, <2>2
<1>7. ASSUME NEW v \in VMs, SyntaxFails(v) PROVE Accounts(records)' /\ Accounts(saved)'
  <2>1. records' = [records EXCEPT ![v].status = "failed"] /\ saved' = records' /\ effects' = effects
    BY <1>7 DEF SyntaxFails
  <2>2. \A w \in VMs : records'[w].done = records[w].done /\ (records'[w].status = "succeeded" => records[w].status = "succeeded")
    BY <2>1 DEF Typed, TypeOK, Record
  <2> QED BY <2>1, <2>2 DEF Accounts
<1>8. CASE UNCHANGED <<records, saved>>
  BY <1>3, <1>4, <1>8
<1>9. CASE Aside
  <2>1. CASE LeftoverNext
    <3>1. records' = records
      BY <1>9, AsideKeeps
    <3> QED BY <1>3, <2>1, <3>1, OldRunsStep
  <2> QED BY <1>8, <1>9, <2>1, AsideKeeps
<1>10. ASSUME NEW v \in VMs, LaneMoves(v) PROVE Accounts(records)' /\ Accounts(saved)'
  BY <1>8, <1>10, LaneStep
<1>11. CASE Take
  BY <1>8, <1>11 DEF Take
<1> QED BY <1>5, <1>6, <1>7, <1>9, <1>10, <1>11
        DEF Next, LaneNext, RunNext, FaultNext, Aside, LaneMoves

---------------------------------------------------------------------------
(* What a run has been through *)

\* At the end of a phase without a lost lane, every VM of it has done its
\* steps or failed.
LEMMA PhaseOver ==
  ASSUME Typed, Passed, NextPhase
  PROVE  /\ phase' = After(phase) /\ next' = 1 /\ lost = 0 /\ Working = {}
         /\ UNCHANGED <<records, saved, lane, lost, broken, unready>>
         /\ Earlier(phase') \subseteq Earlier(phase) \cup {phase}
         /\ \A q \in Earlier(phase) \cup {phase} : \A v \in On(q) : Through(q, v)
<1>1. /\ phase' = After(phase) /\ next' = 1 /\ lost = 0 /\ Working = {} /\ next > Len(Items(phase))
      /\ UNCHANGED <<records, saved, lane, lost, broken, unready>>
  BY DEF NextPhase
<1>2. Earlier(phase') \subseteq Earlier(phase) \cup {phase}
  BY <1>1 DEF After, Earlier
<1>3. ASSUME NEW v \in On(phase) PROVE Through(phase, v)
  <2>1. phase \in Phases
    BY DEF Typed, TypeOK
  <2>2. PICK i \in DOMAIN Items(phase) : Items(phase)[i] = v
    BY <2>1, Lists
  <2>3. i \in Nat /\ i <= Len(Items(phase)) /\ next \in Nat
    BY <2>1, Lists DEF Typed, TypeOK
  <2>4. i < next
    <3>1. Len(Items(phase)) \in Nat
      BY <2>1, Lists
    <3> QED BY <1>1, <2>3, <3>1
  <2> QED BY <1>1, <2>2, <2>4 DEF Passed
<1> QED BY <1>1, <1>2, <1>3 DEF Passed

LEMMA PassedStep ==
  ASSUME Typed, Typed', Duty, Accounts(records), Passed, Prepared, [Next]_vars
  PROVE  Passed'
<1> DEFINE Same == UNCHANGED <<phase, next, records>> /\ (lost' = 0 => lost = 0 /\ Working' = Working)
<1>a. ASSUME Same PROVE Passed'
  BY <1>a DEF Passed, Through
<1>b. phase \in Phases /\ phase' \in Phases /\ next \in Nat \ {0}
  BY DEF Typed, TypeOK
<1>c. \A p \in Phases : DOMAIN Items(p) \subseteq Nat \ {0}
  BY Lists
<1>1. CASE Written
  <2>1. PICK e \in Entries :
           /\ e \in Update /\ e.vm \in VMs /\ lane[e.vm].pc = "write"
           /\ lane'[e.vm].pc = e.to
           /\ \A v \in VMs \ {e.vm} : lane'[v] = lane[v] /\ records'[v] = records[v]
           /\ records'[e.vm].status = IF e.status = "same" THEN records[e.vm].status ELSE e.status
           /\ records'[e.vm].done = records[e.vm].done \cup ({e.done} \ {NoStep})
           /\ UNCHANGED <<phase, next, lost>>
    BY <1>1, WrittenParts
  <2>2. \A q \in Earlier(phase) : Due(q, e.vm) \subseteq records'[e.vm].done
    BY <2>1 DEF Duty, OnDuty, Working
  <2>3. \A q \in Earlier(phase) : On(q) \subseteq VMs
    <3>1. Earlier(phase) \subseteq Phases
      BY DEF Earlier, Phases
    <3> QED BY <2>1, <3>1, Dues
  <2>4. \A q \in Earlier(phase) : \A v \in On(q) : Through(q, v)'
    BY <2>1, <2>2, <2>3 DEF Passed, Through
  <2>5. ASSUME lost = 0, NEW i \in DOMAIN Items(phase), i < next, Items(phase)[i] \in On(phase) \ Working'
        PROVE  Through(phase, Items(phase)[i])'
    <3> DEFINE v == Items(phase)[i]
    <3>1. v \in VMs
      BY <1>b, <2>5, Dues, <2>1
    <3>2. CASE v # e.vm
      <4>1. v \notin Working /\ records'[v] = records[v]
        BY <2>1, <2>5, <3>1, <3>2 DEF Working
      <4>2. Through(phase, v)
        BY <2>5, <4>1 DEF Passed
      <4> QED BY <2>1, <4>1, <4>2 DEF Through
    <3>3. CASE v = e.vm
      <4>1. e.to = "idle"
        BY <2>1, <2>5, <3>1, <3>3 DEF Working
      <4>2. e.status # "failed" => Due(phase, v) \subseteq records[v].done \cup {e.done}
        BY <3>3, <4>1 DEF Duty, Queued
      <4>3. NoStep \notin Due(phase, v)
        BY <1>b, <3>1, Dues
      <4> QED BY <2>1, <3>3, <4>2, <4>3 DEF Through
    <3> QED BY <3>2, <3>3
  <2>6. UNCHANGED <<phase, next, lost>> /\ Earlier(phase') = Earlier(phase)
    BY <2>1
  <2> QED BY <2>4, <2>5, <2>6 DEF Passed, Through
<1>2. CASE Take
  <2> DEFINE v == Items(phase)[next]
  <2>1. /\ v \in VMs /\ lane[v].pc = "idle" /\ next \in DOMAIN Items(phase)
        /\ ~ Skipped(phase, v) =>
             v \in On(phase) /\ \A q \in Earlier(phase) : Due(q, v) \subseteq records[v].done
        /\ Skipped(phase, v) /\ v \in On(phase) => records[v].status \in {"succeeded", "failed"}
    BY <1>2, TakenItem
  <2>2. UNCHANGED <<phase, records, broken>> /\ next' = next + 1
    BY <1>2 DEF Take
  <2>3. Through(phase, v) \/ v \notin On(phase) \/ ~ Skipped(phase, v)
    <3>1. records[v].status = "succeeded" => Due(phase, v) \subseteq records[v].done
      BY <1>b, <2>1, Dues DEF Accounts
    <3> QED BY <2>1, <3>1 DEF Through
  <2>4. lost' = 0 => lost = 0 /\ Working \subseteq Working' /\ (~ Skipped(phase, v) => v \in Working')
    <3>1. CASE Skipped(phase, v)
      <4>1. UNCHANGED <<lane, lost>>
        BY <1>2, <3>1 DEF Take
      <4> QED BY <3>1, <4>1 DEF Working
    <3>2. CASE ~ Skipped(phase, v) /\ Put(v, Idle, "running", NoStep, "go")
      <4>1. /\ Idle \in Lane /\ lane[v].pc # "write" /\ "running" \in Status /\ NoStep \in Steps
            /\ TypeOK /\ Waits
        BY <2>1, CustomizationAssumption DEF Idle, Lane, Steps, NoStep, Status, Typed
      <4> HIDE DEF v
      <4>2. /\ \A w \in VMs \ {v} : lane'[w] = lane[w]
            /\ lost' > 0 \/ (lost' = lost /\ lane'[v].pc = "write")
        BY <2>1, <2>2, <3>2, <4>1, PutParts
      <4> QED BY <2>1, <4>2 DEF Working
    <3>3. CASE ~ Skipped(phase, v) /\ lane' = [lane EXCEPT ![v].pc = "go"] /\ UNCHANGED lost
      <4> HIDE DEF v
      <4> QED BY <2>1, <3>3 DEF Working, Typed, TypeOK, Lane
    <3> QED BY <1>2, <3>1, <3>2, <3>3 DEF Take
  <2> HIDE DEF v
  <2>5. ASSUME lost' = 0, NEW i \in DOMAIN Items(phase), i < next', Items(phase)[i] \in On(phase) \ Working'
        PROVE  Through(phase, Items(phase)[i])
    <3>1. i < next \/ i = next
      BY <1>b, <1>c, <2>2, <2>5
    <3>2. i = next => Items(phase)[i] = v
      BY DEF v
    <3> QED BY <2>3, <2>4, <2>5, <3>1, <3>2 DEF Passed
  <2>6. \A q \in Earlier(phase) : \A w \in On(q) : Through(q, w)
    BY DEF Passed
  <2> QED BY <2>2, <2>5, <2>6 DEF Passed, Through
<1>3. ASSUME NEW v \in VMs, LaneMoves(v) PROVE Passed'
  BY <1>3, <1>a, LaneStep
<1>4. ASSUME phase' = "syntax" PROVE Passed'
  <2>1. Earlier(phase') = {} /\ DOMAIN Items(phase') = {}
    BY <1>4 DEF Earlier, Items
  <2> QED BY <2>1 DEF Passed
<1>5. ASSUME NEW v \in VMs, SyntaxFails(v) PROVE Passed'
  BY <1>4, <1>5 DEF SyntaxFails
<1>6. CASE WriteFails \/ Crash
  <2>1. UNCHANGED <<phase, next, records>>
    BY <1>6, Cleared
  <2>2. lost' > 0
    <3>1. WriteFails => broken'
      BY Cleared
    <3>2. Crash => lost' = Lanes
      BY DEF Crash
    <3> QED BY <1>6, <3>1, <3>2, CustomizationAssumption DEF Typed, Waits
  <2>3. lost' # 0
    BY <2>2
  <2> QED BY <1>a, <2>1, <2>3
<1>7. CASE Start
  BY <1>4, <1>7 DEF Start
<1>8. CASE Aside
  <2>1. CASE NextPhase
    <3>1. /\ Earlier(phase') \subseteq Earlier(phase) \cup {phase} /\ records' = records
          /\ \A q \in Earlier(phase) \cup {phase} : \A v \in On(q) : Through(q, v)
          /\ next' = 1
      BY <2>1, PhaseOver
    <3>2. \A i \in DOMAIN Items(phase') : ~ (i < next')
      BY <1>b, <1>c, <3>1
    <3> QED BY <3>1, <3>2 DEF Passed, Through
  <2> QED BY <1>8, <1>a, <2>1, AsideKeeps
<1> QED BY <1>1, <1>2, <1>3, <1>5, <1>6, <1>7, <1>8
        DEF Next, LaneNext, RunNext, FaultNext, Aside, LaneMoves

LEMMA PreparedStep ==
  ASSUME Typed, Duty, Passed, Prepared, [Next]_vars
  PROVE  Prepared'
<1>a. ASSUME UNCHANGED <<phase, unready>>, \A v \in VMs : records[v].done \subseteq records'[v].done
      PROVE  Prepared'
  BY <1>a DEF Prepared
<1>b. ASSUME UNCHANGED <<phase, unready, records>> PROVE Prepared'
  BY <1>a, <1>b
<1>1. CASE Written
  <2>1. \A v \in VMs : records[v].done \subseteq records'[v].done
    BY <1>1, WrittenParts
  <2> QED BY <1>1, <1>a, <2>1 DEF Written
<1>2. ASSUME NEW v \in VMs, LaneMoves(v) PROVE Prepared'
  BY <1>2, <1>b, LaneStep
<1>3. CASE Take
  BY <1>3, <1>b DEF Take
<1>4. ASSUME NEW v \in VMs, SyntaxFails(v) PROVE Prepared'
  BY <1>4 DEF SyntaxFails, Prepared
<1>5. CASE WriteFails \/ Crash
  BY <1>5, <1>b, Cleared
<1>6. CASE Start
  BY <1>6 DEF Start, Prepared
<1>7. CASE NextPhase
  <2>1. /\ phase' = After(phase) /\ UNCHANGED <<records, unready>>
        /\ \A q \in Earlier(phase) \cup {phase} : \A v \in On(q) : Through(q, v)
    BY <1>7, PhaseOver
  <2>2. SUFFICES ASSUME phase' = "blocks" PROVE Prepared'
    BY DEF Prepared
  <2>3. phase = "member" /\ Preparation
    BY <2>1, <2>2 DEF After, Typed, TypeOK, Phases
  <2>4. Earlier(phase) \cup {phase} = Earlier("blocks")
    BY <2>3 DEF Earlier
  <2>5. ASSUME NEW v \in VMs PROVE Standard(v) \subseteq records[v].done
    <3>1. \A q \in Earlier("blocks") : Due(q, v) \subseteq records[v].done
      <4>1. ASSUME NEW q \in Earlier("blocks"), v \in On(q) PROVE Due(q, v) \subseteq records[v].done
        BY <2>1, <2>3, <2>4, <4>1 DEF Through, Preparation
      <4> QED BY <4>1 DEF Due
    <3> QED BY <3>1, Dues
  <2> QED BY <2>1, <2>3, <2>5 DEF Prepared, Preparation
<1>8. CASE Aside
  BY <1>7, <1>8, <1>b, AsideKeeps
<1> QED BY <1>1, <1>2, <1>3, <1>4, <1>5, <1>6, <1>8
        DEF Next, LaneNext, RunNext, FaultNext, Aside, LaneMoves

---------------------------------------------------------------------------
(* What Redis has *)

AllSynced == \A v \in VMs : Synced(v)

\* As long as no write has failed, the run goes on and no earlier one writes,
\* Redis has what the store has.
LEMMA Level ==
  ASSUME Typed, AllSynced, ~ overwritten, ~ broken, Working # {} \/ lost = 0
  PROVE  saved = records
<1>1. ~ (lost >= Lanes /\ lost = 0)
  BY CustomizationAssumption
<1>2. \A v \in VMs : saved[v] = records[v]
  BY <1>1 DEF AllSynced, Synced
<1> QED BY <1>2 DEF Typed, TypeOK

LEMMA SyncedStep ==
  ASSUME Typed, Duty, AllSynced, [Next]_vars
  PROVE  AllSynced'
<1>0. Idle.pc = "idle"
  BY DEF Idle
<1>b. SUFFICES ASSUME ~ overwritten' PROVE AllSynced'
  BY DEF AllSynced, Synced
<1>c. ~ overwritten
  BY <1>b, Overwritten
<1> USE <1>c
<1>a. ASSUME UNCHANGED <<records, saved, broken, lane, lost>>, UNCHANGED phase \/ Working = {}
      PROVE  AllSynced'
  <2>1. \A v \in VMs : Working = {} => lane[v].pc = "idle"
    BY DEF Working
  <2>2. Working' = Working
    BY <1>a DEF Working
  <2> QED BY <1>a, <2>1, <2>2 DEF AllSynced, Synced
<1>1. CASE Written
  BY <1>1, WrittenParts DEF AllSynced, Synced
<1>2. CASE Take
  <2> DEFINE u == Items(phase)[next]
  <2>1. u \in VMs /\ UNCHANGED <<records, saved, broken, phase>>
    BY <1>2, Lists DEF Take, Typed, TypeOK
  <2>2. ~ (Working = {} /\ lost >= Lanes)
    <3>1. Cardinality({}) = 0
      BY FS_EmptySet
    <3>2. Cardinality(Working) + lost < Lanes
      BY <1>2 DEF Take
    <3>3. lost \in Nat /\ Lanes \in Nat
      BY CustomizationAssumption DEF Typed, TypeOK
    <3> QED BY <3>1, <3>2, <3>3
  <2>3. \/ UNCHANGED lane
        \/ broken /\ lane' = [lane EXCEPT ![u] = Idle]
        \/ ~ broken
        \/ phase \notin {"linux", "windows"} /\ lane' = [lane EXCEPT ![u].pc = "go"]
    BY <1>2 DEF Take, Put, Lose
  <2> HIDE DEF u
  <2>4. \/ ~ broken
        \/ \A v \in VMs : \/ lane'[v] = lane[v]
                          \/ lane'[v].pc = "idle"
                          \/ phase \notin {"linux", "windows"} /\ lane'[v].pc = "go"
    BY <1>0, <2>1, <2>3 DEF Typed, TypeOK, Lane
  <2> QED BY <2>1, <2>2, <2>4 DEF AllSynced, Synced
<1>3. ASSUME NEW v \in VMs, LaneMoves(v) PROVE AllSynced'
  <2>1. /\ lane[v].pc \in {"go", "cmd", "clean", "sleep", "throw"}
        /\ UNCHANGED <<phase, records, broken, saved>>
        /\ \A w \in VMs \ {v} : lane'[w] = lane[w]
        /\ broken /\ lane[v].pc = "go" /\ phase # "linux" => lane'[v].pc = "idle"
    BY <1>3, LaneStep
  <2>2. Working # {}
    BY <2>1 DEF Working
  <2>3. \A w \in VMs : Synced(w)'
    BY <2>1, <2>2 DEF AllSynced, Synced
  <2> QED BY <2>3 DEF AllSynced
<1>4. ASSUME NEW v \in VMs, SyntaxFails(v) PROVE AllSynced'
  BY <1>4 DEF SyntaxFails, AllSynced, Synced
<1>5. CASE WriteFails
  <2>1. /\ UNCHANGED <<phase, records>> /\ broken'
        /\ \A v \in VMs : lane'[v] = lane[v] \/ lane'[v] = Idle
        /\ \A v \in VMs : lane'[v].pc # "write"
        /\ saved' = saved \/ \E e \in Entries : saved' = Patch(e)
    <3>1. ~ Start
      BY <1>5, <1>0 DEF WriteFails, Start
    <3> QED BY <1>5, <3>1, Cleared
  <2>2. /\ ~ broken /\ Head(chain) \in Entries /\ Head(chain).vm \in VMs
    BY <1>5, FirstUpdate DEF WriteFails, Typed
  <2>3. Working # {}
    BY <2>2 DEF Typed, Waits, Working
  <2>4. saved = records
    BY <2>2, <2>3, Level
  <2>5. ASSUME NEW v \in VMs PROVE Synced(v)'
    <3>1. CASE saved'[v] = records[v]
      BY <2>1, <3>1 DEF Synced
    <3>2. ASSUME NEW e \in Entries, saved' = Patch(e), v = e.vm PROVE Synced(v)'
      <4>1. lane[v].pc = "write"
        BY <3>2 DEF Typed, Waits
      <4>2. lane'[v].pc = "idle"
        BY <1>0, <2>1, <4>1
      <4> QED BY <2>1, <4>2 DEF Synced
    <3>3. ASSUME NEW e \in Entries, saved' = Patch(e), v # e.vm PROVE saved'[v] = records[v]
      BY <3>3, UpdateVMs, PatchTypes DEF Typed
    <3> QED BY <2>1, <2>4, <3>1, <3>2, <3>3
  <2> QED BY <2>5 DEF AllSynced
<1>6. CASE Crash
  <2>1. (\A v \in VMs : lane'[v] = Idle) /\ lost' = Lanes
    BY <1>6, Cleared
  <2>2. Working' = {} /\ lost' >= Lanes
    BY <1>0, <2>1, CustomizationAssumption DEF Working
  <2> QED BY <2>2 DEF AllSynced, Synced
<1>7. CASE Start
  BY <1>7, Cleared DEF AllSynced, Synced
<1>8. CASE Aside
  <2>1. UNCHANGED <<records, saved, broken, lane, lost>>
    BY <1>8, <1>b, AsideKeeps, Overwritten
  <2>2. UNCHANGED phase \/ Working = {}
    BY <1>8, AsideKeeps, PhaseOver DEF NextPhase
  <2> QED BY <1>a, <2>1, <2>2
<1> QED BY <1>1, <1>2, <1>3, <1>4, <1>5, <1>6, <1>7, <1>8
        DEF Next, LaneNext, RunNext, FaultNext, Aside, LaneMoves

\* The last phase has no lanes and no updates.
LEMMA AtRest ==
  ASSUME Typed, Duty, phase \in {"syntax", "end"}
  PROVE  Working = {} /\ chain = <<>> /\ Items(phase) = <<>>
<1>1. Working = {}
  BY DEF Duty, OnDuty, On
<1>2. chain = <<>>
  BY <1>1, FirstUpdate DEF Typed, Waits, Working
<1> QED BY <1>1, <1>2 DEF Items

LEMMA EndedStep ==
  ASSUME Typed, Duty, AllSynced, Ended, [Next]_vars
  PROVE  Ended'
<1>d. overwritten => overwritten'
  BY Overwritten
<1>a. ASSUME UNCHANGED <<phase, records, job>>, UNCHANGED saved \/ overwritten' PROVE Ended'
  BY <1>a, <1>d DEF Ended
<1>b. ASSUME job' \in {"waiting", "failed"} PROVE Ended'
  BY <1>b DEF Ended
<1>c. ASSUME job' = job, UNCHANGED phase, phase # "end" PROVE Ended'
  BY <1>c DEF Ended
<1>1. CASE Written
  <2>1. chain # <<>> /\ job' = job /\ UNCHANGED phase
    BY <1>1 DEF Written
  <2> QED BY <1>c, <2>1, AtRest
<1>2. CASE Take
  BY <1>2, <1>a DEF Take
<1>3. ASSUME NEW v \in VMs, LaneMoves(v) PROVE Ended'
  BY <1>3, <1>a, LaneStep
<1>4. ASSUME NEW v \in VMs, SyntaxFails(v) PROVE Ended'
  <2>1. phase = "syntax" /\ UNCHANGED <<job, phase>>
    BY <1>4 DEF SyntaxFails
  <2> QED BY <1>c, <2>1
<1>5. CASE WriteFails
  <2>1. chain # <<>> /\ job' = job /\ UNCHANGED phase
    BY <1>5 DEF WriteFails
  <2> QED BY <1>c, <2>1, AtRest
<1>6. CASE Crash \/ JobFails \/ Resume
  BY <1>6, <1>b DEF Crash, JobFails, Resume
<1>7. CASE Start
  BY <1>7 DEF Start, Ended
<1>8. CASE NextPhase
  <2>1. UNCHANGED <<records, saved, job>> /\ job = "active" /\ lost = 0
    BY <1>8 DEF NextPhase
  <2>2. ~ broken
    BY <2>1 DEF Typed, Waits
  <2>3. overwritten \/ saved = records
    BY <2>1, <2>2, Level
  <2> QED BY <1>d, <2>1, <2>3 DEF Ended
<1>9. CASE Complete
  <2>1. /\ phase = "end" /\ job = "active" /\ \A v \in VMs : records[v].status = "succeeded"
        /\ UNCHANGED <<phase, records, saved>>
    BY <1>9 DEF Complete, run
  <2> QED BY <1>d, <2>1 DEF Ended
<1>10. CASE LeftoverNext
  <2>1. UNCHANGED <<phase, records, job>>
    BY <1>10, LateOne DEF Others, Typed
  <2> QED BY <1>10, <1>a, <2>1, Overwritten
<1>11. CASE Abort \/ UNCHANGED vars
  BY <1>11, <1>a DEF Abort, vars, run
<1> QED BY <1>1, <1>2, <1>3, <1>4, <1>5, <1>6, <1>7, <1>8, <1>9, <1>10, <1>11
        DEF Next, LaneNext, RunNext, FaultNext, LaneMoves

---------------------------------------------------------------------------
(* Theorems *)

IInv ==
  /\ Typed /\ Duty
  /\ Accounts(records) /\ Accounts(saved) /\ OldRuns
  /\ Passed /\ Prepared /\ AllSynced /\ Ended

LEMMA Starts == Init => IInv
<1> SUFFICES ASSUME Init PROVE IInv
  OBVIOUS
<1>0. /\ Idle \in Lane /\ Idle.pc = "idle"
      /\ [status |-> "pending", done |-> {}] \in Record
      /\ \A v \in VMs : records[v] = [status |-> "pending", done |-> {}]
  BY CustomizationAssumption DEF Init, NoResults, Idle, Lane, Steps, NoStep, Record, Status
<1>1. Working = {} /\ Entries = {} /\ Earlier(phase) = {} /\ DOMAIN Items(phase) = {}
  BY <1>0 DEF Init, Working, Entries, Earlier, Items
<1>2. TypeOK
  <2>1. broken \in BOOLEAN /\ aborted \in BOOLEAN /\ unready \in BOOLEAN /\ overwritten \in BOOLEAN
    BY Zenon DEF Init
  <2>2. lane \in [VMs -> Lane] /\ records \in [VMs -> Record] /\ saved \in [VMs -> Record]
    BY <1>0 DEF Init, NoResults
  <2>3. chain \in Seq(Update)
    BY DEF Init
  <2> QED BY <2>1, <2>2, <2>3 DEF Init, TypeOK, Phases
<1>3. Waits
  BY <1>0, <1>1 DEF Init, Waits
<1>4. Duty
  BY <1>1 DEF Duty, OnDuty, Queued
<1>5. Accounts(records) /\ Accounts(saved) /\ OldRuns
  BY <1>0 DEF Init, Accounts, OldRuns
<1>6. Passed /\ Prepared /\ AllSynced /\ Ended
  BY <1>1 DEF Init, Passed, Prepared, AllSynced, Synced, Ended
<1> QED BY <1>2, <1>3, <1>4, <1>5, <1>6 DEF IInv, Typed

LEMMA Step == IInv /\ [Next]_vars => IInv'
BY TypeStep, DutyStep, AccountsStep, OldRunsStep, PassedStep, PreparedStep, SyncedStep, EndedStep DEF IInv

LEMMA Invariance == Spec => []IInv
BY Starts, Step, PTL DEF Spec

\* Every variable keeps its type: among others, a retry stays within its
\* attempts and every lane works on a step of the plan.
THEOREM CustomizationTypes == Spec => []TypeOK
<1>1. IInv => TypeOK
  BY DEF IInv, Typed
<1> QED BY <1>1, Invariance, PTL

\* The barriers of runCustomization, for any lab and however often the job was
\* failed and resumed: a custom block runs on a VM only when every VM of the
\* lab has been through its standard steps and none failed its readiness, and
\* a member joins only when every controller's domain step is over.
THEOREM BarriersHold == Spec => []Barriers
<1>1. ASSUME IInv PROVE TasksAfterSetup
  <2> SUFFICES ASSUME NEW v \in Commands, phase = "blocks", NEW w \in VMs
               PROVE  ~ unready /\ Standard(w) \subseteq records[w].done \cap effects[w]
    BY DEF TasksAfterSetup, Commands
  <2> QED BY <1>1 DEF IInv, Prepared, Accounts
<1>2. ASSUME IInv PROVE MembersAfterControllers
  <2> SUFFICES ASSUME NEW v \in Commands, Role[v] = "member", lane[v].step = "domain",
                      NEW w \in VMs, Role[w] = "controller"
               PROVE  lane[w].pc = "idle" /\ ("domain" \in records[w].done \/ records[w].status = "failed")
    BY DEF MembersAfterControllers
  <2>1. v \in VMs /\ v \in Working /\ lane[v].pc = "cmd"
    BY DEF Commands, Working
  <2>2. "domain" \in Due(phase, v) /\ \A u \in Working : u \in On(phase)
    BY <1>2, <2>1 DEF IInv, Duty, OnDuty, InHand
  <2>3. phase \in Phases
    BY <1>2 DEF IInv, Typed, TypeOK
  <2>4. phase = "member"
    <3>1. "domain" \notin Elements(WindowsSteps) /\ "domain" \notin Elements(Blocks[v])
      BY <2>1, CustomizationAssumption
    <3> QED BY <2>1, <2>2, <2>3, <3>1, DueSets DEF Phases
  <2>5. w \in Elements(WindowsTargets)
    BY CustomizationAssumption DEF VMs
  <2>6. w \notin Working
    BY <2>2, <2>4 DEF On
  <2>7. Due("controller", w) = {"domain"} /\ w \in On("controller") /\ "controller" \in Earlier(phase)
    BY <2>4, <2>5, DueSets DEF On, Earlier
  <2> QED BY <1>2, <2>6, <2>7 DEF IInv, Passed, Through, Working
<1> QED BY <1>1, <1>2, Invariance, PTL DEF Barriers

\* A run that reports success has every step of every VM checkpointed in
\* Redis, so that a later resume would find nothing to do, unless a lane of an
\* aborted run has written over it.
THEOREM SuccessHolds == Spec => []SuccessIsComplete
<1>1. ASSUME IInv PROVE SuccessIsComplete
  <2> SUFFICES ASSUME job = "completed", ~ overwritten, NEW v \in VMs PROVE saved[v].done = Plan(v)
    BY DEF SuccessIsComplete, Plan
  <2>1. saved = records /\ records[v].status = "succeeded"
    BY <1>1 DEF IInv, Ended
  <2> QED BY <1>1, <2>1 DEF IInv, Accounts
<1> QED BY <1>1, Invariance, PTL

\* The lanes of one run never lose a checkpoint of Redis, whatever order VMs
\* finish in, writes fail in or workers die in.
LEMMA CheckpointKept ==
  ASSUME IInv, [Next]_vars, NEW v \in VMs, ~ overwritten'
  PROVE  saved[v].done \subseteq saved'[v].done
<1> USE DEF IInv
<1>0. ~ overwritten
  BY Overwritten
<1> USE <1>0
<1>1. CASE Written
  <2>1. /\ \A u \in VMs : records[u].done \subseteq records'[u].done
        /\ saved' = records' /\ ~ broken
    BY <1>1, WrittenParts
  <2>2. Working # {}
    BY <1>1, WrittenParts DEF Working
  <2> QED BY <2>1, <2>2, Level
<1>2. ASSUME NEW u \in VMs, SyntaxFails(u) PROVE saved[v].done \subseteq saved'[v].done
  <2>1. /\ saved' = [records EXCEPT ![u].status = "failed"] /\ lost = 0
    BY <1>2 DEF SyntaxFails
  <2>2. ~ broken
    BY <2>1 DEF Typed, Waits
  <2>3. saved = records
    BY <2>1, <2>2, Level
  <2>4. saved'[v].done = records[v].done
    BY <2>1 DEF Typed, TypeOK, Record
  <2> QED BY <2>3, <2>4
<1>3. ASSUME NEW e \in Entries, chain # <<>>, saved' = Patch(e)
      PROVE  saved[v].done \subseteq saved'[v].done
  <2>1. ~ broken
    BY <1>3, FirstUpdate DEF Typed
  <2>2. e \in Update /\ e.vm \in Working
    BY UpdateVMs DEF Typed, Waits, Working
  <2>3. saved = records
    BY <2>1, <2>2, Level
  <2>4. records[v].done \subseteq Patch(e)[v].done
    BY <2>2, PatchTypes DEF Typed
  <2> QED BY <1>3, <2>3, <2>4
<1>4. CASE WriteFails \/ Crash \/ Start
  BY <1>3, <1>4, Cleared
<1>5. CASE UNCHANGED saved
  BY <1>5
<1>6. ASSUME NEW u \in VMs, LaneMoves(u) PROVE UNCHANGED saved
  BY <1>6, LaneStep
<1>7. Aside => UNCHANGED saved
  BY AsideKeeps, Overwritten
<1>8. Take => UNCHANGED saved
  BY DEF Take
<1> QED BY <1>1, <1>2, <1>4, <1>5, <1>6, <1>7, <1>8
        DEF Next, LaneNext, RunNext, FaultNext, Aside, LaneMoves

\* A command begins only for a step that Redis has no checkpoint of.
LEMMA NotRedone ==
  ASSUME IInv, ~ overwritten, [Next]_vars, NEW v \in VMs, lane'[v].pc = "cmd", lane[v].pc # "cmd"
  PROVE  lane'[v].step \notin saved[v].done
<1> USE DEF IInv
<1>1. CASE Written
  <2>1. PICK e \in Entries : /\ e.vm \in VMs /\ lane[e.vm].pc = "write" /\ ~ broken
                             /\ lane'[e.vm].pc = e.to
                             /\ (e.to # "idle" => lane'[e.vm].step = lane[e.vm].step)
                             /\ \A u \in VMs \ {e.vm} : lane'[u] = lane[u]
    BY <1>1, WrittenParts
  <2>2. v = e.vm /\ e.to = "cmd"
    BY <2>1
  <2>3. saved = records
    BY <2>1, Level DEF Working
  <2> QED BY <2>1, <2>2, <2>3 DEF Duty, Queued, InHand
<1>2. ASSUME NEW u \in VMs, LaneMoves(u) PROVE lane'[v].step \notin saved[v].done
  <2>1. u = v
    BY <1>2, LaneStep
  <2>2. /\ lane'[v].step \notin records[v].done /\ lane[v].pc = "go" /\ phase = "linux"
    BY <1>2, <2>1, LaneStep
  <2>3. v \in Working
    BY <2>2 DEF Working
  <2>4. saved[v] = records[v]
    BY <2>2, <2>3 DEF AllSynced, Synced
  <2> QED BY <2>2, <2>4
<1>3. CASE Take
  <2> DEFINE u == Items(phase)[next]
  <2>1. u \in VMs /\ lane[u].pc = "idle" /\ UNCHANGED broken
    BY <1>3, TakenItem
       DEF Take
  <2>2. \/ UNCHANGED lane
        \/ Put(u, Idle, "running", NoStep, "go")
        \/ lane' = [lane EXCEPT ![u].pc = "go"]
    BY <1>3 DEF Take
  <2>3. Idle \in Lane /\ "running" \in Status /\ NoStep \in Steps /\ Idle.pc = "idle"
    BY CustomizationAssumption DEF Idle, Lane, Steps, NoStep, Status
  <2> HIDE DEF u
  <2>4. ASSUME Put(u, Idle, "running", NoStep, "go") PROVE FALSE
    <3>1. TypeOK /\ Waits /\ lane[u].pc # "write"
      BY <2>1 DEF Typed
    <3>2. /\ \A w \in VMs \ {u} : lane'[w] = lane[w]
          /\ lane'[u] = Idle \/ lane'[u].pc = "write"
      BY <2>1, <2>3, <2>4, <3>1, PutParts
    <3> QED BY <2>3, <3>2
  <2>5. lane' = [lane EXCEPT ![u].pc = "go"] => FALSE
    BY <2>1 DEF Typed, TypeOK, Lane
  <2> QED BY <2>2, <2>4, <2>5
<1>4. CASE WriteFails \/ Crash \/ Start
  <2>1. lane'[v] = lane[v] \/ lane'[v] = Idle
    BY <1>4, Cleared
  <2> QED BY <2>1 DEF Idle
<1>5. CASE UNCHANGED lane
  BY <1>5
<1>6. Aside => UNCHANGED lane
  BY AsideKeeps
<1>7. ASSUME NEW u \in VMs, SyntaxFails(u) PROVE UNCHANGED lane
  BY <1>7 DEF SyntaxFails
<1> QED BY <1>1, <1>2, <1>3, <1>4, <1>5, <1>6, <1>7
        DEF Next, LaneNext, RunNext, FaultNext, Aside, LaneMoves

\* What Redis has of a VM's steps it keeps, unless a lane of an aborted run
\* writes over it.
THEOREM CheckpointsAreKept == Spec => CheckpointsKept
<1>1. IInv /\ [Next]_vars => [~ overwritten' => \A v \in VMs : saved[v].done \subseteq saved'[v].done]_vars
  BY CheckpointKept
<1> QED BY <1>1, Invariance, PTL DEF Spec, CheckpointsKept

\* A step with a checkpoint is never run again, in no later run of the job,
\* unless a lane of an aborted run has written over it.
THEOREM NothingIsRedone == Spec => NeverRedone
<1>1. IInv /\ [Next]_vars =>
        [\A v \in VMs : ~ overwritten /\ v \in Commands' /\ lane[v].pc # "cmd"
           => lane'[v].step \notin saved[v].done]_vars
  BY NotRedone DEF Commands
<1> QED BY <1>1, Invariance, PTL DEF Spec, NeverRedone

\* Redis has only checkpoints of steps the guest has been through, whatever
\* the lanes of aborted runs write beside the run that resumed the job.
THEOREM CheckpointsTrue == Spec => []CheckpointsAreTrue
<1>1. IInv => CheckpointsAreTrue
  BY DEF IInv, Accounts, CheckpointsAreTrue
<1> QED BY <1>1, Invariance, PTL

---------------------------------------------------------------------------
(* What is in hand *)

\* The steps of a plan that come before u
Before(s, u) == {s[j] : j \in {k \in DOMAIN s : \A i \in DOMAIN s : s[i] = u => k < i}}
Ahead(v, u) ==
  IF u \in Elements(WindowsSteps) THEN Before(WindowsSteps, u)
  ELSE IF u = "domain" THEN Elements(WindowsSteps)
  ELSE IF u \in Elements(Blocks[v]) THEN Standard(v) \cup Before(Blocks[v], u)
  ELSE {}

\* The lanes keep to the order of the plan.
InOrder ==
  /\ \A v \in VMs : lane[v].pc \in {"cmd", "clean", "sleep"} => Ahead(v, lane[v].step) \subseteq records[v].done
  /\ \A e \in Entries : e.to \in {"cmd", "sleep"} => Ahead(e.vm, lane[e.vm].step) \subseteq records[e.vm].done

\* A step that was done without its checkpoint, and one that a command an
\* earlier run left behind may still do, is the first that Redis has not.
FirstMissing(v, u) == u \in Plan(v) /\ Ahead(v, u) \subseteq saved[v].done
Unsaved ==
  ~ overwritten =>
    /\ \A v \in VMs : \A u \in effects[v] \ saved[v].done : FirstMissing(v, u)
    /\ \A r \in left : \A x \in r.lanes : x.step # NoStep => FirstMissing(x.vm, x.step)

Smaller == {x \in Nat \X Nat : x[1] < x[2]}

LEMMA LeastNat ==
  ASSUME NEW T, T \subseteq Nat, T # {}
  PROVE  \E x \in T : \A y \in T : x <= y
<1>1. IsWellFoundedOn(Smaller, Nat)
  BY NatLessThanWellFounded DEF OpToRel, Smaller
<1>2. \E x \in T : \A y \in T : ~ (<<y, x>> \in Smaller)
  BY <1>1, WFMin
<1>3. \A x, y \in Nat : y < x => <<y, x>> \in Smaller
  BY DEF Smaller
<1>4. \A x, y \in Nat : ~ (y < x) => x <= y
  OBVIOUS
<1>5. PICK x \in T : \A y \in T : ~ (<<y, x>> \in Smaller)
  BY <1>2
<1>6. \A y \in T : x <= y
  BY <1>3, <1>4, <1>5
<1> QED BY <1>6

\* Of two steps of a list, one comes first.
LEMMA OneBefore ==
  ASSUME NEW s, DOMAIN s \subseteq Nat, NEW u \in Elements(s), NEW w \in Elements(s), u # w
  PROVE  u \in Before(s, w) \/ w \in Before(s, u)
<1> DEFINE T == {k \in DOMAIN s : s[k] \in {u, w}}
<1>1. T # {} /\ T \subseteq Nat
  BY DEF Elements
<1>2. PICK m \in T : \A k \in T : m <= k
  BY <1>1, LeastNat
<1>3. ASSUME NEW x \in {u, w}, s[m] # x PROVE \A i \in DOMAIN s : s[i] = x => m < i
  BY <1>1, <1>2, <1>3
<1>4. m \in DOMAIN s /\ s[m] \in {u, w}
  BY <1>2
<1> QED BY <1>3, <1>4 DEF Before

LEMMA OneAhead ==
  ASSUME NEW v \in VMs, NEW u \in Plan(v), NEW w \in Plan(v), u # w
  PROVE  u \in Ahead(v, w) \/ w \in Ahead(v, u)
<1> USE CustomizationAssumption
<1>1. DOMAIN WindowsSteps \subseteq Nat /\ DOMAIN Blocks[v] \subseteq Nat
  BY DEF IsSequence
<1>2. \A x \in Plan(v) : x \in Standard(v) \/ x \in Elements(Blocks[v])
  BY DEF Plan
<1>3. \A x \in Elements(Blocks[v]) : x \notin Elements(WindowsSteps) /\ x # "domain" /\ x \notin Standard(v)
  BY DEF Standard
<1>4. CASE u \in Elements(Blocks[v]) /\ w \in Elements(Blocks[v])
  BY <1>1, <1>3, <1>4, OneBefore DEF Ahead
<1>5. CASE u \in Standard(v) /\ w \in Elements(Blocks[v])
  BY <1>3, <1>5 DEF Ahead
<1>6. CASE u \in Elements(Blocks[v]) /\ w \in Standard(v)
  BY <1>3, <1>6 DEF Ahead
<1>7. CASE u \in Standard(v) /\ w \in Standard(v)
  <2>1. CASE v \in Elements(LinuxTargets)
    BY <1>7, <2>1 DEF Standard
  <2>2. CASE v \notin Elements(LinuxTargets)
    <3>1. u \in Elements(WindowsSteps) \cup {"domain"} /\ w \in Elements(WindowsSteps) \cup {"domain"}
      BY <1>7, <2>2 DEF Standard
    <3>2. "domain" \notin Elements(WindowsSteps)
      OBVIOUS
    <3>3. CASE u \in Elements(WindowsSteps) /\ w \in Elements(WindowsSteps)
      BY <1>1, <3>3, OneBefore DEF Ahead
    <3> QED BY <3>1, <3>2, <3>3 DEF Ahead
  <2> QED BY <2>1, <2>2
<1> QED BY <1>2, <1>4, <1>5, <1>6, <1>7

\* The first step without a checkpoint comes after the others of its list.
LEMMA FirstTodo ==
  ASSUME NEW s, DOMAIN s \subseteq Nat, NEW D, NEW i \in DOMAIN s,
         \A j \in DOMAIN s : s[j] \notin D => i <= j
  PROVE  Before(s, s[i]) \subseteq D
BY DEF Before

\* A step that a lane proceeds to has nothing ahead of it left to do.
LEMMA ProceedsInOrder ==
  ASSUME Typed, Duty, NEW v \in VMs, lane[v].pc = "go", NEW i \in Todo(v),
         \A j \in Todo(v) : i <= j
  PROVE  Ahead(v, StepsOf(phase, v)[i]) \subseteq records[v].done
<1> USE CustomizationAssumption
<1> DEFINE s == StepsOf(phase, v)
           D == records[v].done
<1>0. phase \in Phases
  BY DEF Typed, TypeOK
<1>1. v \in On(phase) /\ \A q \in Earlier(phase) : Due(q, v) \subseteq D
  BY DEF Duty, OnDuty, Working
<1>2. i \in DOMAIN s /\ DOMAIN s \subseteq Nat /\ \A j \in DOMAIN s : s[j] \notin D => i <= j
  BY <1>0, Lists DEF Todo
<1>3. Before(s, s[i]) \subseteq D
  BY <1>2, FirstTodo
<1>4. s[i] \in Elements(s)
  BY <1>2 DEF Elements
<1>5. CASE phase = "linux"
  <2>1. s[i] = "linux"
    BY <1>2, <1>5 DEF StepsOf
  <2> QED BY <2>1 DEF Ahead
<1>6. CASE phase = "windows"
  <2>1. s = WindowsSteps
    BY <1>6 DEF StepsOf
  <2> QED BY <1>3, <1>4, <2>1 DEF Ahead
<1>7. CASE phase \in {"controller", "member"}
  <2>1. s[i] = "domain"
    BY <1>2, <1>7 DEF StepsOf
  <2>2. v \in Elements(WindowsTargets) /\ "windows" \in Earlier(phase)
    BY <1>1, <1>7 DEF On, Earlier
  <2>3. Elements(WindowsSteps) \subseteq D
    BY <1>1, <2>2, DueSets
  <2> QED BY <2>1, <2>3 DEF Ahead
<1>8. CASE phase = "blocks"
  <2>1. s = Blocks[v]
    BY <1>8 DEF StepsOf
  <2>2. Standard(v) \subseteq D
    BY <1>1, <1>8, Dues
  <2> QED BY <1>3, <1>4, <2>1, <2>2 DEF Ahead
<1> QED BY <1>0, <1>1, <1>5, <1>6, <1>7, <1>8 DEF On, Phases

\* A lane that waits to go on, and one that moves, keeps to the order.
LEMMA PutInOrder ==
  ASSUME Typed, InOrder, NEW v \in VMs, lane[v].pc # "write", NEW l \in Lane,
         NEW st \in Status \cup {"same"}, NEW d \in Steps,
         NEW to \in {"idle", "go", "cmd", "sleep", "throw"}, to = "sleep" => l.tries < MaxAttempts,
         Put(v, l, st, d, to), UNCHANGED <<broken, records>>,
         to \in {"cmd", "sleep"} => Ahead(v, l.step) \subseteq records[v].done
  PROVE  InOrder'
<1> DEFINE e == [vm |-> v, status |-> st, done |-> d, to |-> to]
<1>1. /\ \A w \in VMs \ {v} : lane'[w] = lane[w]
      /\ \/ Entries' = Entries /\ lane'[v] = Idle
         \/ /\ Entries' = Entries \cup {e}
            /\ lane'[v].pc = "write" /\ lane'[v].step = l.step
  <2>1. TypeOK /\ Waits /\ broken' = broken
    BY DEF Typed
  <2> HIDE DEF e
  <2>2. /\ \A w \in VMs \ {v} : lane'[w] = lane[w]
        /\ \/ Entries' = Entries /\ lane'[v] = Idle
           \/ /\ Entries' = Entries \cup {[vm |-> v, status |-> st, done |-> d, to |-> to]}
              /\ lane'[v].pc = "write" /\ lane'[v].step = l.step
    BY <2>1, PutParts
  <2> QED BY <2>2 DEF e
<1>2. e.vm = v /\ e.to = to /\ Idle.pc = "idle"
  BY DEF Idle
<1>3. \A x \in Entries : x.vm \in VMs /\ x.vm # v
  BY UpdateVMs DEF Typed, Waits
<1> HIDE DEF e
<1>4. \A w \in VMs : lane'[w].pc \in {"cmd", "clean", "sleep"} => Ahead(w, lane'[w].step) \subseteq records[w].done
  BY <1>1, <1>2 DEF InOrder
<1>5. \A x \in Entries' : x.to \in {"cmd", "sleep"} => Ahead(x.vm, lane'[x.vm].step) \subseteq records[x.vm].done
  BY <1>1, <1>2, <1>3 DEF InOrder
<1> QED BY <1>4, <1>5 DEF InOrder, Ahead

LEMMA InOrderStep ==
  ASSUME IInv, InOrder, [Next]_vars
  PROVE  InOrder'
<1> USE CustomizationAssumption
<1>0. /\ Typed /\ Duty /\ Passed /\ Prepared
      /\ Idle \in Lane /\ Idle.pc = "idle" /\ NoStep \in Steps
      /\ {"pending", "succeeded", "running", "failed", "retrying"} \subseteq Status
      /\ \A v \in VMs : lane[v] \in Lane /\ lane[v].step \in Steps
      /\ \A e \in Entries : e.vm \in VMs /\ lane[e.vm].pc = "write"
  BY UpdateVMs DEF IInv, Idle, Lane, Steps, Typed, TypeOK, NoStep, Status, Waits
<1>a. ASSUME NEW v \in VMs, lane[v].pc # "write", NEW l, lane' = [lane EXCEPT ![v] = l], UNCHANGED <<chain, records>>,
             l.pc \in {"cmd", "clean", "sleep"} => Ahead(v, l.step) \subseteq records[v].done
      PROVE  InOrder'
  <2>1. lane'[v] = l /\ \A w \in VMs \ {v} : lane'[w] = lane[w]
    BY <1>0, <1>a DEF Typed, TypeOK
  <2>2. Entries' = Entries /\ \A e \in Entries : e.vm # v
    BY <1>0, <1>a DEF Entries
  <2>3. \A w \in VMs : lane'[w].pc \in {"cmd", "clean", "sleep"} => Ahead(w, lane'[w].step) \subseteq records[w].done
    BY <1>a, <2>1 DEF InOrder
  <2>4. \A x \in Entries : x.to \in {"cmd", "sleep"} => Ahead(x.vm, lane'[x.vm].step) \subseteq records[x.vm].done
    BY <1>0, <2>1, <2>2 DEF InOrder
  <2> QED BY <1>a, <2>2, <2>3, <2>4 DEF InOrder, Ahead
<1>b. ASSUME Entries' = {} \/ (Entries' = Entries /\ UNCHANGED lane), \A v \in VMs : lane'[v] = lane[v] \/ lane'[v].pc = "idle",
             (\E v \in VMs : lane'[v].pc # "idle") \/ Entries' # {} => \A v \in VMs : records'[v].done = records[v].done
      PROVE  InOrder'
  <2>1. \A v \in VMs : lane'[v].pc \in {"cmd", "clean", "sleep"} => Ahead(v, lane'[v].step) \subseteq records'[v].done
    BY <1>b DEF InOrder
  <2>2. \A x \in Entries' : x.to \in {"cmd", "sleep"} => Ahead(x.vm, lane'[x.vm].step) \subseteq records'[x.vm].done
    BY <1>0, <1>b DEF InOrder
  <2> QED BY <2>1, <2>2 DEF InOrder, Ahead
<1>1. CASE Written
  <2>1. PICK e \in Entries :
           /\ e.vm \in VMs /\ e.to # "clean"
           /\ \A x \in Entries \ {e} : x.vm \in VMs /\ x.vm # e.vm
           /\ Entries' = Entries \ {e}
           /\ lane'[e.vm].pc = e.to /\ (e.to # "idle" => lane'[e.vm].step = lane[e.vm].step)
           /\ \A v \in VMs \ {e.vm} : lane'[v] = lane[v] /\ records'[v] = records[v]
           /\ records'[e.vm].done = records[e.vm].done \cup ({e.done} \ {NoStep})
    BY <1>0, <1>1, WrittenParts DEF Update
  <2>2. ASSUME NEW v \in VMs, lane'[v].pc \in {"cmd", "clean", "sleep"}
        PROVE  Ahead(v, lane'[v].step) \subseteq records'[v].done
    <3>1. CASE v = e.vm
      <4>1. e.to \in {"cmd", "sleep"} /\ lane'[v].step = lane[v].step
        BY <2>1, <2>2, <3>1
      <4> QED BY <2>1, <3>1, <4>1 DEF InOrder
    <3>2. CASE v # e.vm
      BY <2>1, <2>2, <3>2 DEF InOrder
    <3> QED BY <3>1, <3>2
  <2>3. \A x \in Entries' : x.to \in {"cmd", "sleep"} => Ahead(x.vm, lane'[x.vm].step) \subseteq records'[x.vm].done
    BY <2>1 DEF InOrder
  <2> QED BY <2>2, <2>3 DEF InOrder, Ahead
<1>2. CASE Take
  <2> DEFINE u == Items(phase)[next]
             l == [lane[u] EXCEPT !.pc = "go"]
  <2>1. u \in VMs /\ lane[u].pc = "idle" /\ UNCHANGED <<broken, records>>
    BY <1>0, <1>2, TakenItem DEF Take
  <2>2. \/ UNCHANGED <<lane, chain>>
        \/ Put(u, Idle, "running", NoStep, "go")
        \/ lane' = [lane EXCEPT ![u] = l] /\ UNCHANGED chain
    BY <1>2 DEF Take
  <2>3. l.pc = "go"
    BY <1>0, <2>1 DEF Lane
  <2> HIDE DEF u, l
  <2>4. CASE Put(u, Idle, "running", NoStep, "go")
    BY <1>0, <2>1, <2>4, PutInOrder
  <2>5. CASE lane' = [lane EXCEPT ![u] = l] /\ UNCHANGED chain
    BY <1>a, <2>1, <2>3, <2>5
  <2>6. CASE UNCHANGED <<lane, chain>>
    BY <1>b, <2>1, <2>6 DEF Entries
  <2> QED BY <2>2, <2>4, <2>5, <2>6
<1>3. ASSUME NEW v \in VMs, Proceed(v) PROVE InOrder'
  <2>1. lane[v].pc = "go" /\ UNCHANGED <<broken, records>>
    BY <1>3 DEF Proceed
  <2>2. ASSUME Put(v, Idle, Finished(v), NoStep, "idle") PROVE InOrder'
    <3>1. Finished(v) \in Status
      BY <1>0 DEF Finished
    <3> QED BY <1>0, <2>1, <2>2, <3>1, PutInOrder
  <2>3. ASSUME NEW i \in Todo(v), \A j \in Todo(v) : i <= j,
               IF phase = "linux"
               THEN /\ lane' = [lane EXCEPT ![v] = [pc |-> "cmd", step |-> StepsOf(phase, v)[i], tries |-> 1]]
                    /\ UNCHANGED <<lost, chain>>
               ELSE Put(v, [pc |-> "cmd", step |-> StepsOf(phase, v)[i], tries |-> 1], "running", NoStep, "cmd")
        PROVE  InOrder'
    <3> DEFINE s == StepsOf(phase, v)[i]
               l == [pc |-> "cmd", step |-> s, tries |-> 1]
    <3>1. Ahead(v, s) \subseteq records[v].done
      BY <1>0, <2>1, <2>3, ProceedsInOrder
    <3>2. s \in Steps
      <4>1. CASE phase = "linux"
        BY <4>1 DEF Todo, StepsOf, Steps
      <4>2. CASE phase = "windows"
        BY <4>2 DEF Todo, StepsOf, Steps, Elements
      <4>3. CASE phase = "blocks"
        BY <4>3 DEF Todo, StepsOf, Steps, Elements
      <4>4. CASE phase \notin {"linux", "windows", "blocks"}
        BY <4>4 DEF Todo, StepsOf, Steps
      <4> QED BY <4>1, <4>2, <4>3, <4>4
    <3>3. l \in Lane /\ l.pc = "cmd" /\ l.step = s
      BY <3>2 DEF Lane
    <3>4. \/ lane' = [lane EXCEPT ![v] = l] /\ UNCHANGED chain
          \/ Put(v, l, "running", NoStep, "cmd")
      BY <2>3
    <3> HIDE DEF l, s
    <3>5. CASE Put(v, l, "running", NoStep, "cmd")
      BY <1>0, <2>1, <3>1, <3>3, <3>5, PutInOrder
    <3>6. CASE lane' = [lane EXCEPT ![v] = l] /\ UNCHANGED chain
      BY <1>a, <2>1, <3>1, <3>3, <3>6
    <3> QED BY <3>4, <3>5, <3>6
  <2> QED BY <1>3, <2>2, <2>3 DEF Proceed
<1>4. ASSUME NEW v \in VMs, Succeeds(v) PROVE InOrder'
  <2>1. /\ lane[v].pc = "cmd" /\ UNCHANGED <<broken, records>>
        /\ \/ Put(v, lane[v], Finished(v), lane[v].step, "idle")
           \/ Put(v, lane[v], "same", lane[v].step, "go")
           \/ lane' = [lane EXCEPT ![v].pc = "clean"] /\ UNCHANGED chain
    BY <1>4 DEF Succeeds
  <2>2. Finished(v) \in Status
    BY <1>0 DEF Finished
  <2>3. CASE lane' = [lane EXCEPT ![v].pc = "clean"] /\ UNCHANGED chain
    <3> DEFINE l == [lane[v] EXCEPT !.pc = "clean"]
    <3>1. lane' = [lane EXCEPT ![v] = l] /\ l.step = lane[v].step
      BY <1>0, <2>3 DEF Lane
    <3>2. Ahead(v, lane[v].step) \subseteq records[v].done
      BY <2>1 DEF InOrder
    <3> HIDE DEF l
    <3> QED BY <1>a, <2>1, <2>3, <3>1, <3>2
  <2> QED BY <1>0, <2>1, <2>2, <2>3, PutInOrder
<1>c. ASSUME NEW v \in VMs, Cleaned(v) PROVE InOrder'
  <2>1. /\ lane[v].pc = "clean" /\ UNCHANGED <<broken, records>>
        /\ Put(v, lane[v], "same", lane[v].step, "go")
    BY <1>c DEF Cleaned
  <2> QED BY <1>0, <2>1, PutInOrder
<1>5. ASSUME NEW v \in VMs, Fails(v) PROVE InOrder'
  <2>1. /\ lane[v].pc = "cmd" /\ UNCHANGED <<broken, records>>
        /\ \/ lane[v].tries < MaxAttempts /\ Put(v, lane[v], "retrying", NoStep, "sleep")
           \/ Put(v, Idle, "failed", NoStep, "idle")
    BY <1>5 DEF Fails, Again
  <2>2. Ahead(v, lane[v].step) \subseteq records[v].done
    BY <2>1 DEF InOrder
  <2> QED BY <1>0, <2>1, <2>2, PutInOrder
<1>6. ASSUME NEW v \in VMs, Probe(v) PROVE InOrder'
  <2> DEFINE l == [lane[v] EXCEPT !.tries = @ + 1]
  <2>1. /\ lane[v].pc = "sleep" /\ UNCHANGED <<broken, records>>
        /\ \/ Put(v, l, "running", NoStep, "cmd")
           \/ Put(v, Idle, "failed", NoStep, "idle")
           \/ l.tries < MaxAttempts /\ Put(v, l, "retrying", NoStep, "sleep")
    BY <1>6 DEF Probe
  <2>2. l \in Lane /\ l.step = lane[v].step
    BY <1>0, <2>1 DEF Lane, Typed, Waits
  <2>3. Ahead(v, l.step) \subseteq records[v].done
    BY <2>1, <2>2 DEF InOrder
  <2> HIDE DEF l
  <2> QED BY <1>0, <2>1, <2>2, <2>3, PutInOrder
<1>7. ASSUME NEW v \in VMs, Stopped(v) PROVE InOrder'
  <2>1. /\ lane[v].pc \in {"cmd", "sleep", "throw"} /\ UNCHANGED <<broken, records>>
        /\ \/ Put(v, lane[v], "same", NoStep, "throw")
           \/ lane' = [lane EXCEPT ![v] = Idle] /\ UNCHANGED chain
    BY <1>7 DEF Stopped, Lose
  <2>2. CASE Put(v, lane[v], "same", NoStep, "throw")
    BY <1>0, <2>1, <2>2, PutInOrder
  <2> QED BY <1>0, <2>1, <2>2, <1>a
<1>8. ASSUME NEW v \in VMs, SyntaxFails(v) PROVE InOrder'
  <2>1. \A w \in VMs : records'[w].done = records[w].done
    BY <1>0, <1>8 DEF SyntaxFails, Typed, TypeOK, Record
  <2> QED BY <1>8, <1>b, <2>1 DEF SyntaxFails, Entries
<1>9. CASE WriteFails \/ Crash \/ Start
  <2>1. /\ Entries' = {} /\ (\A v \in VMs : lane'[v] = lane[v] \/ lane'[v].pc = "idle")
        /\ (\A v \in VMs : lane'[v].pc = "idle") \/ UNCHANGED records
    BY <1>0, <1>9, Cleared
  <2> QED BY <1>b, <2>1
<1>10. CASE Aside
  BY <1>0, <1>10, <1>b, AsideKeeps
<1> QED BY <1>1, <1>2, <1>3, <1>4, <1>c, <1>5, <1>6, <1>7, <1>8, <1>9, <1>10
        DEF Next, LaneNext, RunNext, FaultNext, Aside

\* A step is done by the lane whose command it is, or by a command an earlier
\* run left behind, as a run that starts leaves those of the one before.
LEMMA NewEffects ==
  ASSUME Typed, [Next]_vars
  PROVE  /\ \A v \in VMs : \A u \in effects'[v] :
              \/ u \in effects[v] \/ (lane[v].pc = "cmd" /\ u = lane[v].step)
              \/ \E r \in left : \E x \in r.lanes : x.vm = v /\ x.step = u /\ u # NoStep
         /\ \A r \in left' : \A x \in r.lanes :
              \/ x.step = NoStep
              \/ \E y \in left : x \in y.lanes
              \/ \E v \in VMs : lane[v].pc \in {"cmd", "clean"} /\ x.vm = v /\ x.step = lane[v].step
<1> USE DEF Typed, TypeOK
<1>1. ASSUME NEW w \in VMs, Succeeds(w) \/ Fails(w) \/ Stopped(w)
      PROVE  /\ \A v \in VMs : \A u \in effects'[v] : u \in effects[v] \/ (lane[v].pc = "cmd" /\ u = lane[v].step)
             /\ left' = left
  BY <1>1 DEF Succeeds, Fails, Stopped
<1>2. CASE LeftoverNext
  <2>0. PICK r \in left : \E x \in r.lanes : LateStep(r, x) /\ LateEffects(x)
    BY <1>2, LateOne DEF Typed
  <2>1. PICK x \in r.lanes : LateStep(r, x) /\ LateEffects(x)
    BY <2>0
  <2>2. \A v \in VMs : \A u \in effects'[v] \ effects[v] : v = x.vm /\ u = x.step /\ u # NoStep
    BY <2>1 DEF LateEffects
  <2>3. PICK lanes, recs : LateLanes(r, x, lanes) /\ LateRun(r, lanes, recs)
    BY <2>1, Zenon DEF LateStep
  <2>4. /\ \A y \in left' : y \in left \/ y.lanes = lanes
        /\ \A y \in lanes : y \in r.lanes \/ y.step = NoStep
    BY <2>3 DEF LateLanes, LateRun
  <2> QED BY <2>2, <2>4
<1>3. CASE Start
  <2>1. left' \subseteq left \cup {Leftover} /\ effects' = effects
    BY <1>3 DEF Start
  <2>2. Leftover.lanes = {[vm |-> v, step |-> lane[v].step, pc |-> lane[v].pc] : v \in Working}
    BY DEF Leftover
  <2>3. ASSUME NEW x \in Leftover.lanes
        PROVE  \E v \in VMs : lane[v].pc \in {"cmd", "clean"} /\ x.vm = v /\ x.step = lane[v].step
    BY <1>3, <2>2, <2>3 DEF Start, Quiet, Working
  <2> QED BY <2>1, <2>3
<1>4. CASE Crash
  BY <1>4 DEF Crash
<1>5. CASE UNCHANGED <<effects, left>>
  BY <1>5
<1> QED BY <1>1, <1>2, <1>3, <1>4, <1>5
        DEF Next, LaneNext, RunNext, FaultNext, vars, Written, Take, Proceed, Cleaned, Probe,
        NextPhase, Complete, JobFails, Resume, WriteFails, Abort, SyntaxFails

LEMMA UnsavedStep ==
  ASSUME IInv, InOrder, Unsaved, [Next]_vars
  PROVE  Unsaved'
<1>0. SUFFICES ASSUME ~ overwritten' PROVE Unsaved'
  BY DEF Unsaved
<1>a. ~ overwritten
  BY <1>0, Overwritten DEF IInv
<1>1. \A v \in VMs : saved[v].done \subseteq saved'[v].done
  BY <1>0, CheckpointKept
<1>2. ASSUME NEW v \in VMs, lane[v].pc \in {"cmd", "clean"}
      PROVE  lane[v].step \in Plan(v) /\ Ahead(v, lane[v].step) \subseteq saved'[v].done
  <2>1. v \in Working
    BY <1>2 DEF Working
  <2>2. saved[v] = records[v]
    BY <1>2, <1>a, <2>1 DEF IInv, AllSynced, Synced
  <2>3. lane[v].step \in Due(phase, v) /\ phase \in Phases
    BY <1>2, <2>1 DEF IInv, Duty, OnDuty, InHand, Typed, TypeOK
  <2>4. lane[v].step \in Plan(v)
    BY <2>3, Dues
  <2> QED BY <1>1, <1>2, <2>2, <2>4 DEF InOrder
<1>3. ASSUME NEW r \in left, NEW x \in r.lanes, x.step # NoStep
      PROVE  x.vm \in VMs /\ x.step \in Plan(x.vm) /\ Ahead(x.vm, x.step) \subseteq saved'[x.vm].done
  <2>1. x.vm \in VMs
    BY DEF IInv, Typed, TypeOK, OldRun, OldLane
  <2> QED BY <1>1, <1>3, <1>a, <2>1 DEF Unsaved, FirstMissing
<1>4. ASSUME NEW v \in VMs, NEW u \in effects'[v] \ saved'[v].done
      PROVE  u \in Plan(v) /\ Ahead(v, u) \subseteq saved'[v].done
  <2>1. \/ u \in effects[v] \/ (lane[v].pc = "cmd" /\ u = lane[v].step)
        \/ \E r \in left : \E x \in r.lanes : x.vm = v /\ x.step = u /\ u # NoStep
    BY NewEffects DEF IInv
  <2>2. CASE u \in effects[v]
    <3>1. u \notin saved[v].done
      BY <1>1, <1>4
    <3> QED BY <1>1, <1>a, <2>2, <3>1 DEF Unsaved, FirstMissing
  <2> QED BY <1>2, <1>3, <2>1, <2>2
<1>5. ASSUME NEW r \in left', NEW x \in r.lanes, x.step # NoStep
      PROVE  x.step \in Plan(x.vm) /\ Ahead(x.vm, x.step) \subseteq saved'[x.vm].done
  <2>1. \/ \E y \in left : x \in y.lanes
        \/ \E v \in VMs : lane[v].pc \in {"cmd", "clean"} /\ x.vm = v /\ x.step = lane[v].step
    BY <1>5, NewEffects DEF IInv
  <2> QED BY <1>2, <1>3, <1>5, <2>1
<1> QED BY <1>4, <1>5 DEF Unsaved, FirstMissing, Ahead

\* A crash, an abort or a failed write costs a VM the checkpoint of at most
\* one step, the one that was in hand, however often the job is resumed, unless
\* a lane of an aborted run writes over them: of two steps done without a
\* checkpoint one would be ahead of the other.
THEOREM OneStepUnsaved == Spec => []AtMostOneStepUnsaved
<1>1. Init => InOrder /\ Unsaved
  <2>1. ASSUME Init PROVE /\ \A v \in VMs : lane[v].pc = "idle" /\ effects[v] = {}
                          /\ Entries = {} /\ left = {}
    BY <2>1 DEF Init, Idle, Entries
  <2> QED BY <2>1 DEF InOrder, Unsaved
<1>2. IInv /\ InOrder /\ Unsaved /\ [Next]_vars => InOrder' /\ Unsaved'
  BY InOrderStep, UnsavedStep
<1>3. ASSUME IInv, Unsaved PROVE AtMostOneStepUnsaved
  <2> SUFFICES ASSUME ~ overwritten, NEW v \in VMs PROVE Cardinality(effects[v] \ saved[v].done) <= 1
    BY DEF AtMostOneStepUnsaved
  <2> DEFINE S == effects[v] \ saved[v].done
  <2>1. ASSUME NEW u \in S, NEW w \in S, u # w PROVE FALSE
    <3>1. /\ u \in Plan(v) /\ Ahead(v, u) \subseteq saved[v].done
          /\ w \in Plan(v) /\ Ahead(v, w) \subseteq saved[v].done
      BY <1>3 DEF Unsaved, FirstMissing
    <3> QED BY <2>1, <3>1, OneAhead
  <2>2. CASE S = {}
    BY <2>2, FS_EmptySet
  <2>3. CASE S # {}
    <3>1. PICK u \in S : S = {u}
      BY <2>1, <2>3
    <3> QED BY <3>1, FS_Singleton
  <2> QED BY <2>2, <2>3
<1> QED BY <1>1, <1>2, <1>3, Invariance, PTL DEF Spec

\* All that a resume of the job relies on, whatever failed before it: every
\* checkpoint in Redis is true; and until a lane of an aborted run writes its old
\* results over them, they are kept, complete but for the step in hand, and what
\* they stand for is not done again.
THEOREM CheckpointsHold == Spec => Checkpoints
BY CheckpointsAreKept, NothingIsRedone, OneStepUnsaved, SuccessHolds, CheckpointsTrue DEF Checkpoints

===========================================================================
