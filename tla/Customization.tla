--------------------------- MODULE Customization ---------------------------
(***************************************************************************)
(* runCustomization: one BullMQ job customizes the guests of a lab through *)
(* barriers (syntax, Linux, Windows, domain controllers, members, custom   *)
(* blocks), a few VMs at a time, and keeps checkpoints of every VM in the  *)
(* job's Redis data.  A failed job is resumed by retrying the same job.    *)
(*                                                                         *)
(* A lane of mapConcurrent that rejects makes Promise.all, and with it the *)
(* job, fail at once; the other lanes go on, also beside the run that      *)
(* resumes the job.  lane[v] is the lane working on VM v, chain the        *)
(* store's promise chain of Redis writes.                                  *)
(*                                                                         *)
(* A definition X_Bug above X is X with a plausible bug, not used here.    *)
(***************************************************************************)
EXTENDS Naturals, Sequences, FiniteSets

CONSTANTS
  LinuxTargets,    \* sequences of VMs
  WindowsTargets,
  Role,            \* domainRole of a VM: "controller", "member" or "none"
  WindowsSteps,    \* the standard steps of a Windows VM, in order
  Blocks,          \* the enabled task blocks of a VM, in order
  Lanes,           \* concurrency of mapConcurrent
  MaxAttempts,     \* attempts of a retried step
  FaultKinds,      \* among "write", "crash", "abort", "command"
  MaxFaults        \* bound: how many of them happen

Elements(s) == {s[i] : i \in DOMAIN s}
VMs == Elements(LinuxTargets) \cup Elements(WindowsTargets)
NoStep == "none"
Steps == {"linux", "domain", NoStep} \cup Elements(WindowsSteps)
           \cup UNION {Elements(Blocks[v]) : v \in VMs}

IsSequence(s) == s \in Seq(Elements(s))

\* A block's checkpoint begins with "ansible:", a copied file's with "copy:".
ASSUME CustomizationAssumption ==
  /\ IsSequence(LinuxTargets) /\ IsSequence(WindowsTargets) /\ IsSequence(WindowsSteps)
  /\ \A v \in VMs : IsSequence(Blocks[v])
  /\ {"linux", "domain", NoStep} \cap Elements(WindowsSteps) = {}
  /\ \A v \in VMs : Elements(Blocks[v]) \cap
       ({"linux", "domain", NoStep} \cup Elements(WindowsSteps)) = {}
  /\ Elements(LinuxTargets) \cap Elements(WindowsTargets) = {}
  /\ Role \in [VMs -> {"controller", "member", "none"}]
  /\ \A v \in Elements(LinuxTargets) : Role[v] = "none"
  /\ Lanes \in Nat \ {0} /\ MaxAttempts \in Nat \ {0} /\ MaxFaults \in Nat

VARIABLES
  job,      \* the BullMQ job: "waiting", "active", "failed" or "completed"
  phase,    \* the mapConcurrent the run is in
  next,     \* index of the next item of that phase
  lost,     \* lanes of the phase that have rejected
  lane,     \* what the lane working on a VM does
  records,  \* the store's copy of the results
  chain,    \* updates waiting for their Redis write, the first one in flight
  broken,   \* an update has failed: the chain rejects every later one
  saved,    \* customizationResults of the job, in Redis
  aborted,  \* the run's AbortSignal has fired
  unready,  \* readinessFailedVmids of the job is not empty
  left,     \* earlier runs of which a lane still works on a VM
  effects,  \* history: the steps a guest has been through
  overwritten, \* history: such a lane has changed what Redis had
  faults

vars == <<job, phase, next, lost, lane, records, chain, broken, saved,
          aborted, unready, left, effects, overwritten, faults>>
run == <<phase, next, lost, records, broken>>

Phases == {"syntax", "linux", "windows", "controller", "member", "blocks", "end"}
Status == {"pending", "running", "retrying", "failed", "succeeded"}
Record == [status : Status, done : SUBSET Steps]
NoResults == [v \in VMs |-> [status |-> "pending", done |-> {}]]

\* "go": between two awaits; "write": awaits its update; "cmd": its playbook,
\* container or reconnection runs; "clean": a block has succeeded, its container
\* or Kubernetes Job is removed; "sleep": waits before a probe and a retry;
\* "throw": has reported that its block was stopped and rejects.
Lane == [pc : {"idle", "go", "write", "cmd", "clean", "sleep", "throw"},
         step : Steps, tries : 0 .. MaxAttempts]
Idle == [pc |-> "idle", step |-> NoStep, tries |-> 0]

\* to: where the lane goes on once the update has been written.
Update == [vm : VMs, status : Status \cup {"same"}, done : Steps,
           to : {"idle", "go", "cmd", "sleep", "throw"}]

\* A run that is over, its lanes that still work and its store.  They can write
\* it if the run was aborted among its blocks and no write had failed.  "at"
\* tells such runs apart: each was ended by a fault of its own.
OldLane == [vm : VMs, step : Steps, pc : {"cmd", "clean", "go"}]
OldRun == [at : Nat, records : [VMs -> Record], writes : BOOLEAN, lanes : SUBSET OldLane]

Working == {v \in VMs : lane[v].pc # "idle"}
Commands == {v \in VMs : lane[v].pc = "cmd"}

TypeOK ==
  /\ job \in {"waiting", "active", "failed", "completed"}
  /\ phase \in Phases /\ next \in Nat \ {0} /\ lost \in Nat
  /\ lane \in [VMs -> Lane]
  /\ records \in [VMs -> Record] /\ saved \in [VMs -> Record]
  /\ chain \in Seq(Update)
  /\ broken \in BOOLEAN /\ aborted \in BOOLEAN /\ unready \in BOOLEAN
  /\ left \subseteq OldRun
  /\ effects \in [VMs -> SUBSET Steps]
  /\ overwritten \in BOOLEAN /\ faults \in Nat

---------------------------------------------------------------------------
(* The plan of a run *)

\* The domain roles are taken from the same list, each passing over the others.
Items(p) ==
  CASE p = "linux"  -> LinuxTargets
    [] p = "blocks" -> LinuxTargets \o WindowsTargets
    [] p \in {"windows", "controller", "member"} -> WindowsTargets
    [] OTHER        -> <<>>

StepsOf(p, v) ==
  CASE p = "linux"   -> <<"linux">>
    [] p = "windows" -> WindowsSteps
    [] p = "blocks"  -> Blocks[v]
    [] OTHER         -> <<"domain">>

Skipped_RolesTogether(p, v) ==
  CASE p \in {"linux", "windows"} -> records[v].status = "succeeded"
    [] p = "blocks"               -> Blocks[v] = <<>>
    [] OTHER -> Role[v] = "none" \/ records[v].status \in {"succeeded", "failed"}

Skipped(p, v) ==
  CASE p \in {"linux", "windows"} -> records[v].status = "succeeded"
    [] p = "blocks"               -> Blocks[v] = <<>>
    [] OTHER -> Role[v] # p \/ records[v].status \in {"succeeded", "failed"}

Todo_Again(v) == {i \in DOMAIN StepsOf(phase, v) :
                    StepsOf(phase, v)[i] \notin records[v].done \ {"reboot"}}

\* The steps of the phase without a checkpoint, by their places in its list
Todo(v) == {i \in DOMAIN StepsOf(phase, v) : StepsOf(phase, v)[i] \notin records[v].done}

Finished_BeforeDomain(v) == IF phase # "blocks" /\ Blocks[v] # <<>> THEN "pending" ELSE "succeeded"

\* finishedStatus; a VM with a domain role is pending until it has joined
Finished(v) ==
  IF phase # "blocks" /\ (Blocks[v] # <<>> \/ (phase = "windows" /\ Role[v] # "none"))
  THEN "pending" ELSE "succeeded"

\* step() retries; reboot, reconnect, domain, linux and the blocks run once.
Retried(s) == s \in Elements(WindowsSteps) \ {"reboot", "reconnect"}

Standard(v) ==
  IF v \in Elements(LinuxTargets) THEN {"linux"}
  ELSE Elements(WindowsSteps) \cup (IF Role[v] = "none" THEN {} ELSE {"domain"})

Preparation_IgnoresFailed == ~ unready

\* Global barrier before the custom blocks
Preparation == ~ unready /\ \A v \in VMs : records[v].status # "failed"

---------------------------------------------------------------------------
(* The store *)

Patch(e) ==
  [records EXCEPT ![e.vm].status = IF e.status = "same" THEN @ ELSE e.status,
                  ![e.vm].done   = @ \cup ({e.done} \ {NoStep})]

Saved_StatusOnly(e) ==
  [saved EXCEPT ![e.vm].status = IF e.status = "same" THEN @ ELSE e.status]

Saved(e) == Patch(e)

Lose(v) == /\ lane' = [lane EXCEPT ![v] = Idle]
           /\ lost' = lost + 1

\* await store.update: on a broken chain it rejects, and so does the update
\* of fail() that follows, which ends the lane.
Put(v, l, status, done, to) ==
  \/ /\ ~ broken
     /\ lane' = [lane EXCEPT ![v] = [l EXCEPT !.pc = "write"]]
     /\ chain' = Append(chain, [vm |-> v, status |-> status, done |-> done, to |-> to])
     /\ UNCHANGED lost
  \/ broken /\ Lose(v) /\ UNCHANGED chain

Fault(kind) == /\ kind \in FaultKinds /\ faults < MaxFaults
               /\ faults' = faults + 1

Written ==
  LET e == Head(chain) IN
  /\ chain # <<>>
  /\ records' = Patch(e) /\ saved' = Saved(e)
  /\ chain' = Tail(chain)
  /\ lane' = [lane EXCEPT ![e.vm] = IF e.to = "idle" THEN Idle ELSE [@ EXCEPT !.pc = e.to]]
  /\ UNCHANGED <<job, phase, next, lost, broken, aborted, unready, left, effects, overwritten, faults>>

WriteFails_Hangs ==
  /\ chain # <<>>
  /\ Fault("write")
  /\ chain' = <<>> /\ broken' = TRUE
  /\ UNCHANGED <<job, phase, next, lost, lane, saved, records, aborted, unready, left, effects, overwritten>>

\* updateData or updateProgress fails, before or after Redis has the data.
WriteFails ==
  LET waiting == {v \in VMs : lane[v].pc = "write"} IN
  /\ chain # <<>>
  /\ Fault("write")
  /\ saved' \in {saved, Saved(Head(chain))}
  /\ chain' = <<>> /\ broken' = TRUE
  /\ lane' = [v \in VMs |-> IF v \in waiting THEN Idle ELSE lane[v]]
  /\ lost' = lost + Cardinality(waiting)
  /\ UNCHANGED <<job, phase, next, records, aborted, unready, left, effects, overwritten>>

---------------------------------------------------------------------------
(* The lanes *)

\* while (next < items.length) action(items[next++])
Take ==
  LET v == Items(phase)[next] IN
  /\ next <= Len(Items(phase))
  /\ Cardinality(Working) + lost < Lanes
  /\ v \notin Working
  /\ next' = next + 1
  /\ \/ Skipped(phase, v) /\ UNCHANGED <<lane, lost, chain>>
     \/ /\ ~ Skipped(phase, v) /\ phase \in {"linux", "windows"}
        /\ Put(v, Idle, "running", NoStep, "go")
     \/ /\ ~ Skipped(phase, v) /\ phase \notin {"linux", "windows"}
        /\ lane' = [lane EXCEPT ![v].pc = "go"]
        /\ UNCHANGED <<lost, chain>>
  /\ UNCHANGED <<job, phase, records, broken, saved, aborted, unready, left, effects, overwritten, faults>>

\* The next step without a checkpoint, or the end of the VM's part.
Proceed(v) ==
  /\ lane[v].pc = "go"
  /\ \/ Todo(v) = {} /\ Put(v, Idle, Finished(v), NoStep, "idle")
     \/ \E i \in Todo(v) :
          LET l == [pc |-> "cmd", step |-> StepsOf(phase, v)[i], tries |-> 1] IN
          /\ \A j \in Todo(v) : i <= j
          /\ IF phase = "linux"
             THEN lane' = [lane EXCEPT ![v] = l] /\ UNCHANGED <<lost, chain>>
             ELSE Put(v, l, "running", NoStep, "cmd")
  /\ UNCHANGED <<job, phase, next, records, broken, saved, aborted, unready, left, effects, overwritten, faults>>

\* The command succeeds: its effect is on the guest, its checkpoint is not yet.
\* runTaskBlock returns when it has cleaned up after the block.
Succeeds(v) ==
  LET s == lane[v].step IN
  /\ lane[v].pc = "cmd" /\ ~ aborted
  /\ effects' = [effects EXCEPT ![v] = @ \cup {s}]
  /\ \/ phase = "linux" /\ Put(v, lane[v], Finished(v), s, "idle")
     \/ phase \notin {"linux", "blocks"} /\ Put(v, lane[v], "same", s, "go")
     \/ /\ phase = "blocks" /\ lane' = [lane EXCEPT ![v].pc = "clean"]
        /\ UNCHANGED <<lost, chain>>
  /\ UNCHANGED <<job, phase, next, records, broken, saved, aborted, unready, left, overwritten, faults>>

\* The clean-up is over, whether the run has been aborted meanwhile or not.
Cleaned(v) ==
  /\ lane[v].pc = "clean"
  /\ Put(v, lane[v], "same", lane[v].step, "go")
  /\ UNCHANGED <<job, phase, next, records, broken, saved, aborted, unready, left, effects, overwritten, faults>>

Again_Unlimited(v) == Retried(lane[v].step)

Again(v) == Retried(lane[v].step) /\ lane[v].tries < MaxAttempts

\* The command fails, perhaps after its work is done; a transient failure of a
\* retried step is reported and slept on, any other one fails the VM.
Fails(v) ==
  /\ lane[v].pc = "cmd" /\ ~ aborted
  /\ Fault("command")
  /\ effects' \in {effects, [effects EXCEPT ![v] = @ \cup {lane[v].step}]}
  /\ \/ Again(v) /\ Put(v, lane[v], "retrying", NoStep, "sleep")
     \/ Put(v, Idle, "failed", NoStep, "idle")
  /\ UNCHANGED <<job, phase, next, records, broken, saved, aborted, unready, left, overwritten>>

\* The WinRM probe before a retry answers, or fails like the command.
Probe(v) ==
  LET l == [lane[v] EXCEPT !.tries = @ + 1] IN
  /\ lane[v].pc = "sleep" /\ ~ aborted
  /\ \/ Put(v, l, "running", NoStep, "cmd") /\ UNCHANGED faults
     \/ Fault("command") /\ Put(v, Idle, "failed", NoStep, "idle")
     \/ /\ Fault("command") /\ l.tries < MaxAttempts
        /\ Put(v, l, "retrying", NoStep, "sleep")
  /\ UNCHANGED <<job, phase, next, records, broken, saved, aborted, unready, left, effects, overwritten>>

\* After an abort the command is killed, perhaps with its work done.  A block
\* that was stopped is cleaned up after and reported, without a look at the
\* signal; then fail() throws and the lane rejects.
Stopped(v) ==
  /\ aborted
  /\ lane[v].pc \in {"cmd", "sleep", "throw"}
  /\ effects' \in {effects} \cup (IF lane[v].pc = "cmd"
                                  THEN {[effects EXCEPT ![v] = @ \cup {lane[v].step}]} ELSE {})
  /\ IF lane[v].pc = "cmd" /\ phase = "blocks"
     THEN Put(v, lane[v], "same", NoStep, "throw")
     ELSE Lose(v) /\ UNCHANGED chain
  /\ UNCHANGED <<job, phase, next, records, broken, saved, aborted, unready, left, overwritten, faults>>

---------------------------------------------------------------------------
(* The run *)

First_Fresh == NoResults

\* createCustomizationStore: results of earlier attempts are kept
First == saved

\* The lanes the last run has left: nothing of them is queued.
Quiet == chain = <<>> /\ \A v \in VMs : lane[v].pc \in {"idle", "cmd", "clean"}

Leftover ==
  LET writes == phase = "blocks" /\ aborted /\ ~ broken IN
  [at |-> faults, writes |-> writes, records |-> IF writes THEN records ELSE NoResults,
   lanes |-> {[vm |-> v, step |-> lane[v].step, pc |-> lane[v].pc] : v \in Working}]

\* A write of an old lane that is on its way just then is one of a lane that
\* ends a little later, so a run may begin with none.
Start ==
  /\ job = "waiting" /\ Quiet
  /\ job' = "active" /\ phase' = "syntax" /\ next' = 1 /\ lost' = 0
  /\ records' = First /\ chain' = <<>> /\ broken' = FALSE /\ aborted' = FALSE
  /\ lane' = [v \in VMs |-> Idle]
  /\ left' = left \cup (IF Working = {} THEN {} ELSE {Leftover})
  /\ UNCHANGED <<saved, unready, effects, overwritten, faults>>

\* A block that does not pass the syntax check, or whose check an abort stops,
\* fails the run before any VM is changed.
SyntaxFails(v) ==
  /\ job = "active" /\ phase = "syntax" /\ lost = 0
  /\ Blocks[v] # <<>>
  /\ Fault("command") \/ (aborted /\ UNCHANGED faults)
  /\ records' = [records EXCEPT ![v].status = "failed"]
  /\ saved' = records'
  /\ lost' = 1
  /\ UNCHANGED <<job, phase, next, lane, chain, broken, aborted, unready, left, effects, overwritten>>

After(p) ==
  CASE p = "syntax"     -> "linux"
    [] p = "linux"      -> "windows"
    [] p = "windows"    -> "controller"
    [] p = "controller" -> "member"
    [] p = "member"     -> IF Preparation THEN "blocks" ELSE "end"
    [] OTHER            -> "end"

\* Promise.all resolves when every lane has.
NextPhase ==
  /\ job = "active" /\ phase # "end" /\ lost = 0
  /\ next > Len(Items(phase)) /\ Working = {}
  /\ phase' = After(phase) /\ next' = 1
  /\ UNCHANGED <<job, lost, lane, records, chain, broken, saved, aborted, unready, left, effects, overwritten, faults>>

Complete ==
  /\ job = "active" /\ phase = "end"
  /\ ~ aborted /\ ~ unready /\ \A v \in VMs : records[v].status = "succeeded"
  /\ job' = "completed"
  /\ UNCHANGED <<run, lane, chain, saved, aborted, unready, left, effects, overwritten, faults>>

\* The job's catch and finally: the lab is failed, its lock released.  The
\* lanes that have not rejected are not waited for.
JobFails ==
  /\ job = "active"
  /\ \/ lost > 0
     \/ /\ phase = "end"
        /\ aborted \/ unready \/ \E v \in VMs : records[v].status # "succeeded"
  /\ job' = "failed"
  /\ UNCHANGED <<run, lane, chain, saved, aborted, unready, left, effects, overwritten, faults>>

\* Resume incomplete customizations retries the job.
Resume ==
  /\ job = "failed" /\ Quiet
  /\ job' = "waiting"
  /\ UNCHANGED <<run, lane, chain, saved, aborted, unready, left, effects, overwritten, faults>>

---------------------------------------------------------------------------
(* The lanes of earlier runs *)

LanesNow(r, lanes, recs) ==
  left' = (left \ {r}) \cup
    (IF lanes = {} THEN {} ELSE {[r EXCEPT !.lanes = lanes, !.records = recs]})

\* updateData writes the old run's whole store over what Redis has.
Overwrite(recs) ==
  /\ saved' = recs
  /\ overwritten' = (overwritten \/ recs # saved)

\* The lane ends: on a broken chain, after a standard playbook or with no VM
\* left to take without a word, otherwise with the report of its block.
LeftoverEnds(r, x) ==
  /\ x.pc = "clean" => ~ r.writes
  /\ x.pc = "go" => r.records[x.vm].status = "succeeded"
  /\ LanesNow(r, r.lanes \ {x}, r.records)
  /\ effects' \in {effects, [effects EXCEPT ![x.vm] = @ \cup ({x.step} \ {NoStep})]}
  /\ IF r.writes /\ x.pc = "cmd" THEN Overwrite(r.records) ELSE UNCHANGED <<saved, overwritten>>
  /\ UNCHANGED <<job, run, lane, chain, aborted, unready, faults>>

\* Its block had succeeded before the abort: the checkpoint is written.
LeftoverCleaned(r, x) ==
  LET recs == [r.records EXCEPT ![x.vm].done = @ \cup {x.step}] IN
  /\ r.writes /\ x.pc = "clean"
  /\ LanesNow(r, (r.lanes \ {x}) \cup {[vm |-> x.vm, step |-> NoStep, pc |-> "go"]}, recs)
  /\ Overwrite(recs)
  /\ UNCHANGED <<job, run, lane, chain, aborted, unready, effects, faults>>

\* The lane goes on to the rest of its VM or to one that no lane has taken: it
\* finishes it, or begins a block, which is refused as the run was aborted.
LeftoverTakes(r, x, v) ==
  LET all  == Elements(Blocks[v]) \subseteq r.records[v].done
      recs == [r.records EXCEPT ![v].status = IF all THEN "succeeded" ELSE "running"]
  IN
  /\ x.pc = "go" /\ Blocks[v] # <<>> /\ r.records[v].status # "failed"
  /\ v # x.vm => r.records[x.vm].status = "succeeded" /\ \A y \in r.lanes : y.vm # v
  /\ LanesNow(r, (r.lanes \ {x}) \cup
       {[vm |-> v, step |-> NoStep, pc |-> IF all THEN "go" ELSE "cmd"]}, recs)
  /\ Overwrite(recs)
  /\ UNCHANGED <<job, run, lane, chain, aborted, unready, effects, faults>>

LeftoverNext ==
  \E r \in left : \E x \in r.lanes :
    LeftoverEnds(r, x) \/ LeftoverCleaned(r, x) \/ \E v \in VMs : LeftoverTakes(r, x, v)

---------------------------------------------------------------------------
(* Faults of the run as a whole *)

\* The worker dies, with the commands it runs; the stalled job is failed and
\* not replayed (maxStalledCount 0).  The write in flight may have happened.
Crash ==
  /\ job = "active"
  /\ Fault("crash")
  /\ job' = "failed"
  /\ saved' \in {saved} \cup {Saved(Head(c)) : c \in {chain} \ {<<>>}}
  /\ lane' = [v \in VMs |-> Idle] /\ chain' = <<>>
  /\ lost' = Lanes
  /\ left' = {}
  /\ UNCHANGED <<phase, next, records, broken, aborted, unready, effects, overwritten>>

\* Cancel-all or a lost lab lock
Abort ==
  /\ job = "active" /\ ~ aborted
  /\ Fault("abort")
  /\ aborted' = TRUE
  /\ UNCHANGED <<job, run, lane, chain, saved, unready, left, effects, overwritten>>

---------------------------------------------------------------------------
Init ==
  /\ job = "waiting" /\ phase = "end" /\ next = 1 /\ lost = 0
  /\ lane = [v \in VMs |-> Idle]
  /\ records = NoResults
  /\ chain = <<>> /\ broken = FALSE /\ saved = records /\ aborted = FALSE
  /\ unready \in BOOLEAN
  /\ left = {} /\ effects = [v \in VMs |-> {}] /\ overwritten = FALSE /\ faults = 0

LaneNext ==
  \/ Written \/ Take
  \/ \E v \in VMs : Proceed(v) \/ Succeeds(v) \/ Cleaned(v) \/ Probe(v) \/ Stopped(v)
RunNext == Start \/ NextPhase \/ Complete \/ JobFails
FaultNext ==
  \/ WriteFails \/ Crash \/ Abort
  \/ \E v \in VMs : Fails(v) \/ SyntaxFails(v)

Next == LaneNext \/ RunNext \/ FaultNext \/ Resume \/ LeftoverNext

Spec == Init /\ [][Next]_vars

\* Blocks (30 minutes) and reconnections (the readiness deadline) are given up
\* after a time, the playbooks of the standard steps are not.
Bounded(v) == phase = "blocks" \/ lane[v].step = "reconnect"

LaneProgress ==
  \/ Written \/ Take
  \/ \E v \in VMs :
       \/ Proceed(v) \/ Cleaned(v) \/ Probe(v) \/ Stopped(v)
       \/ Bounded(v) /\ Succeeds(v)

\* Redis answers or fails, an abort kills what runs, clean-ups and probes have
\* a time limit, a waiting job is taken.  No standard playbook has to end, and
\* nobody is obliged to resume.
Fairness == WF_vars(LaneProgress) /\ WF_vars(RunNext)

FairSpec == Spec /\ Fairness

---------------------------------------------------------------------------
(* Properties *)

\* "Never inject a fault while another VM's standard setup failed": when a
\* custom block runs, every VM of the lab has been through all of its standard
\* steps, and no VM failed guest readiness, also in a resumed run.
TasksAfterSetup ==
  \A v \in Commands : phase = "blocks" =>
    /\ ~ unready
    /\ \A w \in VMs : Standard(w) \subseteq records[w].done \cap effects[w]

\* "Domain controllers must finish before any members attempt to join": while
\* a member joins, every controller's domain step is over, done or failed.
MembersAfterControllers ==
  \A v \in Commands : Role[v] = "member" /\ lane[v].step = "domain" =>
    \A w \in VMs : Role[w] = "controller" =>
      lane[w].pc = "idle" /\ ("domain" \in records[w].done \/ records[w].status = "failed")

\* The barriers of a run: custom tasks come after the preparation of every
\* guest, domain members after the controllers.
Barriers == TasksAfterSetup /\ MembersAfterControllers

\* A run that reports success has every step of every VM checkpointed in
\* Redis: a resume could not find more to do.
SuccessIsComplete ==
  job = "completed" /\ ~ overwritten =>
    \A v \in VMs : saved[v].done = Standard(v) \cup Elements(Blocks[v])

\* A crash, an abort or a failed write costs a VM the checkpoint of at most
\* the one step that was in hand: only that step is ever done again.
AtMostOneStepUnsaved ==
  ~ overwritten => \A v \in VMs : Cardinality(effects[v] \ saved[v].done) <= 1

\* What Redis has of a VM's steps, it keeps, whatever order VMs finish in.
CheckpointsKept ==
  [][~ overwritten' => \A v \in VMs : saved[v].done \subseteq saved'[v].done]_vars

\* A step whose checkpoint is in Redis is never run again, in no later run.
NeverRedone ==
  [][\A v \in VMs : ~ overwritten /\ v \in Commands' /\ lane[v].pc # "cmd"
       => lane'[v].step \notin saved[v].done]_vars

\* Redis has no checkpoint of a step a guest has not been through, also when a
\* lane of an aborted run has written its old results over the newer ones.
CheckpointsAreTrue == \A v \in VMs : saved[v].done \subseteq effects[v]

\* What a resume relies on.  Until a block of an aborted run is reported beside
\* the run that resumed the job, Redis keeps its checkpoints, lacks at most the
\* one of the step in hand, has all of them after a success, and what is
\* checkpointed is not done again.  Every checkpoint is true, then as before.
Checkpoints ==
  CheckpointsKept /\ NeverRedone /\ []AtMostOneStepUnsaved /\ []SuccessIsComplete
    /\ []CheckpointsAreTrue

\* Every run ends, unless a standard playbook hangs: no lane waits for good on
\* anything else, neither on a chain that is broken nor on another lane.
EveryRunEnds ==
  <>[](job = "active") => \E v \in VMs : <>[](lane[v].pc = "cmd" /\ ~ Bounded(v))

---------------------------------------------------------------------------
(* What the documentation says and the code does not keep *)

\* README.md:177 "Terraform and Ansible share a lock per lab, preventing
\* simultaneous operations on that lab": no command works on a guest of the
\* lab once its job has ended and released the lock.
LockCoversCommands == Commands # {} \/ left # {} => job = "active"

\* customizationRecovery.js:49 "Serialize Redis writes so concurrently finishing
\* VMs cannot overwrite checkpoints": writes are in order within one run's store
\* only; a block of an aborted run that is reported late overwrites those of the
\* run that resumed the job.
NeverOverwritten == ~ overwritten
===========================================================================
