# LabFactory: specifications, model checking and proofs

LabFactory deploys teaching labs ("deployments") on Proxmox. An Express
dashboard takes the requests and owns a row per lab in PostgreSQL
(`lab_deployments`); two BullMQ queues on Redis carry jobs to a Terraform worker
and an Ansible worker; PostgreSQL advisory locks keep the jobs of a lab apart.
Nothing in the system is one transaction: a request checks, claims a row and
queues a job in three steps, a job writes the row several times while requests,
refreshes, deletes, cancellations and restarts go on beside it. That is what
these modules specify.

Paths below are relative to the repository root. `LabLifecycle.tla` is the core;
the other modules are listed under *Modules*.

## Inventory

| Component | State | Operations | Hard part | What makes it correct |
|---|---|---|---|---|
| Lifecycle requests (`dashboard/server.js`) | row status, action, job, run | deploy, start, stop, destroy, workstation redeploy, resume, refresh-state, delete, clear-history | check, claim and enqueue are three steps; reads go stale | one claim wins, a row changes run only at rest, a busy row has work behind it |
| Cancel-all (`dashboard/server.js:3852`) | queue pause flags, control messages | pause, publish, drain 5 s, sweep, reset, resume | races every job and request | a cancelled run stays cancelled |
| Terraform processor (`workers/terraformWorker.js:1471`) | job, abort controller, lease | claim, apply with retries, destroy, power, delayed stop verification, hand-over to Ansible | outlives its row, its lease and its own BullMQ state | one operation per lab, one deploy in all, no stale write |
| Ansible processor (`workers/ansibleWorker.js:254`) | job, lease, checkpoints | claim, skip, customize | follow-up of a deploy under the same run | as above |
| Advisory locks (`lib/jobConcurrency.js`) | session locks | acquire all or none, delay and retry, probe, release | sessions die before anyone knows | exclusion while the session lives, nothing leaks |
| Start-up recovery (`lib/jobConcurrency.js:59`) | none of its own | read busy rows, lock, look the job up, write | looks at three stores one after the other | never fails live work |
| Readiness limiter (`lib/readinessConcurrency.js`) | slots, FIFO queue | call, abort, start, settle | aborts and settling in different microtasks | slots bounded, none lost, FIFO, no aborted probe starts |
| Customization (`lib/runCustomization.js`, `lib/customizationRecovery.js`) | checkpoints per VM in Redis | run steps, barriers, retries, resume | five VMs at a time, one shared record, lanes that outlive their run | a checkpoint is true and kept but for the late report of an aborted block, barriers hold across resumes |
| Kubernetes tasks (`lib/runKubernetesTasks.js`) | one Job and Secret per task | create, wait, read, delete | a create that times out may have happened | a success is an exit code 0; Job and Secret are deleted or expire |
| VM ids (`lib/vmidAvailability.js`, `dashboard/server.js:925`) | Proxmox, a Terraform state per lab | plan, check, apply, power, destroy, clean volumes | ids are computed, ranges overlap, the check is no reservation | an apply meets no VM, only own VMs are removed, a destroy leaves none |
| Blueprint files (`lib/blueprintFiles.js`) | files on disk, references in SQL | upload, save, duplicate, delete, collect | two stores, one lock | a referenced file exists, an orphan disappears, a deployed blueprint stays |
| Durations (`lib/deploymentDurations.js`) | start and end per run | start, finish, import | retries, lost writes, two recorders | only successes, once, and every one |
| Worker control (`workers/start*WorkerService.js`) | paused flag, heartbeat, queues' pause | pause, resume, cancel-active, cancel-all | handlers overlap | everything paused goes on, every job is reached |
| VM actions (`lib/vmSnapshots.js`, `dashboard/server.js:2600`, `dashboard/public/app.js:1580`) | Proxmox tasks, guest processes | check, start, poll; one VM or in bulk | the inventory goes stale, answers are lost | success is the end of the own task |
| Orphaned disks (`dashboard/server.js:679`) | a flag | list VMs, configs, volumes; delete | everything changes meanwhile | a VM's volume stays, the flag is freed unless a poll is never answered |
| Blueprint editor (`dashboard/public/app.js:2880`) | one editor state, many handlers | load, save, upload, task dialog | answers arrive late | edits are stored where they were made or dropped by choice |
| Executions (`src/`, `dist/application`) | rows, Redis locks with expiry | create, schedule, launch, cancel | lock expiry, cancellation | one apply per environment, a lock is its holder's |
| Templates, courses, teachers, settings, authentication, rendering | SQL rows, files, sessions | single statements, I/O | none over time | not modelled |

How they interact: the dashboard writes a row and calls `Queue.add`; a worker
takes the job, asks PostgreSQL for its locks and writes the row again, fenced by
the run id; the Terraform worker adds the customization or the next stop
verification itself; cancel-all speaks to both workers over Redis
publish/subscribe; recovery runs in every worker process when it starts.

## Modules

| Module | Models |
|---|---|
| `LabLifecycle` | the row of each lab, both queues, both processors, the locks, and every request, fault and recovery around them |
| `LabLifecycleProofs` | its type correctness, the three exclusion invariants and the hand-over property; what the row of a lab says about the work on it: removal, work shown, follow-ups, busy rows |
| `VmIds` | the VMs behind the labs: ids, Terraform states, plans, applies, power, volumes |
| `VmIdsProofs` | that labs whose ranges overlap spare each other, and what a lab at rest says of its VMs |
| `ReadinessLimiter` | the FIFO every readiness probe of a worker process goes through, and the retry loops of the guests that call it |
| `ProbeSlots` | what those loops rely on: a counting semaphore |
| `ReadinessLimiterProofs` | slots, order, aborts and the implementation of `ProbeSlots` |
| `Customization` | one customization job: lanes, barriers, checkpoints, resume |
| `CustomizationProofs` | its barriers, and what its checkpoints are worth to a resume |
| `KubernetesTask` | one block of Ansible tasks as a Kubernetes Job |
| `DeploymentDurations` | what the workers and the importer record of a run |
| `WorkerControl` | pause, resume, heartbeat and cancel-all of the workers |
| `WorkersProofs` | the safety of these three |
| `BlueprintFiles` | files on disk, their references, locks and the collector |
| `BlueprintFilesProofs` | that references hold and uploads spare deployed blueprints |
| `BlueprintEditor` | the editor of one browser tab and the blueprints stored for it |
| `VmActions` | snapshots, resets and update pauses, alone and in bulk |
| `OrphanedDisks` | the clean-up of Ceph volumes |
| `DashboardProofs` | the safety of these three |
| `Executions` | the executions API, scheduler, launcher and lock |
| `ExecutionsProofs` | who holds a lock, and what keeps the applies of an environment apart |

`MCLabLifecycle`, `MCReadinessLimiter`, `MCVmIds`, `MCBlueprintFiles` and
`MCExecutions` instantiate the module of their name for TLC. `MCWorkers` puts
`Customization`, `KubernetesTask`, `DeploymentDurations` and `WorkerControl` side
by side, `MCDashboard` the editor, the VM actions and the disk clean-up.

A step is what happens between two `await`s at which somebody else can get in.
What Terraform, Proxmox, Kubernetes, Ansible and the guests answer is free within
their contract; of a payload only what a property tells apart is kept.
A definition with a suffix (`OwnsRow_AnyRun`, `Conflicts_Bug`) is a seeded bug:
put in the place of its stem, it must make TLC refute the property that
`PROJECT.json` names under "mutants".

### LabLifecycle

| State | Code |
|---|---|
| `row[l]` (status, action, job, run) | a row of `lab_deployments`; `None` once it is deleted |
| `job[j]`, `state[j]` | the data of a BullMQ job and where it is; "pending" is waiting or delayed, "checked" and "claimed" are a request before `Queue.add` |
| `pc[j]`, `lease[j]`, `aborted` | the processor of a job, its lock session, its AbortController |
| `owner[k]` | the session that holds `lab:<id>` or `global:terraform-deploy` |
| `provisioned` | labs with VMs in Proxmox |
| `deleting`, `refresh`, `resume`, `recovery`, `cancel` | requests that have read and not yet written |
| `signals`, `stalls` | `cancel-active` messages and `stalled` events not yet handled |

| Actions | Code |
|---|---|
| `CheckRequest`, `ClaimRequest`, `EnqueueRequest`, `LoseRequest` | the lifecycle route and the workstation redeploy: checks, conditional UPDATE, `Queue.add`, death in between |
| `CheckDelete`/`DeleteRow`, `ReadRefresh`/`WriteRefresh`, `CheckResume`/`ClaimResume`/`RetryResume` | the three read-then-write requests |
| `StartCancel`, `HandleAbort`, `SweepQueue`, `ResetRows`, `EndCancel` | cancel-all and the worker's side of it |
| `ReadRecovery` ... `WriteRecovery` | `recoverDeploymentJobs`, one row |
| `TakeJob`, `LockGlobal`, `LockLab`, `FailLock` | taking a job and `tryJobLocks`, key by key, in its sorted order; a refused lock drops the others and delays the job |
| `ClaimWork` ... `FinishWork`, `RemoveRow` | the processors' work; every status write goes through `WriteRow`, which is fenced by the run and swallows a database error |
| `QueueNext`, `RecordNext` | follow-up jobs: first added, then recorded in the row |
| `RecordFailure`, `ReleaseLocks`, `SettleJob` | catch, finally, BullMQ's verdict |
| `KillProcessor`, `LoseSession`, `NoticeLoss`, `StallJob`, `HandleStall` | what goes wrong, and what notices it |

Abstractions. What Terraform, Proxmox, Ansible and the guests answer is chosen
freely; of their effects the model keeps whether a lab has VMs. A run id is the
id of the request's job (the code appends `Date.now()`; two requests of one
millisecond are ignored). The reads of a request are one step, because its
conditional claim checks them again. Customization checkpoints exist from the
claim on. BullMQ's two-stage handling of a stalled job (back to wait, failed when
next picked up, `maxStalledCount: 0`) is one step. A job whose worker is late
is not taken again before that worker is through with it. A paused queue, other
than by cancel-all, is a worker that takes nothing and is not modelled; nor are
two concurrent cancel-alls, two recoveries of one row, or the loss of a
recovery's own session.

### ReadinessLimiter and ProbeSlots

One Node process, one thread: a step is what runs until the next `await`, and a
timer, a command's end or an abort may come between any two steps. `LabLifecycle`
sees only the outcome of these loops.

| State | Code |
|---|---|
| `queue`, `active` | the two variables of `createReadinessLimiter` |
| `releasing` | calls whose operation has settled and whose `finally` callback has not run |
| `pc[g]` | where the loop of guest `g` is; "starting" has a slot and not yet its microtask |
| `aborted` | jobs whose AbortController has fired |
| `late` | guests whose deadline has passed |

| Actions | Code |
|---|---|
| `Call`, `Drain` | `limit(operation, signal)` and `drain` |
| `Begin` | the microtask that checks the signal again and starts the command |
| `EndProbe`, `Release` | the command's promise, then the `finally` that frees the slot and drains |
| `Abort` | every `abort` listener still registered, in one dispatch |
| `Check`, `Prepare`, `Catch`, `Wake`, `Conclude`, `Deadline` | `waitForLinuxSshAndCloudInit`, `waitForWindowsHostReadiness`, `waitForWindowsHostReconnect` |

What a probe answers is free, as are file errors and when a deadline passes
(`late` stands for `Date.now()`). A guest's loop may go on before the `finally`
callback of its last probe has run, as in the code, but it cannot sleep through it: `Wake` needs
a timer, and microtasks run first. `ProbeSlots` has no order and no abort check;
`ImplementsSlots` is the refinement, with `wanting` the queued guests and
`probed` those that hold a slot. A slot is returned there when the operation
settles, before the counter goes down: the implementation is the more cautious.

### VmIds

`LabLifecycle` knows whether a lab has VMs; this module knows which. A lab keeps
no list of them: each request computes the ids from the lab and from the number
of workplaces its classroom has at that moment.

| State | Code |
|---|---|
| `stations` | `workstation_count` of the classroom, edited without a look at its labs |
| `owner`, `power`, `disk` | Proxmox: who created the VM with an id, whether it runs, and the volumes named after the id |
| `tf[l]` | the VMs in the lab's Terraform workspace |
| `row[l]`, `req[l]`, `job[l]` | the lab's status, a request past its checks, the queued or running job |
| `halted[l]` | history: the ids that were looked at when the lab was shown as stopped; none, when the inventory failed |

| Actions | Code |
|---|---|
| `Ask`, `Claim`, `Refresh`, `EditClassroom`, `DeleteClassroom`, `DeleteRow` | the routes, with the status derived from the inventory |
| `Take`, `Plan`, `ApplyRemove`, `ApplyCreate`, `Retry`, `Applied` | deploy and redeploy: plan, `checkPlannedVmids`, apply with its retries |
| `Destroy`, `Destroyed`, `CheckAbsent`, `DeleteVolumes`, `Cleaned` | destroy and the clean-up of volumes left behind |
| `PowerVm`, `Started`, `Stopped`, `StoppedBlind`, `GiveUp` | start, and stop with its verification |
| `ShutDown`, `OtherCreates`, `OtherRemoves` | guests and people outside LabFactory |

A row is `removed` by its lab's destroy and `gone` when it was deleted otherwise,
which is history too. One VM per workplace, one request at a time per lab (their races are
`LabLifecycle`'s), "deployed" counts as "running", the repeated verifications of
a stop are one. Terraform and Proxmox are external: an apply removes and creates
what its plan says, one VM at a time, and may fail anywhere.

### Customization

| State | Code |
|---|---|
| `job`, `saved` | the BullMQ job and its `customizationResults` in Redis |
| `phase`, `next`, `lost`, `lane[v]` | the `mapConcurrent` the run is in, its next item, lanes that have rejected, and what the lane on a VM does |
| `records`, `chain`, `broken` | the store's copy, the promise chain of writes, and that it has rejected |
| `left` | earlier runs of which a lane still works: those lanes, the run's store, and whether it can still be written |
| `effects` | history: the steps a guest has been through |
| `overwritten` | history: a lane of an earlier run has changed what Redis had |

| Actions | Code |
|---|---|
| `Take`, `Proceed`, `Succeeds`, `Cleaned`, `Again`, `Fails`, `Probe`, `Stopped` | one step of a lane: record, run, clean up, retry, fail; a block that an abort stops is reported to the store before its lane rejects |
| `Written`, `WriteFails` | the head of the chain |
| `NextPhase`, `Complete`, `JobFails` | `Promise.all` of a phase, end of the run |
| `Start`, `SyntaxFails`, `Resume`, `Crash`, `Abort` | the job around it |
| `LeftoverEnds`, `LeftoverCleaned`, `LeftoverTakes` | the lanes of earlier runs: a block of an aborted run is reported when its container or Job is removed (`lib/runCustomization.js:125`), with the whole record of that run |

The lists of VMs, roles, steps and blocks are constants; a phase passes over a VM
of another role (`Skipped`), and a lane works through the steps of its phase that
have no checkpoint (`Todo`). Playbooks are outcomes. A resume may begin while lanes of the failed run still
work (`left`): nothing waits for them. If the run was aborted among its blocks and no
write had failed, they go on to write that run's store, whole, into the job's data;
`overwritten` remembers that such a write has changed what Redis had. That the
`finally` block also removes their staged files is not modelled.

### KubernetesTask

`pc`, `created` and `outcome` are a call of `runKubernetesTaskBlock`; `request`
the creations on their way to the API server, which may be carried out after the
call has given them up; `job`, `secret`, `pod` the objects of its name.
`JobAccepted`, `SecretAccepted`, `Refused`, `GiveUp` and `Unanswered` are the
requests, `Poll`, `ToCleanup`, `DeleteJob`, `DeleteSecret` the rest of the call,
`WorkerDies` its end at any point. `PodCreated`, `PodStarts`, `PodEnds`,
`JobEnds`, `DeadlinePasses`, `TTLPasses` and `Collect` are Kubernetes'
controllers, as the manifest asks for them (`backoffLimit`,
`activeDeadlineSeconds`, `ttlSecondsAfterFinished`, owner references).

### DeploymentDurations

`row`, `deploy[r]`, `custom[r]` are the lab's row and the two jobs of a run,
`dur[r]` the row of `blueprint_deployment_durations`, `import` what the importer
has read of each queue. `RecordStart`, `RecordDeploy`, `RecordCustom` are the
workers' records, each of which may fail and is then swallowed, or misses its row
because a newer action has taken it; `ReadQueue`, `Upsert`, `EndImport`,
`FailImport` the importer, `ForgetJobs` clear-history. One lab; a queue is read
in one step; targets without an address (`ansible-skipped`) are left out, as
such a run is never measured.

### WorkerControl

`worker[w]`, `key[w]`, `channel[w]` are a worker process, its status in Redis and
the messages on their way; `halted` the paused queues, `job` the jobs of both;
`cancel[c]` a cancel-all. `Hear` starts the handlers, `Pauses` ends a pause that
waited for active jobs, `Heartbeat`/`KeyExpires` the published status;
`ReadPaused` ... `ResumeAll` are the steps of the route, queue by queue; `Click`
is the administrator; `Crash`, `Stop`, `Exit`, `StartWorker`, `Subscribe` the
life of a process. BullMQ's pause and resume are external: `HearResume` assumes that
`worker.resume()` takes the pause away also while `worker.pause()` still waits for its
jobs. If the library does nothing then, the worker stays paused after a cancel-all, and
`CancelLeavesNothing` does not hold. A worker takes jobs between its
start and its subscription, as in the code. The dashboard does not die between
the pause and the `finally` block.

### BlueprintFiles

`exists`, `refs`, `deployed` are PostgreSQL, `disk` the directories, `advisory`
and `rowLock` the locks of a transaction, `req[p]` a request in progress whose
writes show at its commit. `BeginX`, `Lock`, `CheckUpload`, `Receive`, `Write`,
`CommitX` follow the routes; `LockClean`, `Collected`, `Clean` the collector,
which every request ends with and the hourly sweep runs for every directory;
`Crash` takes the process and its locks. The trigger that refuses changes to
deployed blueprints is part of the statements that fire it, so the window
between it and the commit is there. The VMs of a blueprint are merged.

### BlueprintEditor

`ed` is `state.currentBlueprint` with its fingerprint, `server` what the
dashboard stores, `save`, `calls`, `form`, `upload` the handlers that wait for an
answer. A blueprint's contents are the set of edits in it; `made`, `discarded`
and `late` remember where an edit was made and what the user chose. One tab;
deletion and duplication from the list, two tabs and creates whose answer is lost
are left out.

### VmActions

`vm` and `task` are Proxmox, `seen[b]` what a browser shows, `call` its open
requests, `bulk[b]` its bulk action; `busy`, `LabBegins`, `LabActs`, `LabEnds` are
the lab's own operation, which also starts, stops and removes the VMs. `CallNext`
is one step of a request from the question to the user over check, start and
polls to the answer, any of which may be lost; `BrowserNext` the buttons and the
lanes. The snapshot buttons of a VM are registered in the browser
(`snapshotOperations`), the other buttons are not; a browser has one open request of
each of the two per VM here.

### OrphanedDisks

`exists`, `config`, `running`, `pool` are Proxmox and Ceph, `task` the deletion
of a volume, `flag` and `run` the dashboard's. `ReadInventory`, `ReadConfig`,
`ReadNodes`, `ReadContent`, `Select`, `Delete`, `Poll`, `PollHangs`, `Finish` are the clean-up;
`CreateVm`, `AddVolume`, `StartVm`, `DestroyVm` what goes on beside it. `kept` and
`orphans` remember what was protected, or an orphan, all the time.

### Executions

`status`, `creating`, `cancelling` are the API and its rows, `waiting` and
`scheduled` the two queues, `sched` and `launch` the two consumers (concurrency
1), `lock` and `pod` Redis and Kubernetes. The scheduler and launcher exist only
as compiled modules; some of their imports no longer exist under `dist/`. They
are modelled as written. The lock's time limit may pass before its holder is
done. Neither of the two dies or throws between its status writes and what it
queues next: nothing in the code would find such an execution.

## Properties and runs

| Run | Module | Shows |
|---|---|---|
| `lab_requests` | `MCLabLifecycle` | `TypeOK`; without faults a working job is shown by its row, a busy row has something behind it, a follow-up waits for its record (`WorkIsShown`, `BusyIsBacked`, `FollowUpWaits`) |
| `lab_faults` | `MCLabLifecycle` | one fault of any kind, or cancel-all: `OneOperationPerLab`, `RecoveryAlone`, `OneDeployment`, `RunHandover`, `RemovedWhenDestroyed` |
| `lab_ends` | `MCLabLifecycle` | `EveryOperationEnds` |
| `lab_cancelled` | `MCLabLifecycle` | counterexample to `CancelledStaysCancelled` |
| `limiter` | `MCReadinessLimiter` | `NoIdleSlot`, `QueueIsWaiting`, `FirstComeFirstServed`, `NoProbeAfterAbort`, `ImplementsSlots`, `EveryGuestSettles` |
| `vm_ids` | `MCVmIds` | an apply meets no VM of another lab (`LabsNeverCollide`), a VM is removed by its own lab's apply or destroy only (`LabsSpareEachOther`), a destroyed lab leaves nothing, and what was looked at of a stopped one is off (`RestIsReal`) |
| `files` | `MCBlueprintFiles` | `FilesOnDisk`, `UploadsSpareDeployed`, `EveryOrphanRemoved` |
| `executions` | `MCExecutions` | `LockHeld`, `OneApplyPerEnvironment`, `ExecutionsEnd` |
| `workers_safety` | `MCWorkers` | `Barriers` and `Checkpoints` of a customization, `NothingRunsUnanswered` of a task Job, `MeasuredOnce`, `CancelReachesAll`, and what a success means (`PartsInvariant`) |
| `workers_live` | `MCWorkers` | `EveryRunEnds`, `TasksEnd`, `SuccessMeasured`, `CancelLeavesNothing` |
| `dashboard` | `MCDashboard` | `EditsAreSafe`, `SuccessIsDone`, `CleanupIsExact`, `EverythingEnds`, and complete bulk actions that keep off the VMs of the browser's own snapshot requests (`PartsInvariant`) |
| `volumes_spared` | `MCDashboard` | counterexample to `ExistingSpared` |

The MC modules join related properties of a component (`Barriers` is
`TasksAfterSetup /\ MembersAfterControllers`, `TasksEnd` is
`CallsReturn /\ EverythingRemoved`) and add the type invariants to one of them;
there is a seeded bug for each part. The comments in the modules say what each
part says of the code.

Scenarios. All requests, faults and cancellations at once are too many states.
`MCLabLifecycle` therefore gives every behaviour a scenario, an instance of
`LabLifecycle` with the constants that say what may happen in it:

| Scenario | Operations | Faults | Runs |
|---|---|---|---|
| `requests` | deploy, start, stop, destroy, redeploy, resume, recover, clear-history | none | `lab_requests` |
| `refreshes` | deploy, stop, destroy, refresh-state, delete | none | `lab_requests` |
| `cancels` | deploy, resume, cancel-all | none | `lab_faults`, `lab_cancelled` |
| `faults` | deploy, destroy, resume, recover | one, of any kind | `lab_faults` |
| `deploys` | deploy, in two labs, where the global lock matters | one crash or lost session | `lab_faults` |
| `followUps` | deploy, stop, destroy, resume; one apply retry | none | `lab_requests`, `lab_ends` |
| `crashes` | start, destroy | one crash, lost session or stall | `lab_ends` |

Two Terraform slots, one Ansible slot and three jobs are
what the interesting cases need: an older run, a newer run and a follow-up of one
of them. One or two stop verifications and one apply retry (the code has 40 and
4) exercise the follow-up, the last attempt and giving up. One fault is enough
for every order of that fault against everything else; two independent faults of
a lab are not explored. Symmetry is used where no liveness is checked.

`MCVmIds`, `MCBlueprintFiles` and `MCExecutions` have scenes: each behaviour is one
of the module's own specification, and `Played` says which steps its scene leaves
out, so that the properties are the module's own definitions, those the theorems
are about. `MCVmIds`: two labs of two workplaces whose ranges share an id are
deployed, redeployed and destroyed; one lab's classroom is edited between one and
three workplaces; one lab's inventory fails and its row may be removed, among VMs
of others. `MCBlueprintFiles`: two files for one blueprint, so that an upload can
replace a file, or one file for two blueprints, so that one can be a copy.
`MCExecutions`: an apply and a plan of one environment that are cancelled and
outlive their locks; two applies, one of them under a key of its own, that nobody
cancels; and executions whose lock does not expire under them, which all end.

The parts of `MCWorkers` and of `MCDashboard` share no variable and no step; a
state of their composition is a state of each, and their properties speak of one
part. It is therefore enough to let one part move in a behaviour. Customization
has two lanes on three VMs (a Linux guest, a controller, a member), two attempts
a step and two faults, so that a failed write meets a working lane and a resume meets
what is left of it. Two calls of a task, two runs of a lab, two queues, two
jobs, two requests for a clean-up and two VMs of a bulk action are the least in
which they can disturb each other. In `workers_live` the bounds are smaller where
a counterexample needs a loop of one actor only.

Three guests of two jobs on one slot (`limiter`) are the least in which a
waiting call can be overtaken on and on and in which an abort takes two of the waiting
calls or none; the proofs cover every number of guests and slots.

`CHECK_DEADLOCK FALSE` everywhere: job ids, edits, files and faults are used up,
labs are removed, guests are ready or failed in the end, so that the bounded
systems do stop.

Fairness. In `LabLifecycle` the dashboard finishes a request it has begun to write,
every processor goes on (its waits are timers and a refused lock is asked for again
every 1.5 s; that commands end is an assumption, as `lib/runCommand.js` sets Terraform
and the standard playbooks no time limit), BullMQ detects a stalled job, its event is
handled, a lost session is noticed, a recovery that has read a row finishes. Users,
faults and cancellations are never obliged to happen. Weak fairness is enough, because
a bounced job is pending again and its lock is only held by a processor that ends. In
`ReadinessLimiter` each command runs under `timeout(1)`, sleeps and deadlines are
timers, and microtasks always run. In `Customization` lanes and the run go on; blocks,
reconnections and clean-ups are given up after a time (`Bounded`), the standard
playbooks are not and need not end (`EveryRunEnds` excepts the run that has one
hanging); nobody is obliged to resume. In `KubernetesTask` requests time out and the
controllers of Kubernetes act; a Pod is not obliged to end, only its deadline to pass.
In `BlueprintFiles` requests are strongly fair, because a lock that is released again
and again is got in the end (PostgreSQL queues its waiters), and the hourly sweep
comes again and again to every directory. In `WorkerControl` messages to a subscriber
arrive, a worker that stopped is started again, and jobs are assumed to end. In
`Executions` queued jobs are taken again and again (strong fairness), a lock's time
limit passes, and neither the scheduler nor the launcher dies or throws between what
it writes and what it queues next; an execution it left there would stay. In
`BlueprintEditor` a browser settles every request; in `VmActions` requests and polls
have deadlines, but no task or guest is obliged to end; in `OrphanedDisks` requests
have time limits, except the poll of a task, and Proxmox' tasks end; the clean-up
whose poll is never answered (`PollHangs`) is excepted from `EverythingEnds`. In
`DeploymentDurations` only the importer's timer is fair.

## What the model showed

The first two are runs; the others are stated in their modules under *What the
documentation says and the code does not keep* and are refuted by TLC when the
named property is added to a configuration.

* **Cancel-all does not stop a job it overtakes** (`lab_cancelled`). The dashboard
  waits five seconds, sweeps the queues, resets the busy rows to failed and is
  done. A job taken before the pause claims its row after that: the claim is
  fenced by the run, which is still the row's, and asserts nothing
  (`workers/terraformWorker.js:1515`). The cancelled lab is busy again. The
  follow-ups a deploy or a stop queues after the sweep do the same (1678, 1928);
  when the follow-up itself was swept, the late `customizing` has nothing
  behind it.
* **The clean-up of orphaned disks deletes the volume of a new VM**
  (`volumes_spared`). Ids and configs are read before the volumes are listed; a
  VM created in between is in none of them, and unless it runs nothing watches
  its volume (`dashboard/server.js:737`, against `README.md:171`).
* `LabLifecycle!DeletedOnlyAtRest`: `DELETE ... WHERE id` (`dashboard/server.js:3295`)
  follows its status check by several awaits; a deploy that claims the row in
  between loses it, and its job is skipped as stale.
* `VmIds!OnlyOwnPowered`: start and stop act on every id of the lab's range that
  exists (`workers/terraformWorker.js:1643`). Bases are ten ids apart and ranges
  may be longer, so stopping a lab whose deploy was refused shuts down VMs of
  another one (`README.md:197` speaks of "the deployed VMIDs").
* `VmIds!RefreshIsReal`: after a classroom lost a workplace, a refresh looks at
  the remaining ids only and shows "stopped" while the VM of that workplace runs
  (`dashboard/server.js:2341`, against `README.md:145`).
* `VmIds!VmsHaveLab`: deleting a classroom cascades to the rows of deployed labs
  (`dashboard/server.js:2156`, `db/migrations/005-lab-deployments.sql`); their
  VMs stay with nothing that could destroy them.
* `VmIds!KeptDisks`: a destroy proves that a VM is absent, then lists and deletes
  its volumes (`workers/terraformWorker.js:847`); a lab with the same id that
  deploys in between loses the volumes of its new VM.
* `Customization!LockCoversCommands`: `Promise.all` rejects with the first lane
  (`lib/customizationRecovery.js:71`); after one failed Redis write the job ends
  and frees the lab's lock while playbooks of other VMs run
  (against `README.md:177`).
* `Customization!NeverOverwritten`: a block that an abort stops is reported when its
  container or Job has been removed, without a look at the signal
  (`lib/runCustomization.js:125`), and the store writes its whole record. If the job
  has been resumed meanwhile, checkpoints of the new run are lost and their steps done
  again (`lib/customizationRecovery.js:49`: "Serialize Redis writes so concurrently
  finishing VMs cannot overwrite checkpoints"). `Checkpoints` says what holds until
  then, and that every checkpoint is true even afterwards.
* A standard playbook that hangs keeps its run, and with it the lock of the lab, until
  somebody cancels (`lib/runCustomization.js:32`, `lib/runCommand.js`): `EveryRunEnds`.
* A poll of a deletion task that Proxmox never answers keeps
  `orphanedDiskCleanupRunning` set until the dashboard restarts: the request has no time limit, and the deadline
  is looked at between polls only (`dashboard/server.js:643`): `EverythingEnds`.
* The buttons that reset an address or a password or pause updates are registered
  nowhere (`dashboard/public/app.js:1766`): their requests run beside a bulk action on
  the same VM. `SnapshotMeetsNoBulk` speaks of the snapshot buttons only.
* `BlueprintFiles!DeployedUnchanged`: the upsert of a save excludes no new
  deployment (`dashboard/server.js:1875`); one created between the trigger and
  the commit is followed by the change of its blueprint.
* `WorkerControl!QueuePauseKept`: a cancel-all that reads the pause of another one
  takes it for the administrator's and leaves the queue paused for good
  (`dashboard/server.js:3856`). `WorkerControl!StatusIsShown`: a pause that
  waited for a job publishes "paused" after the resume
  (`workers/startTerraformWorkerService.js:41`).
* `VmActions!SnapshotsSpareBusyLab`: the busy check of a snapshot request
  (`dashboard/server.js:2618`) claims nothing; an operation claimed while the
  request waits for Proxmox works on the VM of the running snapshot task.
* `BlueprintEditor!UnsavedKept`: the answer of a load replaces edits made while
  it was under way (`dashboard/public/app.js:2893`, against `README.md:24`).
  `BlueprintEditor!UploadWhereAsked`: an upload saves first and looks up its
  target afterwards (4120); a late load in between moves the file to another
  blueprint.
* With a crash between adding a follow-up and recording it the row ends wrong
  either way: the parent's stalled event writes `failed` over a customization
  that works, or a customization that has already failed is overwritten by
  `customizing`. `BusyIsBacked` and `EveryOperationEnds` are therefore checked
  without these faults for runs with follow-ups.
* A row claimed by a request that dies before `Queue.add`, or whose last status
  write was swallowed, stays busy until a worker restarts.
* A stop that used its retries up leaves `stopping` for good, by design;
  `EveryOperationEnds` and `BusyIsBacked` except it by name. A stop that ended on
  a failed inventory is shown as stopped whatever its VMs do; `RestIsReal` speaks
  of the VMs that were looked at.
* With two faults, one of them a lost session, a row can be removed while its lab
  has VMs again: `RemovedWhenDestroyed` holds with one fault, and with any number
  as long as no session is lost (`DestroyRemoves`).
* Neither the scheduler's conflict query nor the lock keeps two applies apart in
  every case: a cancelled apply is no conflict while its Pod still runs, and a lock
  with a given key, or one whose TTL has passed, excludes nobody. The theorem
  `AppliesAreApart` says when one of the two is enough.
* `CancelReachesAll` fails with two cancel-alls, when the first resumes the queues
  while the other still clears them, and with a worker that is starting: it takes
  jobs before it has subscribed and misses `cancel-active`
  (`workers/startTerraformWorkerService.js`). `workers_safety` has one cancel-all
  and no restart beside it.
* A failed lab may be deleted while it still has VMs; the status check allows it.

## Proofs

`LabLifecycleProofs` proves, for any sets of labs and jobs, any slots, retry
limits and number of faults, from `ConstantsAssumption` alone (the null value,
the global key and the recovery session are none of the ids):

* `TypeCorrect`: `Spec => []TypeOK`
* `LabExclusion`, `DeployExclusion`, `RecoveryExclusion`:
  `OneOperationPerLab`, `OneDeployment`, `RecoveryAlone` always hold
* `RunsHandOverAtRest`: `Spec => RunHandover`

The exclusion invariants are not inductive: that two processors are not on the
same lab follows from what `owner` says, so the invariant is
`IInv == TypeOK /\ JobsTaken /\ LocksHeld`. `LocksHeld` says that a processor
past its locks with a live session owns its lab's key (and the global key, if it
deploys), that one between the two keys owns the first, and that a recovery past
its lock owns the lab's. `JobsTaken` says that a job whose id is taken
keeps its lab and kind, without which an owned key could change its meaning. Each part is kept by
each action (`TypeStep`, `JobsStep`, `LocksStep`); the two keys of a deploy
differ because the global key is no lab. `RunHandover` follows from the type
invariant and a case split: every write of a row but the request's claim keeps
the run (`KeepsRun`), and the claim's condition is the property.

The second half of the module goes on from there to what the locks alone do not
give: what a row says is true. Each theorem names the faults it excludes, because TLC refutes
it with them.

* `DestroyRemoves`, unless sessions are lost (`"session" \notin FaultKinds`):
  `Spec => RemovedWhenDestroyed`. A processor then has its lock as long as it
  works (`Steady`), so nobody provisions the lab between the end of its destroy and
  the removal of the row (`DestroyedIsGone`).
* `FollowUpsWait`, without crashes, lost sessions and stalls (`Quiet`):
  `[]FollowUpWaits`. A follow-up is queued while its job still holds the lab's lock;
  that a follow-up is of the lab and run of its job, and that BullMQ has exactly the
  jobs that are worked on as active, must be carried along (`RunsBegun`,
  `ActiveJobs`).
* `WorkStaysShown`, also with refreshes or with cancel-all but not with both:
  `[]WorkIsShown`. The row is written while a lease is held only by the holder, by
  a cancel-all, or by a request that requires it at rest (`RowChanges`,
  `WrittenByHolder`). A refresh that has read the row before a deploy and writes
  after its cancellation is why both together are excluded.
* `BusyRowsBacked`, without faults and cancel-all (`Calm`): `[]BusyIsBacked`. The
  job a busy row names is on its way, whatever state it is in (`Stands`).

The lemmas `RowChanges` and `JobChanges` say once how each step can change a row and a
job; the invariants are proved from them and not action by action. The runs
`lab_requests` and `lab_faults` check the same definitions on small instances.

`ReadinessLimiterProofs` proves, for any finite set of guests, any jobs and kinds
and any positive limit (`ReadinessAssumption`):

* `LimiterTypes`, `SlotsExact`, `SlotsNeverIdle`, `QueueExact`: `TypeOK`,
  `SlotsCounted`, `NoIdleSlot`, `QueueIsWaiting`
* `ServedInOrder`, `AbortedNotProbed`: `FirstComeFirstServed`,
  `NoProbeAfterAbort`
* `SemaphoreImplemented`: `Spec => Slots!Spec`

The invariants need each other: `drain` is a loop that could start many calls, but
because no slot is idle while a call waits (`NoIdleSlot`) and the queue holds
what the loops think it holds (`QueueIsWaiting`), a call or a release starts one
call at most, the oldest (`DrainStartsOne`, `CallCases`, `ReleaseCases`). Only
`LoopsLeft` is added to them: a guest whose release is pending is past its probe
and not back at the top, or the same guest would be counted twice. The order, the
abort check and the refinement then follow step by step from the invariant
(`ServesStep`). `EveryGuestSettles` is a liveness property and stays with TLC.

`CustomizationProofs` proves, for any lists of VMs, roles, steps and blocks, any
lanes, attempts and faults, and through every resume (`CustomizationAssumption`):

* `CustomizationTypes`, and `BarriersHold`: custom tasks start when every guest has
  been through its standard steps, members when the controllers have.
* `CheckpointsHold`: the five conjuncts of `Checkpoints`, each a theorem of its own
  (`CheckpointsAreKept`, `NothingIsRedone`, `OneStepUnsaved`, `SuccessHolds`, which
  speak of a job that no lane of an aborted run has overwritten, and
  `CheckpointsTrue`, which holds in any case).

The barriers alone are not inductive. A run knows only that `Promise.all` of a phase has
resolved; what it may conclude is `Passed`, a VM behind a phase has done its steps or
failed. That in turn rests on what lanes and queued updates are about (`OnDuty`, `Queued`),
on one update per lane (`Waits`), on records that claim no more than was done (`Accounts`)
and, for Redis, on `Synced`: the stored record is the worker's, except of a VM
whose write failed and which no lane can work on any more, until it is `overwritten`.
What the stores of earlier runs claim is true as well (`OldRuns`), so what their lanes
write late is old and never false. `OneStepUnsaved` counts
along the order of a plan (`InOrder`, `Unsaved`); the least step that is left
is taken with `WellFoundedInduction`.

`WorkersProofs` proves, for every value of their constants unless said otherwise:

* Tasks: `UnansweredNeverRun` (`NothingRunsUnanswered`) and `TaskSuccessHolds`. The
  invariant `TaskHistory` follows a Job from request to Pod: a Job is created once, its
  Pod runs once and needs the Secret, which is not sent before the answer.
* Durations: `MeasuredHolds` and `MeasuredOnceHolds`. `RunHistory` ties what the
  importer has read of the queues to what the jobs have done since.
* Control: `CancelReaches`, for one cancel-all and no worker that restarts
  (both are needed, see above). `Reaching` says how far the cancel-all has come: queues
  it has paused stay so, and each job it has found waits in one of them, has a
  `cancel-active` on its way to its worker, or is over.
* `PartsHold`: `PartsInvariant`, of all four parts together.

`VmIdsProofs` proves, for any labs and placement of their ranges, any workplaces and
retries, and whatever is edited, removed or created beside the jobs
(`VmIdsAssumption`):

* `NeverCollide`: `[]LabsNeverCollide`. A check is no reservation; it holds until
  the apply because only the holder of the global lock creates VMs (`OneDeploy`), and what
  an apply removes first is its own (`Planned`, `Owned`).
* `RestHolds`: `[]RestIsReal`. A destroy that has come to its clean-up has an empty
  workspace (`Emptied`) and a workspace holds every VM of its lab (`Owned`); a lab that
  is shown as stopped has no job (`AtRest`), so only a lab whose range reaches to
  the VM can start it (`InReach`).
* `LabsSpare`: `Spec => LabsSpareEachOther`.

`Turn` says once how a job can go on, and the parts of the invariant follow from it.

`BlueprintFilesProofs` proves, for any requests at a time, blueprints, files and
faults:

* `ReferencesHold`: `[]FilesOnDisk`
* `UploadsSpare`: `Spec => UploadsSpareDeployed`

What is on disk and what is referenced are two stores, and a request that has
looked at one writes the other later. `Relies(p)` is what request `p` then counts on
under its locks (an upload's file is on disk and unreferenced, a save has seen
its files, a collection retains every reference), `Spares(p)` what its own steps
leave to the holders of other locks; each step proves both.

`ExecutionsProofs` proves, for any executions, environments and keys:

* `ExecutionTypes`, `LocksAreHeld` (`[]LockHeld`), from the fact that an
  execution is in one place of the pipeline at a time (`Pipeline`)
* `AppliesAreApart`: `[]OneApplyPerEnvironment`, if nobody cancels (the conflict query
  is enough) or if keys are computed and no TTL passes under a holder (the lock is).
  Neither assumption can be dropped, see above.

`DashboardProofs` proves, of `PartSpec` and for every value of its constants
(`EditorAssumption`: identifiers, the new blueprint and the saving button are told
apart; `NodesAssumption`: a Proxmox cluster has a node):

* `EditsSafe`: `[]EditsAreSafe`. Where an edit is, in the editor, in the body of a save, in the
  answer of a load or in the database, it was made there (`AllHome`). That none is
  lost needs more: what counts as saved is stored or given up (`SavedIsKept`), and
  nothing that is about to be stored or shown is older than what is stored
  (`NoneOlder`). Both hold because one save runs at a time, a load begins only when
  the edits are stored or given up, and edits made during either are the ones the
  property excepts.
* `SuccessReal`: `[]SuccessIsDone`. A request that polls knows a task of its own VM
  and action (`OwnTasks`); with one lock per VM and snapshot task (`LocksShown`) and the
  lists of a bulk action equal to its open requests (`BulkLists`) this is inductive.
  The buttons of one VM and bulk actions are two instances of `VmActions`; the
  steps are proved once for any instance (`Act`).
* `CleanupExact`: `CleanupIsExact`. At every stage of the clean-up of request `r`,
  `Spares` says why a volume protected all the time is not on its list, and `Meets` that
  an orphan still is, unless an error is noted. Without a node nothing would be read and
  every clean-up would be "complete": this is what `NodesAssumption` is for.
* `PagesTyped`: `[]PartsInvariant`. That a snapshot request and a bulk action of one
  browser never meet at a VM is a conjunct of `BulkLists`: neither begins where the
  other has, although the question before a snapshot lies between check and request.

Only model-checked: all liveness (`EveryOperationEnds`, `EveryGuestSettles`,
`EveryOrphanRemoved`, `ExecutionsEnd`, those of `workers_live`, `EverythingEnds`),
which needs fairness and ENABLED and is out of TLAPS' reach. Every safety property
of a passing run is a theorem, some under the assumptions named with them above.

## Plan

Done: every part that has behaviour over time is modelled and checked, and the
safety properties that are checked are theorems. What is left, in order of
importance:

1. An abstract specification of a lab (at rest, busy under one run, gone) that
   `LabLifecycle` implements, with its step simulation proved from
   `RowChanges`.
2. `JobLocks`: `tryJobLocks` at the level of queries, probe, timer and release,
   implementing the lock that `LabLifecycle`'s `owner` stands for.
3. Compositions: `LabLifecycle` with `VmIds` (several requests of one lab while
   its ids change) and with `WorkerControl` (the pause of a queue during a
   cancel-all).

## Not modelled

* Templates, courses, teachers, and the create and list routes of blueprints and
  classrooms: single statements.
* Authentication: every request is judged on its own from its session.
* Terraform settings, command execution and the job monitor: file and process
  I/O; their outcomes are free in the modules that use them. Terraform, Ansible
  and container code is taken by its contract.
* The legacy lab lifecycle route: no page calls it, deployments supersede it.
* In the browser: rendering, the polling of lists, deletion and duplication from
  the list, two tabs.
* In the workers: the preparation of variables, HA resources and inventories; what an address or
  password reset changes inside a guest.
