# Verification of api-test-automation

TLA+ models, TLC runs and TLAPS proofs for the API test platform: how a scenario is edited, composed
and scheduled; how many resource-creating lifecycles run at once against one cloud account with a small
VPC quota; how they are stopped and cleaned up after; and how runs are requested, queued, executed and
swept. All paths below are relative to the repository (`src/` is its root).

## 1. The system

A **lifecycle** is a list of HTTP steps that create, poll, change and delete resources of a cloud account.
`regression/scenarios/engine.py` runs one. A **runner** decides which lifecycles run side by side:
pytest-xdist worker processes, the wave runner (`dag_planner`, `dag_runner`), the dynamic scheduler
(`dag_scheduler`) or the native thread-pool runner (`native_runner`). Lifecycles either create a VPC of
their own or *adopt* one of the run's shared VPCs, which are provisioned before and torn down after. The
account allows a handful of VPCs, so every runner keeps the number of VPCs under the cap in its own
way. The **control plane** (`controlplane/`, `runner/worker.py`) records, queues and dispatches runs and lets
people edit scenarios; the **console** (`tools/console2_server.py`) launches, queues and stops runs on one
machine. An operator stops a lifecycle or a run through the **command channel** (`core/commands.py`). What a
run leaves behind is reaped by the run itself and swept by the **reconciler** (`cleanup/`).

### Components

| component | state | what is hard | what makes it correct | status |
|---|---|---|---|---|
| VPC semaphore, `core/budgets.py` 90-240 | file of holders, lock file | processes, crashes inside a write, timeouts | limit kept, file exact, the dead keep nothing | modelled, proved |
| `Budget`, `core/budgets.py` 1-88 | counter per kind | return without reserve, resync while others reserve | counts what is held | modelled (in LifecycleEngine and NativeRunner) |
| Lifecycle engine, `engine.py` | step index, cleanups, units, tokens | failure and stop at any step, lost answers | slots come back, nothing deletable stays, it ends | partly, proved |
| HTTP client, `core/http_client.py` | attempts | five layers that send again | created once, passed only when ready | partly, proved |
| Dynamic scheduler, `dag_scheduler.py` | pending list, slots | threads, stagger lock, failures | cap, each once, it ends | modelled, proved |
| Planner, wave runner, `dag_planner.py`, `dag_runner.py`; live executor and limiter, `dag_runner_live.py` | waves, tracks; limit, active | packing under the cap, three tracks on one pool, a limit that falls | cap and pool kept, every lifecycle run | modelled, proved |
| Native runner, `native_runner.py` | shared Budget, queue | provisioning in the background, adopters that wait, retries | cap, one result each, it ends | modelled, proved |
| Command channel, `core/commands.py`, `controlplane/db.py` 230-264 | tables; cache, consumed ids, flag per process | lost acknowledgements, failed polls, processes, crashes | applied once, acknowledged means done, an abort heard is obeyed | modelled, proved |
| Run records, dispatch, worker, `controlplane/db.py`, `dispatch.py`, `runner/worker.py` | `runs` table | racing workers, lost first events, a worker that dies | claimed once, a settled record stays, the queue is served | modelled, proved |
| Cron, `controlplane/scheduler.py` | `last_fired` | restarts and errors between launch and mark | a window is launched once, never late | modelled, proved |
| Console engine, `tools/console2_server.py`, `controlplane/console_api.py` | records, queue, reservations, ticker | launches, stops, sweeps and restarts that race | reservations exact, no sweep beside a run, the queue drains | partly, proved |
| Cleanup, `cleanup/` | marks of a sweep, listings | slow deletions, failed listings, other runs | others' resources spared, no early end, honest report | partly, proved |
| Shared infrastructure, local run, `shared_infra.py`, `local_run.py`, `cleanup/run_scoped.py` | ids, ledger of events | deletions of parents and children in several threads | what is left is left for a reason | partly, proved |
| Scenario composition, `composer.py`, `schedule_optimizer.py` | instances, order, address blocks | shared and counted instances, branches | orders right, nothing needless, a forecast one can keep | partly, proved |
| Web application, `controlplane/authoring.py`, `resource_model.py` | working copy, git | requests that overlap between reading and restoring | a refused text is gone, an accepted one stays | partly, proved |
| Results and logs, `core/results.py`, `core/oplog.py` | shards, canonical file; buffer of events | processes that end anywhere, threads without a lock | each observation once, no event lost in a further way | partly, proved |
| Specification and conformance scripts | files | - | - | not modelled |

`PROJECT.json` lists the components with their sources and what of each is left out, and under `hazards`
every place where this code can go wrong in a way a test would hardly reach, with the properties that watch
over it.

### Interactions

* engine -> semaphore: one `acquire` before a VPC create; the token is bound to the VPC's id and released
  with it (`engine.py` 1645-1662, 1330-1346, 1969-1989).
* engine -> Budget: `reserve` before a create, `release` at the failure exits, at the VPC's own path and in
  each cleanup; the native runner gives one Budget to all its threads.
* engine -> client: `_run_step` sends through `ApiClient.request`; both try again on their own.
* runner -> engine: the executor runs one lifecycle and returns its outcome; provisioning and teardown of the
  shared VPCs are callbacks or a subprocess around all of them.
* operator -> server -> engine: commands are rows that each process polls at its checkpoints and acknowledges.
* console -> run: a thread per run, pytest in a session of its own; the reconciler at its end when nobody
  else is in flight.
* engine -> run_scoped, reconciler: what a lifecycle created is in the ledger of events and in the manifest.
* cron -> console, app: a launch like one from the page; the worker claims what the app has recorded.

## 2. Modules

| module | models | state and actions in the code |
|---|---|---|
| `SlotPool` | the promise every VPC guard makes: at most `Limit` holders | abstract; implemented by VpcSemaphore and DagScheduler, and by what LifecycleEngine does with its slots |
| `VpcSemaphore` | `CrossProcessSemaphore` in several processes | `file`, `lock`, `pc`/`call`/`ret`/`img` the progress of a call, `own` the tokens in use; `Truncate` and `Write` are the halves of `write_text`; `Crash` process death |
| `LifecycleEngine` | `run_lifecycle`, lifecycles side by side | `lc[l]` the local variables, `used` the Budgets, `live` the account; one action per outcome of a step, `CleanupOne` one entry of a teardown. The semaphore is used by its promise |
| `StepRequest` | `_run_step` over `ApiClient.request` | `place` which layer is at work, `tries`, `left`, `resp`; `effects` how often the request took effect, `doubts` why an answer left that open |
| `DagScheduler` | `run_dynamic` | `pending`, `avail`, `stagger`; the pieces of `_worker` between two lock operations |
| `NativeRunner` | `native_runner.run` | threads that pop, run, wait and run again; `used` the shared Budget; the provisioner's rounds, the resync, the joins |
| `DagWaves` | `plan`, `run_plan`, the live executor | `packing` the loop that fills the waves, one lifecycle a step; three tracks of waves over a pool; limiter `limit`, `active` |
| `CommandChannel` | command tables, `core/commands.py` per process, the engine's checkpoints | `rows` the table; `cache`, `consumed`, `abort` the module's variables; each checkpoint takes a *view*: the cache or a fresh answer |
| `RunQueue` | `runs` as a queue | requests, GitHub's runs and their first events, claims (select, then update), each stage of `process_run`, crashes and restarts; `strewn` what became of the resources a run left, under its two gates |
| `CronScheduler` | the pass over the schedules | `Launch`, `RecordRefused`, `MarkFired`, each of which may raise; `SchedulerDies`, `SchedulerStarts` |
| `ConsoleEngine` | admission, queue, run threads, stops, sweeps, rehydration | `rec` per run with the place of its thread, `reserved`, `queue`, `baseline`, `ticker`, `disk` what survives the server |
| `PostRunRescans` | `_post_run_rescans`, `_resume_pending_rescans` | entries and alert in memory and in the sidecar file, through deaths and failed writes |
| `Reconciler` | rounds of `run_sweep` and `main` | `account`, cached listings, `marks` (converged, stuck, picked), the VPC's 409 with its purges, the by-products deleted without the ownership gate, verdict, second chance, report |
| `LocalRun` | `live_run`, `provision`, `teardown`, `reap_run_leftovers` | `life` of each resource, `ids` and `ledger` what the run knows, the reap's collections, barriers and exceptions, the teardown's chains of ladders |
| `Composer` | `plan`, `compose` | `phase` the function's loops one after another: the pool of instances as it is expanded and its groups resolved, the order (`sequence`), `lastUse`, address blocks, steps created and deleted one at a time, validation |
| `ScheduleOptimizer` | `schedule`, `tail_lengths`, `critical_path`, `_topo_order` | `stage` which loop: `order`, `tail` and `path` a node at a time, then the simulation with its heaps as sets |
| `Authoring` | `propose_edit` with its callers, `set_lifecycle_flags` | `copy` the working copy, `head` the last commit, one record per request with what it read |
| `ResultsStore` | `record`, `merge_worker_shards`, the readers | texts of shards and canonical file |
| `ResourceLog` | `emit_resource`, `flush_resources` | `lists`, `buffer` which of them `_RES_BUF` names, threads between look-up, append, swap, key and store |
| `AccountCap`, `RunRecords`, `PlatformTypes` | - | properties that two modules share: NativeRunner and DagWaves (`CapKept`), ResultsStore and ResourceLog (`RecordsKept`), ConsoleEngine and RunQueue (`PlatformTypeOK`) |
| `MCPipeline`, `MCRunners`, `MCPlatform`, the other `MC` modules | instances | the parts of each share no state, so a behaviour is one of a single part and the others stay |
| `VpcSemaphore_proofs`, `CommandChannel_proofs`, `LifecycleEngine_proofs` | - | the TLAPS proofs about these modules, in the third with those about StepRequest |
| `DagScheduler_proofs` | - | DagScheduler, NativeRunner, DagWaves |
| `ControlPlane_proofs`, `ConsoleEngine_proofs` | - | RunQueue, CronScheduler and Authoring; over what it says of the queue, the console and PostRunRescans |
| `Cleanup_proofs` | - | Reconciler, LocalRun |
| `Pipeline_proofs` | - | ScheduleOptimizer, Composer, ResultsStore, ResourceLog |

### Abstractions

* **VpcSemaphore.** A process is a pid, not reused; a token is `<<pid, serial>>`. The engine always acquires
  one slot under the same limit. The mode without `fcntl` is left out.
* **LifecycleEngine.** Steps create, touch (any other call on the resource's own path), delete or check; a
  poll or a retry ladder is one step with the outcome it ends in (StepRequest has their inside). Only the
  kind `vpc` is budgeted. Adopt steps, probes and context transformations change neither slots nor cleanups.
  The account refuses to delete a VPC that holds something, and a VPC beyond the cap.
* **StepRequest.** Statuses by class; a code that has a ladder is a status of its own; one fallback per step; a
  deadline may fall in any round but the first; what a refire's own request is answered is not looked at, as
  in the code.
* **DagScheduler, DagWaves, NativeRunner.** The executor never raises (the live one catches everything). Of
  a lifecycle the native runner's model keeps its units: reserved before each VPC, returned by each
  successful call on a VPC's path and by each cleanup. Subnets, gateways and their waits, and the ramp
  of threads, are left out; a teardown is one step. In DagWaves the closure of the shared roots is a number.
* **CommandChannel.** A lifecycle is a loop of boundary and step; its end in its own way is one outcome. A
  poll and what it leads to is one step; what happens in between is covered by looking at the cache later.
* **RunQueue.** An SQL statement is atomic; a stage is reduced to whether it fails and leaves something behind.
  The two gates of a run are any of a set (`Gates`), as suite, options and host determine them and nobody checks
  one against the other. A sweep deletes what was left, or fails to, whatever its exit code; without the gate
  "destructive" it deletes nothing.
* **ConsoleEngine.** The kind of each run is a constant; the account-wide sweep is one place of a thread. Views,
  plans, suites and read-only scans are left out.
* **Reconciler.** One collection of each way a pass treats its items; barriers end at their deadline or at once,
  so that a deletion may be through before any later step, or not. Two passes delete without asking
  `_is_deletable`: the second one over the volumes (2470-2494: untagged, unattached, 32 hex digits for a name) and
  that of the log groups (2253-2306: all of them). They come behind the volumes and, for the tail, behind the last
  pass; their items are called by-products (`Byproduct`), and only they. Other bulk deletions, the ledger
  reclaim (of creates this repository recorded) and the report of index ghosts are left out.
* **LocalRun.** Of the tests only what they leave; the account deletes in its own time and refuses parents. The
  subnets that a VPC's 409 names are deleted and waited for in one step.
* **Composer.** A step is what it does and whose ids it takes; a cost is computed anew each time. Preference for
  what is in the bundle depends on the order of resolution, as in the code.
* **ScheduleOptimizer.** Whole-number durations; the store of measured ones is left out.
* **Authoring.** The validity of a text does not depend on other files, but a verdict is about the whole
  family of files; a validator's run is one step. The push to a remote is left out.
* **ResultsStore, ResourceLog.** A text is a sequence of records and cut-off lines. A thread loses the
  interpreter only in calls, so the swap of the buffer is atomic, and look-up and append are not.

## 3. Runs

| run | shows | states |
|---|---|---|
| `sem` | three processes on two slots with crashes anywhere but inside `_write`: `SlotCap`, `LedgerExact`, the refinement `PoolSpec`, and that no crash wedges a waiting process (`NeverWedged`) | 35,819 |
| `pipeline` | seven stretches of a scenario's way: edits (`EditsSound`), composition (`PlanSound`), forecast (`ForecastSound`), a local run with reap and teardown (`LeftForAReason`), two lifecycles in the engine with every outcome and stop (`ExitClean`, `UnaddressedWithinCap`, `LifecyclesEnd`, `StopReclaims`), results and events (`RecordsKept`) | 267,971 |
| `runners` | what executes lifecycles: the dynamic scheduler (`CapSafe`, `RunOnce`, `SharedWhileRunning`, `PoolSpec`), native runner and waves (`CapKept`), one step over the client (`MadeOnce`, `PassedIsReady`), the console's stop (`SkipEnds`); all end (`RunnersEnd`) | 114,008 |
| `commands` | two processes, two lifecycles, two commands of any kind in either table, failed polls, lost acknowledgements, crashes: `AppliedOnce`, `AckMeansSkipped`, `AbortObeyed` | 127,652 (up to symmetry) |
| `platform` | the console (`Reservations`, `EndSweepAlone`), the runs table (`ClaimedOnce`, `RecordsSettle`, `SweptInTheEnd`), cron (`WindowLaunchedOnce`), rescans (`LateAlertKept`), the sweep (`OthersSpared`, `SweepHonest`); what waits is served (`WorkIsServed`) | 317,436 |
| `sem_torn` (violation) | a crash between truncation and write breaks `SlotCap` | - |
| `engine_polled` (violation) | with the readiness polls the scenarios have, more VPCs than the cap (`VpcsWithinCap`) | - |
| `dynsched_no_slot` (violation) | shared VPCs that use up the cap: the run never ends (`AllRun`) | - |
| `commands_wait` (violation) | the stop of a lifecycle in a required wait fails it (`LeftWaitIsSkipped`) | - |
| `console_forced` (violation) | a run launched during a forced cleanup is swept (`SweepSparesRuns`) | - |
| `sweep_converged` (violation) | one failed LIST and a collection is never looked at again (`ConvergedHarmless`) | - |
| `step_refired` (violation) | a creation whose wait has a refire passes unready (`RefiredIsReady`) | - |

Each passing property has a mutant in `PROJECT.json`: a plausible bug in one mapped definition under which
the same run finds the property violated. Each module has one type invariant, `TypeOK` and its like.

Some properties bound a fault rather than deny it, because the code has it: `EditsSound` (files that two
requests met at), `RecordsKept` (shards that could not be read or deleted; events appended late, under a key
used twice, or wiped by another thread's error), `LeftForAReason` (a request that went wrong and the reap it
broke off, something in the way that the run did not know of or whose collection comes later), `MadeOnce` (answers that leave open whether a request took effect),
`CapKept` (until the count of the Budget is overwritten). They say that there is no *other* way.

### Bounds, and why they are enough

* `sem`: `MaxTokens = 2` lets a process release a token after it was granted another; two slots for three
  processes make somebody wait; `MaxHold = 2` is the most VPCs a scenario creates. The proofs lift these.
* `pipeline`. *Edits*: two requests (save, validate-only, node save with toggle), two families of files, one
  mishap: the least for reading, applying and restoring to cross. *Composition*: fifteen nodes, in the shape
  of the repository's networking model and one for each refusal (cycle, undeclared node, soft look-up), every
  target of one or two, six choices; two sub-blocks where the code has eight, so that they run out.
  *Forecast*: four lifecycles, six shapes (one a cycle), two durations, four sets of slot holders, two slots.
  *Local run*: four selections that reach each chain and each collection order, ladders of two (five in the
  code). *Engine*: three VPCs, two slots, `UsedBefore` units left reserved; two programs with each kind of
  step. *Results*: two sessions of two shards with two observations, one miss. *Log*: one or two threads with
  two events, a threshold of two, one outage, two milliseconds.
* `runners`. *Dynamic*: more threads than slots, more lifecycles than threads, light ones overtaking. *Native*:
  two threads, three VPCs, six selections (adopters, one or two networking VPCs, given roots, blind needs).
  *Waves*: a pool of two, four leaf sets with caps that leave two, one and no slot, two adjustments. *Step*:
  thirteen kinds of step, three tries, two rungs, three rounds, one refire: each layer can give up and
  another send again. *Stops*: two processes, two lifecycles, four rows.
* `commands`: one lost acknowledgement and two waits suffice to apply a command twice, two processes to
  lose an abort. Symmetry only here, where there is no liveness property; safety is proved for any table.
* `platform`. *Console*: seven scenarios of up to three runs with stops, failures, a restart, a stale count
  (`MCConsoleEngine`). *Queue*: two requests, one with both gates or mutations alone, one with
  neither, one run from outside, two workers, one fault, one clock second.
  *Cron*: a daily and an hourly schedule to time 4, two faults. *Rescans*: three offsets, two losses. *Sweep*:
  six accounts, the last of by-products, one of them attached, both modes, three rounds (the real cap is higher, but a round repeats), one trouble.
* `CHECK_DEADLOCK FALSE` everywhere: every one of these systems stops.

### Fairness

* VpcSemaphore: strong fairness of `TryAcquire` (the lock's queue and the poll loop) and of releasing, weak
  inside the lock; none for crashes and timeouts.
* Engine: weak fairness of one of the lifecycles proceeding (`LifecyclesProceed`) as long as one can: each has its
  own worker, every request a timeout, and a lifecycle's steps are bounded, so that one that is always
  overtaken is alone in the end. None for commands, nor for the deadline of the wait for a slot.
* Runners: weak fairness of their steps. Every one is bounded and brings the run nearer to its end, threads are
  scheduled, and requests and waits have timeouts. The stops have CommandChannel's: weak fairness of calls
  and checkpoints, strong of a checkpoint with a successful poll, none for the end of waits.
* Platform: threads are scheduled, stages and requests have timeouts, the worker's container is restarted
  (`docker-compose.yml`), time passes. A server that died need not come back, and faults are never owed.

## 4. Proofs

All theorems hold for every value of the constants that satisfies the named assumptions.

**VpcSemaphore** (`ProcsAssumption`, `SizesAssumption`, `CrashAssumption`). `TypeCorrect` without
restriction; `CapSafe`, `LedgerCorrect` and `ImplementsPool` under `~CrashTears`, the hypothesis that `sem_torn`
shows to be needed. `SlotCap` is not inductive: between a call's read and its write the file says nothing
about the tokens in use. The invariant adds that the image a process is going to write is what the live
holders will be after the call (`ImageInv`), that the file agrees with the owners whenever it is not truncated
(`FileInv`), that a token names its owner and is numbered up to `serial` (`OwnInv`), and that the dead own
nothing and are in no call (`DeadInv`).

**DagScheduler** (`NodesAssumption`, `WorkersAssumption`, `CapAssumption`). `TypeCorrect`, `CapSafety`,
`EachNodeOnce`, `SharedSafe`, `ImplementsPool`. The invariant adds that no slot is created or lost (`SlotInv`),
where each lifecycle is (`PlaceInv`), and that threads run only in the phase `run` (`PhaseInv`).

**NativeRunner** (`NativeAssumption`; in `DagScheduler_proofs`). `NativeInduction`, `BudgetKeepsTheCap`
(`NativeCap`). The threads' Budget knows neither which shared VPC came up nor when, so the limit itself is not
inductive. The invariant says what the count stands for (`CountInv`): until the resynchronisation it is what was
planned for, what the lifecycles hold and what failed creates lost; from then on it covers what came up instead
of what was planned; and that is enough because what comes up was planned for (`ProvisionInv`). A thread
returns no more than it reserved except where `miscounted` says so (`ThreadInv`), which is why the property
has that hypothesis: the code returns a unit too many in the cases listed in section 5.

**DagWaves** (`WavesAssumption`: lifecycles are finitely many and each of one kind, the pool has a thread).
`WavesInduction`, `WavesKeepTheBounds` (`WavesBounded`) and, with the native runner, `CapIsKept` (`CapKept`). The
packing is modelled as the loop it is, a lifecycle a step, because a fold is out of the provers' reach. The
invariant says that every wave fits what the shared roots leave (`PlanInv`, where the one under way counts its
slots), that what is begun and not over is of the wave its track is at (`BegunInv`), and that it waits once for
a thread of the pool, has one, or is a wave by itself (`ThreadsInv`); the tracks share no lifecycle, so that the
self-creators in flight are of one wave.

**CommandChannel** (`NobodyAssumption`, `StoresAssumption`). `TypeCorrect`, `ActsOnce`, `AckedSkipDone`,
`AbortIsObeyed`. For `AppliedOnce` the invariant adds that what a process acted on is what it remembers and
never in its cache (`EffectInv`); for `AckMeansSkipped` that a lifecycle is with one worker and an ended one
never moves. `AbortObeyed` needs `AbortInv`: a process that heard of an abort has the flag or an abort in
its cache, and the flag comes with the first abort it consumes.

**StepRequest** (`StepAssumption`, `RequestsAssumption`: no create or change has a wait, or a ladder on
406, as in the repository's scenarios). `StepTypes`, `CreateMadeOnce`, `WaitPassesReady`. `MadeOnce` is not
inductive: whether a request may be sent again depends on the layer that is at work. The invariant
`SettledInv` adds that, as long as no gateway error or broken connection left it open, a request that may
have taken effect is settled: no layer that is still to come sends it again.

**LifecycleEngine** (`StepsAssumption`, `LimitsAssumption`, `ScenariosAssumption`). `EngineTypesHold`,
`LifecyclesEndClean` (`ExitClean`) and `UnaddressedVpcsFit` (`UnaddressedWithinCap`), for any such programs, cap and
number of lifecycles. Both properties speak of what all lifecycles have together, while a step changes
one of them. The argument is local: what a lifecycle makes, no other one touches, so the invariant is a
statement `Sound` about one lifecycle's record, its resources in the account and those the engine cannot
delete; the step that moves it keeps it, and the others' steps leave all it speaks of alone. A cleanup is
identified with the step it is for, and cleanups run last-registered-first, so that a VPC's DELETE comes after
those of what was made in it; the only VPC left behind is one that holds a thing already lost (`Blocked`).
Every VPC that is there and no step has addressed is bound to a slot of its lifecycle (`Bound`), to each one
another, which makes their number at most that of the slots. `EngineUsesSemaphore` (`UsesSemaphore`) is the other
side of the promise that VpcSemaphore implements: slots are taken and given back as SlotPool has it, one for a
VPC at a time, and the slot of a create at hand is the one its VPC keeps. It is proved only; no run checks it.
`ScenariosAssumption` says what the scenarios are like: what a step addresses was created before by the
same lifecycle; each create with a cleanup has a later delete, in its own group or in none; VPCs are created
neither optionally nor in a group, nor deleted optionally. The last holds of all 70 VPC creates of the
repository. Of the 390 creates with a cleanup 375 have their delete in the same group and 5 in none; 7 have none
that matches and 3 one in another group (in `scf-privatelink-apigateway-coverage`, `gen-private-nat`,
`apigateway-privatelink-endpoint`), of which `validate.py` 238-258 only warns. None of these is a VPC; of
scenarios with them the theorems say nothing.

**RunQueue, CronScheduler and Authoring** (`ControlPlane_proofs`). `ClaimsExclude`, `RecordsStaySettled`, `RunsAreSwept`,
`NoWindowTwice`, and the types of the queue. A claim is a select and, later, an update. The invariant says
that from its update on the row is the worker's, is "running" and bears an id that the worker gave it, which
differs from those of GitHub; that no two workers have the same row; and that of a run nothing
is unswept before its first lane nor after its sweep (it may have survived the sweep, or the sweep been barred
from deleting it). A window is launched once because at any time each launched one is
behind the baseline of its schedule, is the one the pass is about to mark, or is one whose mark raised
(`ScheduleInv`); a restart moves the baseline past whatever was missed. `EditsAreSound` is about requests
that read, write, validate, roll back and commit files without a lock. The invariant says that at most one of
them holds a file on which no two have met (`AloneInv`), and what it knows of it (`KnownInv`); that a text which
its validator refuses is about to be rolled back or has one of the excuses the property names (`InvalidInv`);
and that what is committed is valid, or two requests met on the file (`HeadInv`).

**ConsoleEngine and PostRunRescans** (`ConsoleEngine_proofs`). `ReservationsHold`, `EndSweepsStayAlone`,
`LateAlertsAreKept`, and the console's types,
which with those of the queue are `PlatformTypesHold` (`PlatformTypeOK`). `Reservations` needs that the queue is exactly the runs whose
threads wait in it, each once (`ConsoleInv`), so that those admitted together out of it fit beside the reserved
ones. `EndSweepAlone` needs `SweepInv`: a run that is past its pytest counts as running until its sweep is over,
so that no LIVE run is launched beside it; none was being launched when its pytest ended; and when the
sweep begins the others are over or not launched yet.

**Reconciler** (`ReconcilerAssumption`: finite account; what holds a VPC was made by the run that made the VPC, so
that it is ours if the VPC is, however it is named; only of a log group may a DELETE be accepted without any
effect). `ReconcilerInduction`, `SweepsAreHonest`
(`SweepHonest`), `OthersAreSpared` (`OthersSpared`), for any account, kinds of deletion, number of rounds,
attempts and failed requests. What a report or a verdict says depends on which passes the round has been
through, so the invariant is stated per pass. `PlaceOK` ties the passes to come to the order of `run_sweep`
and each place to what may be in hand there. `SeenInv`: what stands of a collection whose LISTs came through is
in the prescan's listing as standing until its pass and stuck or picked behind it; if its collection has
converged it is stuck. `GatewayInv`: a gateway on its way out has not let its collection converge, and behind its
pass the round has reported progress; it holds because nothing but a counted DELETE or the purge behind a VPC's
409, which comes after the gateways' pass, sends a gateway on its way. `HandOK`, `MarksOK` and `AccountOK`
say that what the sweep has in hand, remembers, or has sent on its way has been through `_is_deletable`; from
them `OthersSpared` follows for each of the seven ways to a DELETE. What is gone over without the gate is kept
apart (`ExtraOK`): by-products, which nothing but these two passes sends on their way.

**LocalRun** (`LocalAssumption`: whatever leftovers there are, whatever they are in, in any order of collections;
a subnet is in one VPC; nothing is shared without the main VPC, which `provision_shared_vpc` makes first and gives
up without). `LocalInduction`, `LeftBehindForAReason` (`LeftForAReason`). The property is about the end and about
all that the run knows; the invariant says the same of each resource from the moment the run is done with it: of
a leftover that is no longer to be reaped (`ReapInv`), of a shared resource its chain is past (`TearInv`). That
takes a reason to stay one. Whoever was up when x was refused must be there in the end too, or its DELETE came
after x's: nothing the reap still has to do comes before what it has done, and who is in the way of x is in x
(`InTheWayInv`), which the teardown's threads never delete once x is behind them; the subnets in a VPC that is tried
again are in nothing else. And whoever was on its way out must have been waited for: a deletion the reap has
begun is of this collection, or has outlasted its barrier, or is a subnet of the VPC to be tried again. `PhaseInv`
says where the run is, `MainInv` that the teardown's gate, the main VPC's id, leaves nothing shared out.

**Composer** (`ComposerAssumption`: a node is declared once, needs finitely many others, each at least once, and
has its branches in an order). `ComposerInduction`, `PlansAreSound` (`PlanSound`). The property is about what comes
out; the invariant says phase by phase what is so on the way, and that what is not begun is empty (`BegunInv`).
`ClosureInv`: the pool has as many of a node as the one that needs most of it, and every node is a
target or needed by one that is there. `BranchInv` is why a group has its branch. That a branch was made for its
group alone where another was needed anyway cannot be seen from the pool at the end, so the invariant keeps, of
each group that nobody chose for, a reason: its branch was in the pool already, for something else, or the nodes
in the pool at the time were closed under their needs without any branch of the group; then so is everything
the targets need, whatever the branches (`Anyway`). `PlaceInv` says that the order holds each instance after
those it uses, `UseInv` that the last use of an instance is not before that of any of its users. `PlanSound`
speaks of users of users, by a recursive function: that there is such a function is shown by induction on
positions in the order (`AllUsersFound`). `CreateInv`, `DeleteInv` and `BlockInv` say which instances have their
steps, in which order, and how the address blocks of one parent are numbered. Nothing is needed of `Cost`:
the plan is sound whichever branch is the cheapest.

**ScheduleOptimizer** (`ScheduleAssumption`: finite work, whole durations, at least one slot).
`ScheduleForecastSound` (`ForecastSound`). `OrderInv` says that a node comes after those it requires, `TailInv` that
a tail is the node's duration and the longest of its dependents' tails, `PathInv` that what the path has so far and
the tail of what comes next make the floor; `PlayInv` what has started, waits or is to come at each time of the
simulation, `SlotInv` that the slots are kept whenever something starts. The last conjunct, the distance from the
floor, is an argument of its own (`BehindInv`). A node that has what it requires waits only while all slots are
held. So at any time, by as much as the time and the tails still to be run come out above the floor, all slots
were held that long: that excess times the slots is at most the seconds for which slots have been held so
far (`Held`), and at the end these are the durations of the holders put together.

**ResultsStore and ResourceLog** (`ResultsAssumption`: finitely many workers, at least one session;
`ResourceLogAssumption`). `ResultsInduction`, `EachObservationOnce`, `LogInduction`, `StreamIsKept`, and of both
`RecordsAreKept` (`RecordsKept`). That a reader finds an observation once cannot be
kept through a merge, in the middle of which it is in two files; it is what holds between merges. The
invariant says where observations are at each stage. While the shards are folded, each is in a shard or in
what the canonical file had before, which is why a merge that breaks off with half its text written loses
nothing; once shards are deleted, each is in the canonical file (`FoundInv`). A shard that is still to be
folded shares nothing with the canonical file, and one behind the deletion shares nothing but what stayed
(`ApartInv`). Of the log, an event is in one list only (`EventInv`), and a list that was swapped out is one
thread's, who stores it once, or stored, or given up for a reason the property names (`TakenInv`); what was
stored is there unless its key was used again (`StoredInv`); a thread that has made its last event leaves none
in the buffer (`LastInv`); and a thread by itself finds its list where it left it and uses no key twice
(`AloneInv`).

**Only model-checked:** liveness (`NeverWedged`, `LifecyclesEnd`, `StopReclaims`, `RunnersEnd`, `SkipEnds`,
`WorkIsServed`), which is beyond the prover. Every other property of the passing runs is a theorem. What the
recursive functions of a cost and of what a node reaches (`Cost`, `Reached`) compute is not stated by any property.
The violation runs show disagreements, and are not theorems.

## 5. Where the code and its documentation disagree

1. **A crash inside `_write`** (`core/budgets.py` 190-191, run `sem_torn`). `write_text` truncates the state
   file first; a process killed then leaves an empty file, which `_read` takes for "no holders": all slots of
   live processes are granted again. The class comment promises that a crash cannot disturb the count.
2. **The slot of a living VPC is released** (`engine.py` 1330-1346, 1890, run `engine_polled`).
   `_release_vpc_for_path` runs after *any* successful step whose path is `/v1/vpcs/{id}`. The first readiness
   poll frees the slot. What the passing run keeps is `UnaddressedWithinCap`: VPCs no step has addressed yet.
3. **No slot at all** (`dag_scheduler.py` 119, 171-181, run `dynsched_no_slot`). When the shared VPCs use up the
   cap, `run_dynamic` waits forever for a self-creator that never fits; the planner it is a drop-in for still
   runs one at a time.
4. **A stop that fails** (`console2_server.py` 1824-1825, `engine.py` 1016, 1065-1084, 1877, run
   `commands_wait`). A required wait that is left unmet by the console's stop fails the lifecycle before the
   skip is looked at: it is torn down all the same, but reported as failed. `SkipEnds` still holds.
5. **A forced cleanup does not keep runs out** (`console_api.py` 386, run `console_forced`). It looks for runs
   once; one that is launched a moment later has its resources swept while it works.
6. **One failed LIST hides a collection** (`reconciler.py` 250-264, 816, run `sweep_converged`). It reads as
   empty, is marked as converged and is not listed again, where a comment says that the mark can never skip
   a real deletion.
7. **A creation that passes unready** (`engine.py` 1053-1067, run `step_refired`). Waits with a refire are let off
   at their deadline because "timeout is their success" for failed deletions; but 287 waits of creations have
   one, such as `database__postgresql.json` 1089-1113.

### Seen while modelling, not shown by a run of their own

* *Requests.* `_run_step` sends a POST again after any `ConnectionError` (`engine.py` 816-829), also one that
  broke after sending, and the client after 502 to 504; `http_client.py` 50-56 reserves that to requests that
  "provably never reached the server".
* *Native runner.* The resync overwrites units that creators hold; a VPC is returned by its DELETE step and by
  the teardown (1395) again; one networking VPC needed is planned for as two. If the scan of the needs fails,
  adopters do not wait, the join gives up after a minute and the shared VPCs are left to the sweep.
* *Waves and dynamic scheduler.* A wave of one runs outside the pool, so up to three lifecycles more are in
  flight; a degenerate cap is exceeded by one VPC; peering takes one slot for two VPCs; `provision` that
  raises after some roots are up is not followed by a teardown.
* *Console and worker.* A dispatch that fails leaves an unbound record that the next foreign run is bound to;
  a worker that dies leaves its row at "running"; a restart forgets that the end sweep ran; a rescan may raise
  a false late alert when another run works during its scan.
* *Cron.* A mark that raises lets the window be launched again, and one schedule's error ends the pass for
  those after it; a window between the start of a pass and its mark is lost.
* *Sweep.* Deletions that only the blast or uncounted passes had accepted do not count, so that a round that
  made room may be the last; at the cap on rounds there is no leftover report. Two passes delete without asking whose an item
  is (2470-2494, 2253-2306), on the ground that the account is used for nothing else; a log group that had a
  DELETE in an earlier round, whatever the answer, is called stuck behind an IAM gate. The worker's sweep is there
  "so nothing strands" (`worker.py` 399), but its exit code and timeout are not looked at (407), so that a run may
  be "done" with its resources left; and a run with mutations and without "destructive" is swept by a
  reconciler that deletes nothing. `suites.py` 87-91 refuses such a suite, but only as a validation that the worker
  never runs, and the options of a run can turn the gate off later (288-291).
* *Local run.* A missing runner skips the teardown although `provision_shared` made the shared VPC before; when
  `provision_shared_vpc` raises, no id is recovered, although a comment says so; the shared teardown's
  subnets are deleted once, before what the reap left in them may be gone. The reap's `_ORDER` (`run_scoped.py`
  29-34, 91) puts the collections it does not list, servers among them, after the VPCs, so that what is inside
  may be reaped after what it is in; and though "nothing raises out" (74), the DELETE of a VPC's subnet and the
  VPC's second one (137-140) do, which ends the reap of everything that is left.
* *Authoring.* With overlapping edits a refused text can stay and an accepted one be lost, although the
  docstring says the original is restored byte for byte; a commit can take in another request's text.
* *Composer.* The preference for what is in the bundle can pick the consumer itself, and refuse a cycle where
  another branch would do.
* *Results and log.* A shard that cannot be read is deleted all the same, and a merge that breaks between folding
  and deleting doubles observations in the next, though it calls itself idempotent; the per-process sequence
  that "disambiguates" the keys of events (`oplog.py` 463-466) is raised first and read later, so that two
  threads can use one key.

## 6. Not modelled

* **Specification and conformance** (`spec`, `conformance`, `audit`, `dashboard`, `knowledge`, reports): batch
  scripts that read documents and write reports. They keep no state that outlives them and nothing runs beside
  them; most of the repository's lines are there.
* **Views and drafts**: pages, graphs, previews, AI drafting and its pipelines render or transform what they
  are given, or call external services.
* **Engine**: adoption, probes and context transformations before and between steps; the bodies of steps.
* **Console**: plans, suites, event views, read-only scans. **Cleanup**: `verify_clean`, further passes that
  treat their items like a modelled one, other bulk deletions, the ledger reclaim. **Composition**: `validate_dag`, the loader, the texts
  of steps. **Logs**: milestones, index, assets, console events and snapshots, one file or upload each.
  **Client**: signing, versions, connection pools.

## 7. Plan

1. **Refinement**: the engine over VpcSemaphore itself instead of its promise, now that both sides of it are proved.
2. **Further parts** as they gain concurrency: adoption in the engine's model, `verify_clean`.
