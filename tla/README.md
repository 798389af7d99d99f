# Formal model of Scylla Manager

Scylla Manager is a server that runs the maintenance of Scylla clusters. It keeps
the definitions of tasks (repair, backup, restore, health check, suspend, ...) in its
own database, activates them by cron, retries and continues them, and drives the
nodes of the cluster through the Scylla API and an agent on every node. This
directory models its core in TLA+: the scheduler, the service around it with its
status protocol and suspension, the policy that keeps tasks apart, maintenance
windows, the repair, the backup with its purge, the restore, and the records and
caches of a cluster. `PROJECT.json` maps every definition that models code to
its source lines, and lists the runs, the mutants (plausible bugs that make each
property fail), the hazards and the theorems.

Paths are relative to the repository. To check: `tlc -config X.cfg M` for the runs,
`tlapm M.tla` for the modules with proofs.

## 1. Inventory of the system

### pkg/scheduler: the generic scheduler
*State*: under one mutex a priority queue of activations with an index by key, the
details of known keys (trigger, backoff, window, properties), the cancel functions of
running keys, `closed`; a one-slot `wakeupCh`; a wait group.
*Operations*: `Schedule`, `Unschedule`, `Trigger`, `Stop`, `Close`, `Wait`; the main
loop `Start` (Top, unlock, sleep, lock, Pop, run); one goroutine per run, which calls
the `RunFunc` and then `reschedule` (continue after the window, retry by the backoff,
or the next activation of the trigger).
*Hard*: everything between two lock sections - the loop sleeps on an activation read
before; a run is registered before its goroutine exists and leaves after reschedule;
the trigger and backoff objects hide state that survives activations.
*Correct when*: a key has one instance, none is lost, the loop never oversleeps and
exits when closed, stops are final, cron points are not skipped, failures are retried.

### Triggers, backoff, windows
Pure values asked by the scheduler: `once`, `multi`, `legacy` and `cron` triggers
(`v3/pkg/util/schedules`), the bounded exponential backoff, and the weekly window
(`window.go`), built by expanding, sorting and joining slots around the end of the week.
*Correct when*: a task never runs outside its slots, and starts at the closest one.

### pkg/service/scheduler: the service
*State*: tables `scheduler_task` and `scheduler_task_run`, the drawer with the record of a
suspension; in memory, under `mu`, one scheduler per cluster, `suspended`, `runs`
(task to current run), `taskLWTMu`, `noContinue`, the resolver of task names.
*Operations*: `LoadTasks`, `PutTask`, `StartTask`, `StopTask`, `DeleteTask`, `Suspend`,
`Resume`, `Close`, and `run`, the RunFunc of every key: row RUNNING, runner, final row.
*Interaction*: calls of the REST API, runs of the schedulers (one of them, the suspend
task, calls `Suspend` itself), restarts. A call drops `mu` between looking the scheduler up
and using it, and row writes happen outside of it.
*Hard*: StopTask's STOPPING against the run's final status; suspension that replaces the
scheduler while old runs are still on; crashes between two rows; failing statements.
*Correct when*: a final status stands, a run is never left RUNNING, a suspended cluster's
scheduler holds no task but the allowed ones, no task executes twice.

### The execution policy
`TaskExclusiveLockPolicy`: a lock map by cluster and task type, taken by `PreRun` and released by
`PostRun` of `PolicyRunner`. Same types exclude each other, restores exclude all, a general
repair may share the cluster with a tablet repair only when limited to vnode keyspaces.

### pkg/service/repair
*State*: tables `repair_run`, `repair_run_progress`, `repair_run_state` (the ranges repaired so
far, by which a run continues the previous one); in memory the progress manager, the
generator with the todo ranges of its table, the controller's counters, the worker pool, and
the intensity handler by which users change a running repair.
*Operations*: `Repair` (plan, state, progress, pool, generator, end), `newJob`, `processResult`,
the workers' `HandleJob`, `SetParallel`, the graceful stop.
*Hard*: generator, workers, users and the scheduler's cancel interleave; runs crash between
any two rows; a worker may outlive its run; one job repairs a whole small or tablet table
and the others only record.
*Correct when*: a node has one job at a time, no run hangs, recorded ranges are not repaired
again, and a completed repair repaired everything.

### pkg/service/backup
*State*: `backup_run` and its progress rows; on the nodes, snapshot directories and the upload jobs
of the agents; at the location, which tasks and clusters share, sstable files, older versions of
files that were replaced (named by the tag of the snapshot that replaced them), manifests, temporary
until the backup is complete, and schema files.
*Operations*: `Backup` (resume or a new run; snapshot, await schema, index, manifest, schema,
deduplicate, upload, move manifest, purge), `PurgeSnapshotTags`, `DeleteSnapshot`, `Validate`,
`DeleteLocalSnapshots`.
*Hard*: an upload moves files, so that what is on the node is no longer what was snapshotted; an agent's
job outlives the manager; a resumed run goes back to an earlier stage; a purge decides on a listing and deletes by
manifests read later; what one backup uploaded is what the next one deduplicates against.
*Correct when*: every listed backup can be restored, with the content its node had, until its removal is
decided; purges keep what the retention asks for and leave nothing behind; no run waits for ever.

### pkg/service/restore
*State*: `restore_run` (stage, the views and tombstone_gc modes found by the first run), `restore_run_progress`
(a row per batch); in memory the batch dispatcher: sstables left, counters by data center, failed data centers
by host, a channel on which idle hosts wait; in the cluster, views, tombstone_gc modes, compaction and CPU pinning.
*Operations*: the stages of `tablesWorker`; per host in DATA: disk check, `DispatchBatch`, download and
load-and-stream or a native restore task, `ReportSuccess` or cleanup and `ReportFailure`.
*Hard*: hosts wait for batches that others may give back; rows decide what a continuing run leaves out; only the first run
can read the schema that all have to give back.
*Correct when*: a restore that got past DATA restored every sstable, nobody waits in vain, loaded data is protected until
the repair, and the cluster is left as it was found.

### Cluster service, client and configuration caches
*State*: the row of a cluster, its secrets (up to three kinds), its automatic tasks; `CachedProvider`, one
object with a mutex and a client per cluster; `configcache`, a map of node configurations.
*Operations*: `PutCluster`, `DeleteCluster`, deletion of credentials, the listener `onClusterChange`; `Client`, `Invalidate`; the periodic
update, updates forced by calls and, for the live nodes only, by backups.
*Hard*: no lock spans row, secrets, tasks and caches; making a client takes seconds and writes the known hosts; updates of
the configuration store what they began to collect earlier.
*Correct when*: a client made from an old row is not used after an update returned, a failed put restores
the secrets, a deleted cluster is gone, and the cached configuration catches up.

### Not modelled
* `tablet repair`: a sequential loop over tables. `one2onerestore`: parallel workers that share only progress rows.
* `healthcheck`, most of `restapi` (decode and call), of `scyllaclient` and of `cmd`, `rclone`, `managerclient`, `metrics`, `downloader`,
  migrations, formats: I/O, parsing or generated code without a protocol of their own. Most of the repository's lines are here: `v3/swagger` alone is generated
  clients and models.

## 2. Plan

Order: the scheduler, on which everything runs, with its proofs; windows; the policy and its
proofs; the service; the repair; the backup and its purge; the restore, its dispatcher and their proofs; the
clusters; the abstract specification of a scheduler that `Scheduler` implements and `TaskService` relies on. These are
done. Next:

1. Proofs: `NeverOutside` of `WindowJoin`, as far as the fold and the sort of NewWindow allow; the purge of `Backup` when a deletion
   overlaps a backup of another task.
2. The native upload of `Backup` and several locations; the restore of the schema; tablet repair and the
   1-1 restore.
3. Liveness of `Repair` and `Backup` (every run ends), for which `NeverStuck` stands now.

## 3. Modules

| module | models | EXTENDS / INSTANCE |
|---|---|---|
| `Schedules` | triggers: `TriggerNext` | Integers |
| `Window` | slots, `WeekdayTime.Next`, `Window.Next` | Schedules |
| `WindowJoin` | `NewWindow`: validate, expand, sort, join; all small windows | Window |
| `SchedulerPromise` | abstract: what a scheduler promises its user, the life of a key between Schedule and Unschedule | |
| `Scheduler` | pkg/scheduler; implements `SchedulerPromise` | Schedules, Window, INSTANCE SchedulerPromise |
| `MCScheduler`, `MCSchedulerLive` | instances; bounded callers for liveness | Scheduler |
| `SchedulerProofs` | theorems about `Scheduler` | Scheduler, TLAPS |
| `Policy`, `PolicyProofs` | the lock policy and its theorems | |
| `TaskService`, `MCTaskService` | pkg/service/scheduler for one cluster | INSTANCE Policy, SchedulerPromise |
| `TaskServiceProofs` | theorems about `TaskService`, among them that it implements `Policy` and that its schedulers follow `SchedulerPromise` | TaskService, TLAPS |
| `Repair`, `MCRepair` | pkg/service/repair over the runs of one task | |
| `RepairProofs` | theorems about `Repair`: jobs and continuation; completion | Repair, TLAPS |
| `Purger` | decisions of purger.go, versioning.go, list.go on the contents of a location | |
| `Backup`, `MCBackup` | pkg/service/backup: runs of several tasks, agents, other calls, one location | Purger |
| `BackupProofs` | theorems about `Backup`: types, retention | Backup, TLAPS |
| `BackupRestorableProofs` | theorems about `Backup`: what is listed can be restored | BackupProofs |
| `Dispatcher` | batchDispatcher of batch.go, with its own abstract specification `DispatcherSpec` | |
| `Restore`, `MCRestore` | pkg/service/restore: runs of one task; implements `DispatcherSpec` | Dispatcher |
| `RestoreProofs` | theorems about `Dispatcher` and `Restore` | Restore, TLAPS |
| `Clusters`, `MCClusters` | cluster service, CachedProvider, configcache, onClusterChange, for one cluster | |
| `ClustersProofs` | theorems about `Clusters` | Clusters, TLAPS |

**Scheduler.** A step is a section under `Scheduler.mu`, the select of `sleep`, the start of a
goroutine, or the return of a RunFunc. The heap is a function from keys to activations with
the key at its root; which of several equal minima becomes the root is left open. Time is a
clock in nanoseconds that moves by `ClockStep`, so that "now + 1 ns" in reschedule is not a
point of the grid. `run[r]` is the RunContext and goroutine of a run: popped or triggered
(registered under the lock, not started), executing, returned. The details of a key carry
what its trigger (`fired`) and backoff (`tries`) hide.

**SchedulerPromise.** A key is unknown, queued or running, its trigger is what it will still yield (`once`: a NewOnce not asked yet; `rest`:
whether there is always, sometimes or never another activation). There are no times, activations, wakeups and goroutines. A running key may be scheduled anew; when its run ends
it is queued at once if its window closed, for a retry if the run failed and was not stopped, else as the trigger says, and it is forgotten only if the trigger may have no next activation.
`late` allows a closed scheduler one more run, which the main loop starts when Close comes between its sleep and its pop. `Scheduler` maps its queue, details, contexts and
the place of its loop to it (`KeepsPromise`), and `TaskService`, which sees no more of a scheduler than that, each of its schedulers (`SchedulersKeepPromise`). So one
module says what the service may expect of pkg/scheduler, and both sides are held to it. The refinements say that neither does more than the promise; that the schedulers
of `TaskService` can do all that those of pkg/scheduler can is by construction of their actions only.

**TaskService.** The schedulers are abstracted to what `Scheduler` shows of them: a queued key
that is not running may start at any time, a closed one at most once more. A step is a
section under `Service.mu`, one statement, or one call of a scheduler, so that the state a
call read before is stale when it goes on. `Crash` and `Exit` lose everything but the tables
and the drawer; `Fault` makes a statement fail. `LocksFollowPolicy` maps its locks and runners to
`Policy` and has TLC check that every step is one of Policy's or leaves both alone.

**Repair.** One task, runs numbered by `cur`; `rows[r]` are the rows of run r, `mem[r]` its progress
manager. Jobs go queued (channel), handled (by a worker), answered (Scylla's answer known, not yet
recorded), result (channel). A normal job repairs its ranges, a small or tablet job the whole table,
a skip job nothing. Batching and intensity decide how many ranges a job gets: any of `Intensities`.
The ring's order is random in the code (a Go map), so any replica set that may be taken can be
first. `since`, `repaired` and `scratch` are history: the first run of a chain of continuations, what the chain
repaired, and the runs that were to start from scratch. What disturbs a run (failure, crash, stop, SetParallel, dropped table) counts as an event.

**Backup.** A tag is the time of its snapshot, a file stands for the files of an sstable and equal content for an equal digest.
`Snapshots` says what a node's snapshot may hold; `snap` is history and says what it did hold, which `Restorable` compares with what
`ListVersionedFiles` of the location gives. The stages are steps of each node, so that nodes are at different points when a run
is disturbed; `jobs` are the agents' and survive `Crash`. A run row has the stage its resumption starts from. A purge is a decision (`StaleTags` on the
listed manifests) followed by the removal of one manifest after the other, its files first.

**Restore.** A step of `Dispatcher` is a method under its mutex; a host that found nothing is in `asleep` until the channel
it holds is closed. `Restore` adds where each host is with its batch, the rows, the stages and the schema of the cluster. What fails, stops or
crashes counts as an event. `unrepaired` and `logged` are history.

**Clusters.** The row is the number of the write that made it, `Bare` if only known hosts are in it. A call goes through its statements one by one;
callers of `Client`, the ticker's update, an update for each call that nobody waits for and a backup's come in between. `acked` is the newest write whose call
returned: who asks after it `need`s a client at least as new.

## 4. Runs

Passing:

| run | what it shows | bounds |
|---|---|---|
| `scheduler_interleavings` | `SingleInstance`, `NothingLost`, `NoMissedWakeup` under every interleaving of callers, loop and runs; `DueKeyRuns`, `ClosedLoopExits` under fairness | 2 keys, 2 runs, a one-shot and a cron task, 4 calls; two of each are enough for a key to be replaced at the head, run and be scheduled at once |
| `scheduler_sequences` | `StoppedStartsAfresh`, `ActivationsNotSkipped`, `KeepsPromise` over retries, windows, continuations, long runs | 1 key, 6 clock steps, one retry: a run, its continuation and its retry fit before the next points |
| `window` | `NeverOutside`, `ClosestOpenSlotMostly` for all windows of up to 3 slots, at all times of two weeks | a week of 3 days of 2 units: slots over midnight and over the week's end, nested ones and chains of 3 occur |
| `policy` | `SharedSafely`, `LocksMatch` | 2 clusters, 3 concurrent runs, 4 types |
| `task_stop` | `FinalStatusStands`, `ListedRunIsOn`, `LastRunIsSettled` | 1 task with a window, 2 concurrent calls of start, stop (and disable), delete, 2 runs, one restart, one failing statement |
| `task_suspend` | `SuspendedSchedulerIsClean`, `OneRunnerPerTask`, `LocksFollowPolicy`, `SchedulersKeepPromise` | a repair and a suspend task, one call of start, put, suspend, resume beside their runs, 3 schedulers, one failing statement |
| `repair` | `OneJobPerNode`, `ContinuedNotRepeated`, `CompletedIsRepaired`, `NeverStuck`, `TypeOK` | a normal and a small table, 4 replica sets (two disjoint, one meeting both, one filtered out), 3 runs, 2 events, up to 2 jobs in parallel, one completion: a partial run, one that does not get started, and one that continues the first fit |
| `backup` | `ListedIsRestorable`, `NoOrphans`, `RetentionKept`, `NeverStuck`, `TypeOK` | tasks with 2 runs and 1 run, a retention of 1 and of one day, a node with 2 files of which one changes and one comes and goes, a node without files, 3 tags, one event, one deletion or validation between backups: a file is uploaded, deduplicated, replaced and purged, and a run resumed |
| `restore` | `NothingSkipped`, `ClusterIsBack`, `LoadedIsProtected`, `WaitsForSomebody`, `NoneLostNoneTwice`, and `RunEnds` under fairness | 2 hosts, one native, 3 sstables of 2 data centers in 2 directories, batches of one, 3 runs, 2 events: a batch fails on one host and is taken by the waiting one, and a continuing run meets completed and deleted rows |
| `clusters` | `ClientIsCurrent`, `SecretsRolledBack`, `DeletedIsGone`, `TypeOK`, and `ConfigCatchesUp` under fairness | 2 calls, 2 kinds of secrets, 2 callers of `Client`, 2 hosts, one event; `Scenes` picks what there is beside the calls: callers of `Client`, secrets, updates, or secrets and updates in one call. At most 2 things are on when another one comes (`MaxBusy`), so three overlap |

`CHECK_DEADLOCK FALSE` is said where the bounds end the behaviour: the clock stops, calls and runs are
used up.

The type invariants of `Scheduler` and `TaskService` are in no run: `TypeCorrect` proves them for every value of the constants.

`ClosestOpenSlotMostly` is `ClosestOpenSlot` for windows without overlap or without a slot over Monday midnight, see below.
`ContinuedNotRepeated` excludes a worker that outlived its run (its record goes to a run
that was already continued); `CompletedIsRepaired` holds all the same. `ListedIsRestorable` is about tags whose removal was not decided and
whose local files nobody deleted before their upload; `DeletedIsGone` and `SecretsRolledBack` are about calls that met no other one.

Violated, each a disagreement of code and text described in `findings`:

| run | what happens |
|---|---|
| `backup_paused` | a backup stopped in UPLOAD, resumed and disturbed again while it indexes, is resumed from INDEX: its manifest lists only the files that were not uploaded before, and it ends as done |
| `restore_native` | a failed native restore task has an end time, which goes into its row as the completion; a crash before the cleanup makes the continuing run leave the batch out |

Disagreements met while modelling that have no run of their own.

*Scheduler and service.*
* Once the retries are used up the backoff is never reset: the next failure is not retried (scheduler.go:158; sctool_backup.yaml:108 says how many
  times to rerun a failed task).
* A slot over Monday midnight that overlaps another is not joined with it: `Next` answers late, or ends early (window.go:208 against the comment at 222).
* StartTask that looked up the scheduler before Suspend closed it starts a task in the suspended cluster (service.go:700; sctool_suspend.yaml:9 and 11).
* `s.runs` has one entry per task: the late end of a run of a replaced scheduler deletes the entry of the new run, and
  StopTask then returns without stopping it (service.go:521 against the comment at 708).
* Resume between Suspend's section under `mu` and its `drawer.Put` finds no cancelled tasks and starts none; the late record
  suspends the cluster again at the next start of the server (service_suspend.go:244, logged at 351).
* Suspend lists the tasks before it takes the lock (service_suspend.go:186); Resume returns at the first task it cannot schedule, the cluster marked as resumed (364).
* A STOPPING written between `s.runs` and the first row is overwritten by RUNNING (service.go:498). The row of a run and the status of its task are two writes
  (564), as are PutTask's row and schedule (389).
* The main loop compares only the key after its sleep: a key scheduled anew for later runs early (scheduler.go:374). Close does
  not cancel runs registered after it. `retno` is an int8 and wraps around after 127 retries; it is only logged.
* `Window.Next` at the very end of a slot gives a run an expired deadline (window.go:96).
* The mark to start from scratch is used up by a run that the policy refuses (service.go:456); DeleteTask does not stop the run.

*Repair.*
* A tablet table whose repairing job failed in two runs is recorded as repaired by the skip jobs of the two, and the third run completes without
  any repair (progress.go:356, generator.go:172). `Tablet = {t1}` shows it.
* A small table whose only repairing job failed and that is not small any more when the repair continues is not repaired in the
  ranges its skip jobs recorded (plan.go:244; `SmallSets = {{}, {t1}}` shows it).
* `MaxRingParallel` divides the nodes of a datacenter by the replication factor: when no repaired keyspace fits its nodes, MaxParallel is 0
  and a repair with the default parallel waits until it is stopped (controller.go:75). `RepairAssumption` excludes it; without, `NeverStuck` fails.

*Backup.*
* Validation with `--delete-orphaned-files` beside a backup deletes files that the backup has just deduplicated against; sctool_backup_validate.yaml:8 says
  "It is safe to run backup and backup validation at the same time." `Beside = {"validate"}` makes `ListedIsRestorable` fail; so does `Beside = {"delete"}`, a deletion
  that removes what a backup deduplicated against.
* `MoveManifest` takes a manifest that is already in place for an error (worker_manifest.go:238, inverted): a run resumed after some were moved fails every time.
* A run resumed from INDEX or MANIFEST skips AWAIT_SCHEMA and ends as a backup without a schema.
* `uploadSnapshotDir` returns without an error after ten lost jobs (`BackupAssumption` excludes it); `attachToJob` is never reached by a resumed run, which starts a second job.
* Manifests moved by a run that then failed count towards the retention. A run that cannot be resumed is skipped for an older one, whose local snapshot
  may be deleted already.

*Restore.*
* `clonePrevProgress` returns at the first row that is not finished, so that finished ones after it are restored again.
* The deferred `setAutoCompaction(true)` stops at the first host that fails, and the failure is only logged (`logged`). So are failures to insert or delete rows.
* The loop over stages does not look at its context between stages that are statements.

*Clusters.*
* A client in the making writes the known hosts of a deleted cluster and so brings its row back (service.go:321); `DeletedIsGone` allows exactly this row. An update of the
  configuration in the making stores it after RemoveCluster.
* `ForceUpdateCluster` with hosts, as backups call it, replaces the map by the configuration of these hosts alone; a slow periodic update overwrites a newer one. `ConfigCatchesUp` holds, since the
  next tick comes.
* Two puts with one name may pass the check and both be inserted. Secrets are put back also when the row was written (a failing listener), or over those of a concurrent put.
* Concurrent creates, and a create after a half failed delete, do not invalidate the cached client. An update that races a delete inserts the row
  again, without tasks; a crash between the row and its tasks leaves a cluster without automatic tasks.
* DeleteCluster that fails to delete the secrets returns with the row gone; over the REST API it cannot be repeated, so that cache, configuration and tasks stay.
* `CachedProvider.Close` calls a nil client of an entry that has not got one yet.

## 5. Fairness

`scheduler_interleavings`: weak fairness of the main loop, of the start of a registered run, of reschedule, of deadlines and
of the clock: they are goroutines and timers that are ready. Weak fairness of Return only for a run whose context is cancelled: the
RunFunc's contract says it "must return". Callers make finitely many calls, since one that schedules and unschedules for ever keeps the loop busy. A run that was not cancelled may execute
for ever.

`restore`: weak fairness of the worker, that is of its stages and hosts taken together: goroutines get to run, and a call, job or task of Scylla ends
or times out. None of a new run, of stops or of crashes.

`clusters`: weak fairness of every call's next step, of each client in the making, of each caller of `Client`, of each update, and of the ticker. Nobody has to call.
Events are bounded, so that they end, as `ConfigCatchesUp` says in its condition.

`NeverStuck` of `Repair` and `Backup` uses no fairness: in every state of a run (of `Backup`: that waits for an upload) one of its goroutines, timers or
jobs can make a step that is no failure.

## 6. Proofs

**SchedulerProofs** proves, for any keys, runs, details, windows, triggers and clock bound, `Spec => []IInv` and from it `TypeCorrect`,
`SingleInstanceCorrect`, `NothingLostCorrect`, `NoMissedWakeupCorrect`, `RunHasPropertiesCorrect`. The four properties are not inductive by
themselves: `SingleInstance` needs that an entry of `running` belongs to a live run of that key (`RunningIsLive`, `LiveHasKey`), else an
ending run could clear another's entry; `NoMissedWakeup` needs that the root of the queue is one of its earliest activations
(`HeadIsEarliest`), because Push and Remove wake the loop only when the root changes; the pop needs `LoopKeyKnown`. `NothingLost` gives
`RunHasProperties`: a queued key has details. `IInv` is their conjunction. One lemma per action shows it is kept; `PushFacts`, `RemoveFacts`, `ScheduleLockedFacts`
and `NewRunFacts` state once what the shared sections do, `TriggerNextType`, `WindowNextType`, `ToInt8Type` what the pure operators return.
The only assumption is `SchedulerAssumption`: cron periods and the clock step are positive, delays natural numbers, `None` is none of the other values.

Its two action properties follow from `IInv` and from what a step that ends a run and queues its key can be (`EndIsReschedule`: it is the
`Reschedule` of that run, with details and before Close; `QueuedWith`: the activation is made of the arguments of scheduleLocked).
`StoppedStartsAfreshCorrect` needs no more: a cause once set stays, and "stopped" rules out both branches that continue.
`ActivationsNotSkippedCorrect` needs that `Next(initial + 1 ns)` leaves no activation out: that of 1 ns after the initial one would be.
It has the hypothesis `OnClock`: every date and duration of the callers is a whole number of clock steps, and a step is longer
than 1 ns. Then everything the queue and the runs know of time is a time of the clock (`TimesOnGrid`, inductive with `IInv`; `TriggerNextOnGrid`,
`WindowNextOnGrid` are its lemmas on the pure operators), which an activation of a cron trigger is, too, and 1 ns after one is not.
The runs' instances satisfy `OnClock`. In the code the clock is finer: a run that began by Trigger 1 ns before a full second would skip the activation of that second.

`KeepsPromiseCorrect`: `Scheduler` implements `SchedulerPromise`. One lemma per action shows that it is a step of the promise or is not seen (`TriggerKeeps`, `WindowEndsKeeps`,
`LoopPopKeeps`, `RescheduleKeeps` and so on; `SeenUnmoved`, `UnseenKeeps`). The step that matters is the end of a run: scheduleLocked drops the details of a key whose next time is zero, so that a key with a
periodic trigger stays only because no time that reschedule computes is the zero time. This needs `TimesPositive`, inductive with `IInv`: the clock is past the zero time and nothing was due before it. With it
`AfterRunCases` says for each branch of reschedule whether the key is queued or dropped. The names of the abstract values are told from `None` by `PromiseAssumption`.

**PolicyProofs** proves for any clusters, calls and types that `TypeOK /\ LocksMatch /\ SharedSafely` is inductive. `SharedSafely` needs
`LocksMatch`: PreRun decides by the lock map alone, so exclusion of runs follows only when the map has exactly the runs between PreRun and PostRun.

**RestoreProofs** proves in three layers.
The dispatcher alone (`DispatcherSafe`): `DInv` says that the counters by data center count what is left or in a batch (`NoneLostNoneTwice`), that a batch is of one data
center, so that a report changes the right counter, and that a sleeping host is not done and can take nothing (`SleepersCannotTake`). `WaitsForSomebody` follows: a
counter that is not zero means an sstable that is left, which the sleeper could take, or in the batch of another host. `RestoreImplementsDispatcher` shows that
each step of `Restore` is one of `DispatcherNext` or leaves the dispatcher alone, so that both hold for the restore (`NobodyWaitsInVain`, `EveryBatchIsAccounted`).
The schema (`SchemaInv`, `NodesInv`, `OnlyInData`): what a stage can rely on, in the row as in the run, whichever run reached it; this gives `DoneIsBack` and `LoadedIsSafe`.
The data (`RowsInv`, `CoverInv`): a completed row is about restored sstables but for a native batch being cleaned up, and in DATA what is not restored is left or in a batch; this gives `NothingIsSkipped`
under `~CrashInCleanup`, the case of `restore_native`. All are for any hosts, data centers, tables and finite set of sstables, any number of runs and events, from `DispatcherAssumption` (an sstable has
one data center, a directory too) and `RestoreAssumption`.

**TaskServiceProofs** proves for any tasks, callers, runs, schedulers, restarts and failing statements, from `TaskServiceAssumption`:
* `TypeCorrect` and `ListedRunIsOnCorrect`. A call is at a statement with the values it read before, so `ProcType` says which statement knows of
  a task, a scheduler or a run. An entry of `runs` is of a live run: a run takes the entry of its task out before it puts its final row.
* `OneRunnerPerTaskCorrect` and `LocksFollowPolicyCorrect` from `LocksInv`: the lock map has exactly the runs between PreRun and PostRun. A step that touches
  locks or runners is one of `Policy`'s; the others leave them alone, or end the process and with it both.
* `SuspendedSchedulerIsCleanCorrect` from `SuspendInv`: schedulers not made yet are empty and unknown to everybody (`NewerIsEmpty`), and who looked up the scheduler of a
  suspended cluster did so for a task that may run (`LookedUpIsAllowed`). This is why it does not matter that Trigger and Schedule happen after `mu` is released: they go to the old scheduler.
* `LastRunIsSettledCorrect` from `SettledInv`: without failing statements a row that says RUNNING is of a run that has not put its final status,
  or was left by a crash and is of a task that LoadTasks has not come to yet.
* `FinalStatusStandsCorrect` from `FinalInv`: the mutex of a StopTask is held by the call until its statements are done, then by the run (`MutexInv`), so that
  the run it puts STOPPING over has not got to its final row (`StopInv`); while tasks are loaded, nothing is about one that is still to come (`LoadInv`). The last part
  fails in a cluster with suspend tasks, and so does the property, hence the hypothesis `Suspender \notin Types`: a suspend task that runs while the tasks are loaded
  starts a task whose turn in LoadTasks has not come; if a statement of that run fails it stays listed, LoadTasks marks its row ABORTED and a StopTask puts STOPPING over that. TLC
  finds this in 26 steps; it takes a failing statement and a restart.

* `SchedulersKeepPromiseCorrect` from `Apart`: a live run is the only one of its task in its scheduler, and its task is not queued there. `PromiseKinds` says what a step of the service is to the
  schedulers: a run that starts from the queue or by Trigger, a Schedule or Unschedule, a Stop, a Close, the end of a window, the return or the end of a run, or nothing. Each is a step of the promise of the scheduler
  it is about, looked up by whoever and however long ago, and leaves the others alone (`Elsewhere`). The end of the process ends them all. Here too `PromiseAssumption` only tells values from `None`.

**ClustersProofs** proves four theorems for any calls, callers, hosts and updates. `ClientIsCurrentCorrect`: `ClientInv` says which stamps are in order (a client or a job is of a write that was made), who has a job, and `FreshInv`: once an update is
acknowledged, the entry of the cache that new callers find has a client as new as it, or none, and whoever is making one for it read the row after the write. This needs the objects of the cache: `Invalidate` replaces
the object, so that a caller still holding the old one's mutex stores its old client where nobody looks. A counting argument shows that `Invalidate` always finds an unused object among those of the model.
`SecretsRolledBackCorrect` and `DeletedIsGoneCorrect` from `CallsInv`: as long as a call met no other (`Alone`), what a put does not undo when it fails is as it was before, and what a
deletion removed stays removed. Calls that met another are in neither property: there the code makes no promise. `ClustersTypeCorrect` needs that a call writes the row once (`Written`), which bounds the stamps.

**RepairProofs** proves `TypeCorrect` and `OneJobPerNodeCorrect` from `ControlInv`: the controller's counters count the jobs of the current run between Submit and
processResult (`Controlled`), jobs left behind by earlier runs are in the hands of workers and not counted (`JobsInTime`). `ContinuedNotRepeatedCorrect` from `ContinueInv`: what
a run recorded its continuations have, too (`Chained`), the row is behind the memory (`RowBehind`), ranges of jobs, of the todo and of memory are apart (`RangesApart`),
jobs are of the generator's table (`JobsOfTable`). Which run is continued is the last one that qualifies: a least-number argument (`LeastNat`, `GreatestInt`) over runs.

Its second part proves `CompletedIsRepairedCorrect`. `CompletionInv` says that tables the generator is past are recorded and that nothing of the present one is missing (`NothingSkipped`), that
a job which answered repaired what it stands for (`JobsHonest`), that what is recorded of a normal table is repaired (`NormalKept`), and for small tables, of which one job repairs everything and the others only
record (`SmallKept`): as long as it is not repaired there is a planned range, a `Hole`, that is neither in memory nor in the row and that no recording job has or may get. The
hypothesis `SamePlans` excludes the two disagreements of section 4 (tablet tables; a table that is small in one run only), where the property fails.

**BackupProofs** proves `TypeCorrect` and `RetentionKeptCorrect`. Types are not inductive: that no two files share a path needs that the tag of a new run is later than all in use (`TagsInTime`, `TagIsNew`: a
run has its tag to itself until its snapshot is taken), and that what a job uploads was in the snapshot (`LocalIsHeld`). Retention needs that a tag is of one task
(`TagsOfTasks`): tags of several tasks in one location are decided on together, and a tag that two tasks had could go by the policy of either.

**BackupRestorableProofs** proves `ListedIsRestorableCorrect`. `SafeInv` has one part per thing that the code relies on, most of it without saying so:
* `ControlInv`: the last row of a task is that of its run, a tag whose manifests may have been moved is not continued from before, and only a new run, which has no previous stage, has a schema.
* `LeftInv`: the files of one snapshot are left on a node, that of the last tag of which there is a manifest or a row to continue, and no later file is at the location: `deleteOldSnapshots` sees to it. So what an old job
  still uploads is not older than what is there, and a rename by tag `t` takes nothing from a snapshot before `t`, but the newest version it is then looked up as.
* `UploadInv`: the index of a run past INDEX has what is left on the node, so that after UPLOAD nothing is left of the tag, whoever uploads. `ManifestInv`: of a task, tag and node there is one manifest; a regular one is of a run that got to moving it.
* `CallsInv`: a purge has in its list every manifest whose tag is not doomed, so that it reads them all before it decides on files, and keeps versions newer than the oldest of them; a validation knows the files of all manifests of its node.
* `SchemaInv`: from DEDUPLICATE on the schema that a manifest names is at the location.
* `FilesInv`: a file of a manifest, or of the index of a run about to write one, is on its node or found by `ListVersionedFiles` with the content the snapshot had.
  With `UploadInv` a regular manifest has no file left on the node, so all are found.

Its second part proves `NoOrphansCorrect` from `SafeInv` and `QuietInv`, which holds until the first fault:
* `RunQuiet`, `QuietRows`: without faults a run fails at most in INDEX, UPLOAD, MOVE_MANIFEST or PURGE (the directory is gone, or the regular manifest is there already), so only these stages are continued.
* `Fresh`: no run writes a manifest over another one, which might list what the new one does not. This is why INDEX must fail when the directory is gone: a continued INDEX is of a tag without manifests.
* `Emptied`: an UPLOAD is continued only when nothing of the tag is left, since it fails only when the directory is gone, so that what was left out of no manifest cannot be uploaded any more.
* `OwnJobs`, `LeftIsListed`: only jobs the run waits for have something to move, and what they move is listed, since the manifest is there before.
* `FilesListed`, `PurgesLeave`: every file is listed, and the files of a node whose manifests a purge is about to remove are listed by manifests that stay.

A single fault is enough to lose this: the manager crashes in UPLOAD, a purge of another task removes the temporary manifest that was left, and the job that the agent
still runs uploads what nobody lists any more (`OwnJobs` fails first; TLC finds it in 25 steps). So the property is about runs without faults.

`CallsInv` needs `Beside = {}`: a snapshot deleted, or orphans deleted by a validation, while a backup deduplicates against the files may take what the new manifest will list; the hypothesis is that of the runs. Nothing else is assumed but `BackupAssumption`.

Least and greatest elements of sets of natural numbers (`LeastNat` and the like) are proved where they are needed, so that Min, Max and CHOOSE over runs, rows and versions can be reasoned about; that is as far as induction over data goes here.

Only model-checked: liveness (`DueKeyRuns`, `ClosedLoopExits`, `RunEnds`, `ConfigCatchesUp`) and `NeverStuck`, which uses ENABLED: out of the prover's reach. What
sorting and joining of slots computes (`NeverOutside`, `ClosestOpenSlotMostly`: induction over sequences). Every other property of a passing run is a theorem.

## 7. What the models leave out

* Health checks (their runs share one row), the timed resume task of a suspend with a duration, one-shot tasks in `TaskService` (the
  scheduler has them), names and tags, lists, metrics, the cleaner of old rows. A failing LoadTasks is a crash: the server exits.
* Timestamps of `noContinue` marks; what continuation means to a runner other than the repair.
* Daylight saving and time zones: a week has one length.
* Repair: table sizes, sorting and master selection, displayed counters, AgeMax (a run that starts from scratch, `Continues`), the limit of
  20 looked-up runs, colocated tablet tables, killing of jobs at the nodes; blocking of full channels (their size is 10000).
* Backup: several locations and tables of a node, the native upload, the retention lock, alternator schemas, rate limits, progress. Restore: the schema, alternator,
  the index built from manifests, sizes (a batch takes any sstables of its pool, in the number the limits ask for), metrics, upload directories. Clusters: names, the known hosts
  themselves, sessions, reads of the configuration.
* The database is taken as linearizable and a statement either happens or not.
