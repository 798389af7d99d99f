------------------------------ MODULE Restore -------------------------------
(***************************************************************************)
(* The restore of tables of pkg/service/restore over several runs of one   *)
(* task that fail, are stopped or crash: the stages of tablesWorker, the   *)
(* hosts that restore batches of sstables in the stage DATA, what is kept  *)
(* in the database for the next run, and what the cluster is left in.      *)
(*                                                                         *)
(* The database of the manager does not fail.  The dispatcher is module    *)
(* Dispatcher.  Time, sizes in progress rows, metrics, the upload          *)
(* directories and the agent's jobs, of which only success or failure      *)
(* matters, are left out.                                                  *)
(***************************************************************************)
EXTENDS Dispatcher, Sequences

CONSTANTS
  Tables, Views,    \* of the backup; views of these tables
  DirRank, HostRank, \* the clustering order of directories and hosts
  Parallel,         \* hosts at work at a time, 0 for all
  AllowCompaction, UnpinAgentCPU,
  Continues,        \* values of --continue that a run may have
  CrashInCleanup,   \* TRUE if a crash may hit a native batch between failure and cleanup
  MaxRuns,
  MaxEvents         \* bound on failures, stops and crashes

ASSUME RestoreAssumption ==
  /\ AllowCompaction \in BOOLEAN /\ UnpinAgentCPU \in BOOLEAN
  /\ CrashInCleanup \in BOOLEAN /\ Continues \subseteq BOOLEAN
  /\ Parallel \in Nat

VARIABLES
  row,         \* the latest row of restore_run
  progress,    \* its rows of restore_run_progress
  tgc, views,  \* tables with their own tombstone_gc mode, views, in the cluster
  restored,    \* sstables whose data is in the cluster
  noCompact, unpinned, \* hosts without auto compaction, with an unpinned agent
  pc,          \* of Service.Restore
  run,         \* worker.run, and Continue of its target
  todo,        \* tables or views the stage has yet to go through
  ctx,         \* the context is cancelled
  failed,      \* DATA failed
  at,          \* where each host is in DATA
  unrepaired,  \* history: data was loaded after the last repair
  logged,      \* history: a deferred call failed, which is only logged
  runs, events

database == <<row, progress>>
schema == <<tgc, views>>
nodes == <<restored, unrepaired, noCompact, unpinned, logged>>
counters == <<runs, events>>
vars == <<dvars, database, schema, nodes, pc, run, todo, ctx, failed, at, counters>>

(* A plausible bug: tombstones are collected again before the repair. *)
EnabledTooEarly == <<"INIT", "DROP_VIEWS", "DISABLE_TGC", "DATA", "ENABLE_TGC", "REPAIR",
                     "RECREATE_VIEWS", "DONE">>

StageOrder == <<"INIT", "DROP_VIEWS", "DISABLE_TGC", "DATA", "REPAIR", "ENABLE_TGC",
                "RECREATE_VIEWS", "DONE">>
Index(s) == CHOOSE i \in DOMAIN StageOrder : StageOrder[i] = s
IsAfter(s, t) == Index(s) > Index(t)

NoRow == [stage |-> "NONE"]
NoRun == [stage |-> "NONE", tgc |-> {}, views |-> {}, continue |-> FALSE]

Init ==
  /\ DispatcherInit
  /\ row = NoRow /\ progress = {}
  /\ tgc = Tables /\ views = Views
  /\ restored = {} /\ unrepaired = FALSE
  /\ noCompact = {} /\ unpinned = {} /\ logged = FALSE
  /\ pc = "off" /\ run = NoRun /\ todo = {} /\ ctx = FALSE /\ failed = FALSE
  /\ at = [h \in Hosts |-> "new"]
  /\ runs = 0 /\ events = 0

(* A call to a node, an agent or the cluster fails, or something else disturbs a run. *)
Fault == events < MaxEvents /\ events' = events + 1 /\ UNCHANGED runs

(* A call with the context of the run fails, if only because it ended. *)
CallFails == Fault \/ (ctx /\ UNCHANGED counters)
CallReturns == ~ctx /\ UNCHANGED counters

(* The run returns. *)
End ==
  /\ pc' = "off"
  /\ run' = NoRun
  /\ todo' = {}
  /\ ctx' = FALSE
  /\ failed' = FALSE
  /\ at' = [h \in Hosts |-> "new"]
  /\ NewDispatcher({})

-----------------------------------------------------------------------------
(* Start and stages.                                                       *)

(* Rows are read in the clustering order up to the first unfinished one. A *)
(* host has one batch at a time, its last.                                 *)
clonePrevProgress ==
  LET Before(p, q) == \/ DirRank[p.dir] < DirRank[q.dir]
                      \/ (p.dir = q.dir /\ HostRank[p.host] <= HostRank[q.host])
  IN  {p \in progress : /\ p.completed
                        /\ \A q \in progress : q.completed \/ Before(p, q)}

(* A plausible bug: a run that starts over reads the cluster again. *)
ReadAgain ==
  LET prev == row.stage \notin {"NONE", "DONE"}
  IN  /\ pc = "off"
      /\ runs < MaxRuns
      /\ runs' = runs + 1
      /\ \E continue \in Continues :
           LET new == IF prev /\ continue THEN [row EXCEPT !.continue = TRUE]
                      ELSE [stage |-> "INIT", tgc |-> tgc, views |-> views,
                            continue |-> continue]
           IN  /\ run' = new
               /\ row' = new
               /\ progress' = IF prev /\ continue THEN clonePrevProgress ELSE {}
      /\ pc' = "setup"
      /\ UNCHANGED <<dvars, schema, nodes, todo, ctx, failed, at, events>>

(* init, decorateWithPrevRun and clonePrevProgress: the rows of the run    *)
(* become the latest ones with the insert of its own row, the last of      *)
(* them.                                                                   *)
Start ==
  LET prev == row.stage \notin {"NONE", "DONE"}
  IN  /\ pc = "off"
      /\ runs < MaxRuns
      /\ runs' = runs + 1
      /\ \E continue \in Continues :
           LET new == [stage |-> IF prev /\ continue THEN row.stage ELSE "INIT",
                       tgc |-> IF prev THEN row.tgc ELSE tgc,
                       views |-> IF prev THEN row.views ELSE views,
                       continue |-> continue]
           IN  /\ run' = new
               /\ row' = new
               /\ progress' = IF prev /\ continue THEN clonePrevProgress ELSE {}
      /\ pc' = "setup"
      /\ UNCHANGED <<dvars, schema, nodes, todo, ctx, failed, at, events>>

(* newTablesWorker. *)
Setup ==
  /\ pc = "setup"
  /\ UNCHANGED <<database, schema, nodes>>
  /\ \/ /\ CallReturns
        /\ pc' = "stage"
        /\ UNCHANGED <<dvars, run, todo, ctx, failed, at>>
     \/ CallFails /\ End

(* The loop of restore: the row has the stage before its function runs. *)
EnterStage ==
  /\ pc = "stage"
  /\ row' = run
  /\ todo' = CASE run.stage \in {"DROP_VIEWS", "RECREATE_VIEWS"} -> run.views
               [] run.stage \in {"DISABLE_TGC", "ENABLE_TGC"} -> Tables
               [] OTHER -> {}
  /\ pc' = "exec"
  /\ UNCHANGED <<dvars, progress, schema, nodes, run, ctx, failed, at, counters>>

NextStage ==
  /\ run' = [run EXCEPT !.stage = StageOrder[Index(@) + 1]]
  /\ pc' = "stage"

(* INIT has no function. *)
SkipInit ==
  /\ pc = "exec" /\ run.stage = "INIT"
  /\ NextStage
  /\ UNCHANGED <<dvars, database, schema, nodes, todo, ctx, failed, at, counters>>

Done ==
  /\ pc = "exec" /\ run.stage = "DONE"
  /\ End
  /\ UNCHANGED <<database, schema, nodes, counters>>

(* A statement for x out of todo.  A statement that fails, with a timeout, *)
(* may have had its effect.  It does not depend on the context.            *)
Statement(stage, x, Effect, NoEffect) ==
  /\ pc = "exec" /\ run.stage = stage
  /\ x \in todo
  /\ \/ /\ Effect
        /\ todo' = todo \ {x}
        /\ UNCHANGED <<dvars, pc, run, ctx, failed, at, counters>>
     \/ /\ Effect \/ NoEffect
        /\ Fault
        /\ End
  /\ UNCHANGED <<database, nodes>>

DropView(v) ==
  Statement("DROP_VIEWS", v, views' = views \ {v} /\ UNCHANGED tgc, UNCHANGED schema)

DisableTGC(t) ==
  Statement("DISABLE_TGC", t, tgc' = tgc \ {t} /\ UNCHANGED views, UNCHANGED schema)

(* To the mode that the run has recorded. *)
EnableTGC(t) ==
  Statement("ENABLE_TGC", t,
            /\ tgc' = IF t \in run.tgc THEN tgc \cup {t} ELSE tgc \ {t}
            /\ UNCHANGED views, UNCHANGED schema)

CreateView(v) ==
  Statement("RECREATE_VIEWS", v, views' = views \cup {v} /\ UNCHANGED tgc, UNCHANGED schema)

AllStated ==
  /\ pc = "exec" /\ run.stage \in {"DROP_VIEWS", "DISABLE_TGC", "ENABLE_TGC"}
  /\ todo = {}
  /\ NextStage
  /\ UNCHANGED <<dvars, database, schema, nodes, todo, ctx, failed, at, counters>>

WaitForViewBuilding ==
  /\ pc = "exec" /\ run.stage = "RECREATE_VIEWS"
  /\ todo = {}
  /\ UNCHANGED <<database, schema, nodes>>
  /\ \/ /\ CallReturns \/ (run.views = {} /\ UNCHANGED counters)
        /\ NextStage
        /\ UNCHANGED <<dvars, todo, ctx, failed, at>>
     \/ /\ run.views # {} /\ CallFails
        /\ End

(* repairSvc.Repair; see module Repair. *)
stageRepair ==
  /\ pc = "exec" /\ run.stage = "REPAIR"
  /\ UNCHANGED <<database, schema, restored, noCompact, unpinned, logged>>
  /\ \/ /\ CallReturns
        /\ unrepaired' = FALSE
        /\ NextStage
        /\ UNCHANGED <<dvars, todo, ctx, failed, at>>
     \/ CallFails /\ End /\ UNCHANGED unrepaired

-----------------------------------------------------------------------------
(* The stage DATA.                                                         *)

filterPreviouslyRestoredSStables ==
  SSTables \ UNION {p.sstables : p \in {q \in progress : q.completed}}

(* IndexWorkload. *)
IndexWorkload ==
  /\ pc = "exec" /\ run.stage = "DATA"
  /\ UNCHANGED <<database, schema, nodes>>
  /\ \/ /\ CallReturns
        /\ NewDispatcher(IF run.continue THEN filterPreviouslyRestoredSStables ELSE SSTables)
        /\ pc' = "compaction"
        /\ UNCHANGED <<run, todo, ctx, failed, at>>
     \/ CallFails /\ End

(* setAutoCompaction to false, host after host until one fails. *)
DisableAutoCompaction ==
  /\ pc = "compaction"
  /\ \/ /\ CallReturns \/ (AllowCompaction /\ UNCHANGED counters)
        /\ noCompact' = IF AllowCompaction THEN noCompact ELSE Hosts
        /\ pc' = "unpin"
        /\ UNCHANGED failed
     \/ /\ ~AllowCompaction /\ CallFails
        /\ \E H \in (SUBSET Hosts) \ {Hosts} : noCompact' = noCompact \cup H
        /\ failed' = TRUE
        /\ pc' = "enable"
  /\ UNCHANGED <<dvars, database, schema, restored, unrepaired, unpinned, logged, run, todo,
                 ctx, at>>

UnpinCPU ==
  /\ pc = "unpin"
  /\ \/ /\ CallReturns \/ (~UnpinAgentCPU /\ UNCHANGED counters)
        /\ unpinned' = IF UnpinAgentCPU THEN Hosts ELSE unpinned
        /\ pc' = "hosts"
        /\ UNCHANGED failed
     \/ /\ UnpinAgentCPU /\ CallFails
        /\ \E H \in (SUBSET Hosts) \ {Hosts} : unpinned' = unpinned \cup H
        /\ failed' = TRUE
        /\ pc' = "pin"
  /\ UNCHANGED <<dvars, database, schema, restored, unrepaired, noCompact, logged, run, todo,
                 ctx, at>>

Returned == {"ok", "err"}

(* Plausible bugs: what no host could restore is not looked for; a host    *)
(* that fails does not report back.                                        *)
NothingValidated ==
  /\ pc = "hosts"
  /\ \A h \in Hosts : at[h] \in Returned
  /\ failed' = (ctx \/ \E h \in Hosts : at[h] = "err")
  /\ pc' = "pin"
  /\ UNCHANGED <<dvars, database, schema, nodes, run, todo, ctx, at, counters>>

WaitsForSuccess ==
  /\ pc = "hosts"
  /\ \A h \in Hosts : at[h] = "ok"
  /\ failed' = (ctx \/ remaining # {})
  /\ pc' = "pin"
  /\ UNCHANGED <<dvars, database, schema, nodes, run, todo, ctx, at, counters>>

(* parallel.Run and ValidateAllDispatched. *)
HostsReturned ==
  /\ pc = "hosts"
  /\ \A h \in Hosts : at[h] \in Returned
  /\ failed' = (ctx \/ remaining # {} \/ \E h \in Hosts : at[h] = "err")
  /\ pc' = "pin"
  /\ UNCHANGED <<dvars, database, schema, nodes, run, todo, ctx, at, counters>>

(* The deferred calls have a context of their own; their errors are logged. *)
PinCPU ==
  /\ pc = "pin"
  /\ \/ unpinned' = {} /\ UNCHANGED <<logged, counters>>
     \/ /\ Fault /\ logged' = TRUE
        /\ \E H \in (SUBSET unpinned) \ {{}} : unpinned' = H
  /\ pc' = "enable"
  /\ UNCHANGED <<dvars, database, schema, restored, unrepaired, noCompact, run, todo, ctx,
                 failed, at>>

EnableAutoCompaction ==
  /\ pc = "enable"
  /\ \/ noCompact' = {} /\ UNCHANGED <<logged, counters>>
     \/ /\ Fault /\ logged' = TRUE
        /\ \E H \in (SUBSET noCompact) \ {{}} : noCompact' = H
  /\ IF failed THEN End
     ELSE NextStage /\ UNCHANGED <<dvars, todo, ctx, failed, at>>
  /\ UNCHANGED <<database, schema, restored, unrepaired, unpinned>>

-----------------------------------------------------------------------------
(* A host in DATA.                                                         *)
Goto(h, l) == at' = [at EXCEPT ![h] = l]

(* Where nothing but the dispatcher, the rows and the host is touched. *)
OnHost(h, l) ==
  /\ pc = "hosts" /\ at[h] = l
  /\ UNCHANGED <<row, schema, noCompact, unpinned, logged, pc, run, todo, ctx, failed>>

(* parallel.Run starts the hosts, cleanHostUploadDirs and, if native, the  *)
(* TTL of tasks.                                                           *)
StartHost(h) ==
  LET busy == {g \in Hosts : at[g] \notin {"new"} \cup Returned}
  IN  /\ OnHost(h, "new")
      /\ Parallel = 0 \/ Cardinality(busy) < Parallel
      /\ \/ CallReturns /\ Goto(h, "disk")
         \/ CallFails /\ Goto(h, "err")
      /\ UNCHANGED <<dvars, progress, restored, unrepaired>>

(* The head of the loop with checkAvailableDiskSpace. *)
CheckDisk(h) ==
  /\ OnHost(h, "disk")
  /\ \/ CallReturns /\ Goto(h, "dispatch")
     \/ CallFails /\ Goto(h, "err")
  /\ UNCHANGED <<dvars, progress, restored, unrepaired>>

(* DispatchBatch. *)
Dispatch(h) ==
  /\ OnHost(h, "dispatch")
  /\ h \notin asleep
  /\ \/ /\ ~ctx
        /\ DispatchBatch(h)
        /\ Goto(h, "batch")
     \/ /\ ~ctx
        /\ Wait(h)
        /\ UNCHANGED at
     \/ /\ ctx \/ isDone(h)
        /\ Goto(h, "ok")
        /\ UNCHANGED dvars
  /\ UNCHANGED <<progress, restored, unrepaired, counters>>

WaitCancelled(h) ==
  /\ OnHost(h, "dispatch")
  /\ h \in asleep
  /\ ctx
  /\ StopWaiting(h)
  /\ UNCHANGED <<at, progress, restored, unrepaired, counters>>

(* The row of the batch that the host has. *)
Row(h, completed) ==
  LET s == CHOOSE s \in held[h] : TRUE
  IN  [dir |-> Dir[s], host |-> h, sstables |-> held[h], completed |-> completed]

IsNative(h) == \A s \in held[h] : BatchMethod(h, s) = "native"

(* newRunProgress, nativeBatchRestore: the download or the task of Scylla  *)
(* is started and a row inserted.                                          *)
StartBatch(h) ==
  /\ OnHost(h, "batch")
  /\ \/ /\ CallReturns
        /\ progress' = progress \cup {Row(h, FALSE)}
        /\ Goto(h, IF IsNative(h) THEN "native" ELSE "download")
        /\ UNCHANGED dvars
     \/ /\ CallFails
        /\ ReportFailure(h)
        /\ Goto(h, "disk")
        /\ UNCHANGED progress
  /\ UNCHANGED <<restored, unrepaired>>

(* waitJob. *)
Download(h) ==
  /\ OnHost(h, "download")
  /\ \/ CallReturns /\ Goto(h, "load")
     \/ CallFails /\ Goto(h, "cleanup")
  /\ UNCHANGED <<dvars, progress, restored, unrepaired>>

Loaded(h) ==
  /\ restored' = restored \cup held[h]
  /\ unrepaired' = TRUE

(* AwaitLoadSSTables: load and stream.  If it fails, none need be loaded. *)
LoadAndStream(h) ==
  /\ OnHost(h, "load")
  /\ \/ CallReturns /\ Loaded(h) /\ Goto(h, "loaded")
     \/ CallFails /\ Goto(h, "cleanup") /\ UNCHANGED <<restored, unrepaired>>
  /\ UNCHANGED <<dvars, progress>>

(* onLasEnd and ReportSuccess, or scyllaUpdateProgress of a task done. *)
BatchRestored(h) ==
  /\ OnHost(h, "loaded")
  /\ progress' = (progress \ {Row(h, FALSE)}) \cup {Row(h, TRUE)}
  /\ ReportSuccess(h)
  /\ Goto(h, "disk")
  /\ UNCHANGED <<restored, unrepaired, counters>>

(* scyllaWaitTask: a failed task has an end time too, and                  *)
(* scyllaUpdateProgress takes it for RestoreCompletedAt.                   *)
ScyllaTask(h) ==
  /\ OnHost(h, "native")
  /\ \/ CallReturns /\ Loaded(h) /\ Goto(h, "loaded") /\ UNCHANGED progress
     \/ CallFails /\ Goto(h, "cleanup") /\ UNCHANGED <<restored, unrepaired, progress>>
     \/ /\ Fault /\ Goto(h, "cleanup") /\ UNCHANGED <<restored, unrepaired>>
        /\ progress' = (progress \ {Row(h, FALSE)}) \cup {Row(h, TRUE)}
  /\ UNCHANGED dvars

(* cleanupRunProgress and ReportFailure. *)
CleanupRunProgress(h) ==
  /\ OnHost(h, "cleanup")
  /\ progress' = progress \ {Row(h, FALSE), Row(h, TRUE)}
  /\ ReportFailure(h)
  /\ Goto(h, "disk")
  /\ UNCHANGED <<restored, unrepaired, counters>>

-----------------------------------------------------------------------------
Stop ==
  /\ pc # "off" /\ ~ctx
  /\ Fault
  /\ ctx' = TRUE
  /\ UNCHANGED <<dvars, database, schema, nodes, pc, run, todo, failed, at>>

Crash ==
  /\ pc # "off"
  /\ CrashInCleanup \/ \A h \in Hosts : ~(at[h] = "cleanup" /\ IsNative(h))
  /\ Fault
  /\ End
  /\ UNCHANGED <<database, schema, nodes>>

HostStep(h) ==
  \/ StartHost(h) \/ CheckDisk(h) \/ Dispatch(h) \/ WaitCancelled(h)
  \/ StartBatch(h) \/ Download(h) \/ LoadAndStream(h) \/ BatchRestored(h)
  \/ ScyllaTask(h) \/ CleanupRunProgress(h)

StageStep ==
  \/ Setup \/ EnterStage \/ SkipInit \/ Done
  \/ \E v \in Views : DropView(v) \/ CreateView(v)
  \/ \E t \in Tables : DisableTGC(t) \/ EnableTGC(t)
  \/ AllStated \/ WaitForViewBuilding \/ stageRepair
  \/ IndexWorkload \/ DisableAutoCompaction \/ UnpinCPU
  \/ HostsReturned \/ PinCPU \/ EnableAutoCompaction

Worker == StageStep \/ \E h \in Hosts : HostStep(h)

Next == Start \/ Worker \/ Stop \/ Crash

(* Goroutines get to run, and every call, job and task ends or times out. *)
Spec == Init /\ [][Next]_vars /\ WF_vars(Worker)

-----------------------------------------------------------------------------
(* Properties.                                                             *)

(* However many runs failed, were stopped or crashed, with or without      *)
(* --continue: a task that got past DATA has restored every sstable, those *)
(* that a run left out because of the rows of earlier ones too.            *)
NothingSkipped ==
  row.stage # "NONE" /\ IsAfter(row.stage, "DATA") => restored = SSTables

(* A task that is done has given every table its own tombstone_gc mode and *)
(* all its views back, although only the first run could read them from    *)
(* the cluster.  No host is left without compaction or with an unpinned    *)
(* agent by a run that crashed, unless a deferred call failed.             *)
ClusterIsBack ==
  row.stage = "DONE" => /\ tgc = Tables /\ views = Views
                        /\ logged \/ noCompact \cup unpinned = {}

(* From the first sstable loaded until a repair after the last one no      *)
(* table collects tombstones, and while hosts load sstables there are no   *)
(* views, whatever the run in between was that continued or started over.  *)
LoadedIsProtected ==
  /\ unrepaired => tgc = {}
  /\ (\E h \in Hosts : at[h] \in {"load", "native", "loaded"}) => views = {}

(* Every run ends: no host waits for ever for a batch, neither for one     *)
(* that nobody will give back nor for a host that has not been started.    *)
RunEnds == pc # "off" ~> pc = "off"
=============================================================================
