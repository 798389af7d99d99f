---------------------------- MODULE TaskService ----------------------------
(***************************************************************************)
(* The scheduler service of pkg/service/scheduler for one cluster: API     *)
(* calls that create, update, delete, start and stop tasks and suspend and *)
(* resume the cluster, the runs of tasks, and the crash, shutdown and      *)
(* start of the server.                                                    *)
(*                                                                         *)
(* The tables and the drawer survive a crash, everything else does not.  A *)
(* step is a section under Service.mu, one database statement, or one call *)
(* of pkg/scheduler, whose schedulers are abstracted here to what          *)
(* Scheduler.tla shows of them: a key that is queued and not running may   *)
(* start at any time, after Close at most once more.                       *)
(*                                                                         *)
(* Every task has a cron schedule.  Health checks, whose runs share one    *)
(* row, and the timed resume task of a suspend with a duration are left    *)
(* out.                                                                    *)
(***************************************************************************)
EXTENDS Integers, FiniteSets

CONSTANTS
  Tasks, TypeOf,      \* tasks of the cluster and their types
  Windowed,           \* tasks with a maintenance window
  Existing,           \* tasks in the table from the beginning, enabled
  Callers, Requests,  \* API calls, and what a call may ask for
  SuspendProperties,  \* the properties of tasks of type suspend, as a request
  MaxRuns, MaxSchedulers,
  MaxRestarts, MaxFaults,
  Main, None

RunIds == 1..MaxRuns
Schedulers == 1..MaxSchedulers
Procs == Callers \cup RunIds \cup {Main}
NoRun == 0
Nothing == "nothing"      \* an empty AllowedTaskType
NotSuspended == "not suspended"
Suspender == "suspend"    \* SuspendTask

Types == {TypeOf[t] : t \in Tasks}

ASSUME TaskServiceAssumption ==
  /\ MaxRuns \in Nat /\ MaxSchedulers \in Nat \ {0} /\ MaxRestarts \in Nat /\ MaxFaults \in Nat
  /\ Existing \subseteq Tasks
  /\ Callers \cap RunIds = {} /\ Main \notin Callers \cup RunIds /\ None \notin Callers \cup Tasks
  /\ \A q \in Requests :
       /\ q.op \in {"put", "start", "stop", "delete", "suspend", "resume"} /\ q.flag \in BOOLEAN
       /\ IF q.op \in {"suspend", "resume"} THEN q.task = None ELSE q.task \in Tasks
       /\ q.op = "suspend" => q.allow # NotSuspended
  /\ SuspendProperties.op = "suspend" /\ SuspendProperties.allow # NotSuspended

VARIABLES
  rows,        \* table scheduler_task
  runRows,     \* table scheduler_task_run
  drawer,      \* suspendInfo in the drawer, or None
  state,       \* of the process: "down", "loading", "up"
  closed, suspended, runs, taskLWTMu, resolver, noContinue, scheduler,
               \* fields of Service
  held,        \* the mutexes in taskLWTMu, one per StopTask call, that are locked
  locks,       \* TaskExclusiveLockPolicy.running of the cluster
  sched,       \* the schedulers created so far
  run,         \* goroutines of runs
  proc,        \* goroutines of API calls, of LoadTasks and of suspendRunner
  restarts, faults

tables == <<rows, runRows, drawer>>
service == <<closed, suspended, runs, taskLWTMu, resolver, noContinue, scheduler>>
bounds == <<state, restarts, faults>>
vars == <<tables, service, bounds, held, locks, sched, run, proc>>

(* The policy of the runners: see Policy.tla. *)
Policy == INSTANCE Policy WITH
    Clusters <- {Main}, Calls <- RunIds,
    TaskTypes <- Types \cup {"repair", "tablet_repair"}, Exclusive <- Types \cap {"restore", "1_1_restore"},
    running <- [c \in {Main} |-> locks],
    call <- [r \in RunIds |->
               IF run[r].pc = "runner" /\ TypeOf[run[r].task] # Suspender
               THEN [cluster |-> Main, type |-> TypeOf[run[r].task], properties |-> "any"]
               ELSE [cluster |-> "none", type |-> "none", properties |-> "none"]]

Final == {"STOPPED", "WAITING", "DONE", "ERROR", "ABORTED"}
Status == Final \cup {"NEW", "RUNNING", "STOPPING"}

NoRow == [task |-> None, status |-> "none"]
NoTask == [exists |-> FALSE, enabled |-> FALSE, deleted |-> FALSE, status |-> "NEW"]
NewTask == [exists |-> TRUE, enabled |-> TRUE, deleted |-> FALSE, status |-> "NEW"]
NoInfo == [running |-> {}, pending |-> {}, allow |-> Nothing]

FreeRun == [pc |-> "free", task |-> None, sched |-> 0, window |-> FALSE,
            cause |-> "none", err |-> FALSE, status |-> "RUNNING", mu |-> None]
IdleProc == [pc |-> "idle", req |-> None, task |-> None, enabled |-> FALSE, once |-> FALSE,
             l |-> 0, run |-> NoRun, tasks |-> None, todo |-> {}, info |-> NoInfo]
NewScheduler == [details |-> [t \in Tasks |-> "none"], queue |-> {},
                 closed |-> FALSE, late |-> FALSE]

NoLocks == [tp \in Types \cup {"repair", "tablet_repair"} |-> "none"]

Init ==
  /\ rows = [t \in Tasks |-> IF t \in Existing THEN NewTask ELSE NoTask]
  /\ runRows = [r \in RunIds |-> NoRow]
  /\ drawer = None
  /\ state = "down"
  /\ closed = FALSE /\ suspended = NotSuspended
  /\ runs = [t \in Tasks |-> NoRun]
  /\ taskLWTMu = [t \in Tasks |-> None] /\ held = {}
  /\ resolver = {} /\ noContinue = {}
  /\ scheduler = 0 /\ sched = [g \in Schedulers |-> NewScheduler]
  /\ locks = NoLocks
  /\ run = [r \in RunIds |-> FreeRun]
  /\ proc = [p \in Procs |-> IdleProc]
  /\ restarts = 0 /\ faults = 0

-----------------------------------------------------------------------------
(* pkg/scheduler as the service uses it.  The trigger of a key: the cron   *)
(* of the task ("cron"), NewMulti(NewOnce, cron) ("multi"), NewOnce        *)
(* ("once"), and a NewOnce that was asked already ("fired").               *)

Live(r) == run[r].pc \notin {"free", "done"}
Running(g) == {run[r].task : r \in {x \in RunIds : Live(x) /\ run[x].sched = g}}

Asked(d) == [none |-> "none", cron |-> "cron", multi |-> "cron", once |-> "fired", fired |-> "fired"][d]
Queued(s, g, t) ==
  [s EXCEPT ![g].queue = @ \cup {t}, ![g].details[t] = Asked(@)]
Dequeued(s, g, t) == [s EXCEPT ![g].queue = @ \ {t}]

(* A plausible bug: a running key is queued too. *)
ScheduleRunning(g, t, d) == sched' = Queued([sched EXCEPT ![g].details[t] = d], g, t)

SchedulerSchedule(g, t, d) ==
  LET s == [sched EXCEPT ![g].details[t] = d]
  IN sched' = IF t \in Running(g) THEN s ELSE Queued(s, g, t)

Unscheduled(g, t) == [Dequeued(sched, g, t) EXCEPT ![g].details[t] = "none"]

(* The first cause a context is cancelled with stays. *)
Cancelled(g, ts, cause) ==
  [r \in RunIds |-> IF Live(r) /\ run[r].sched = g /\ run[r].task \in ts /\ run[r].cause = "none"
                    THEN [run[r] EXCEPT !.cause = cause] ELSE run[r]]

(* The main loop may be past its sleep when Close comes: late. *)
Closed(s, g) == [s EXCEPT ![g].closed = TRUE, ![g].late = @ \/ ~s[g].closed]

FreeRuns == {r \in RunIds : run[r].pc = "free"}
NextRun == CHOOSE r \in FreeRuns : \A x \in FreeRuns : r <= x
Registered(g, t, window) ==
  [run EXCEPT ![NextRun] = [FreeRun EXCEPT !.pc = "new", !.task = t, !.sched = g, !.window = window]]

(* The main loop runs a queued key, within its maintenance window. *)
Activate(g, t) ==
  /\ state # "down" /\ FreeRuns # {}
  /\ t \in sched[g].queue
  /\ sched[g].closed => sched[g].late
  /\ sched' = [Dequeued(sched, g, t) EXCEPT ![g].late = FALSE]
  /\ run' = Registered(g, t, t \in Windowed)
  /\ UNCHANGED <<tables, service, bounds, held, locks, proc>>

(* Wait: a run that asyncRun has not counted yet is not waited for. *)
AllReturned(g) == \A r \in RunIds : run[r].sched = g => run[r].pc \in {"free", "new", "done"}

(* The maintenance window of a run closes. *)
WindowEnds(r) ==
  /\ Live(r) /\ run[r].window /\ run[r].cause = "none"
  /\ run' = [run EXCEPT ![r].cause = "window"]
  /\ UNCHANGED <<tables, service, bounds, held, locks, sched, proc>>

(* reschedule, after the RunFunc returned.  A NewOnce that fired has no    *)
(* next activation, unless the window of the run closed, which continues   *)
(* it, or it failed, was not stopped and is retried.                       *)
Reschedule(r) ==
  LET g == run[r].sched
      t == run[r].task
      d == sched[g].details[t]
  IN
  /\ run[r].pc = "ended"
  /\ run' = [run EXCEPT ![r] = [FreeRun EXCEPT !.pc = "done"]]
  /\ \/ /\ sched[g].closed \/ d = "none"
        /\ UNCHANGED sched
     \/ /\ ~sched[g].closed /\ d # "none"
        /\ d = "fired" => run[r].cause = "window" \/ (run[r].err /\ run[r].cause # "stopped")
        /\ sched' = Queued(sched, g, t)
     \/ /\ ~sched[g].closed /\ d = "fired" /\ run[r].cause # "window"
        /\ sched' = Unscheduled(g, t)
  /\ UNCHANGED <<tables, service, bounds, held, locks, proc>>

-----------------------------------------------------------------------------
(* Service.run: the goroutine of a run. *)

Step(r, pc) == run' = [run EXCEPT ![r].pc = pc]
(* The run is about to return; what reschedule does not need is forgotten. *)
StepOut(r) == run' = [run EXCEPT ![r] = [FreeRun EXCEPT !.pc = "out", !.task = run[r].task,
                        !.sched = run[r].sched, !.window = run[r].window,
                        !.err = run[r].err, !.cause = run[r].cause]]
Row(r, s) == runRows' = [runRows EXCEPT ![r] = [task |-> run[r].task, status |-> s]]
TaskStatus(t, s) == rows' = [rows EXCEPT ![t].status = s]
Fault == faults < MaxFaults /\ faults' = faults + 1 /\ UNCHANGED <<state, restarts>>

(* The run registers itself, and takes the noContinue mark of its task. *)
RunBegin(r) ==
  LET t == run[r].task IN
  /\ run[r].pc = "new"
  /\ \/ /\ t \in resolver
        /\ noContinue' = noContinue \ {t}
        /\ runs' = [runs EXCEPT ![t] = r]
        /\ Step(r, "begun")
     \/ /\ t \notin resolver
        /\ run' = [run EXCEPT ![r].pc = "ended", ![r].err = TRUE]
        /\ UNCHANGED <<noContinue, runs>>
  /\ UNCHANGED <<tables, bounds, held, locks, sched, proc,
                 closed, suspended, taskLWTMu, resolver, scheduler>>

(* putRunAndUpdateTask with status RUNNING: two statements, no lock. *)
PutRun(r) ==
  /\ run[r].pc = "begun"
  /\ Row(r, "RUNNING") /\ Step(r, "put")
  /\ UNCHANGED <<rows, drawer, service, bounds, held, locks, sched, proc>>
UpdateTask(r) ==
  /\ run[r].pc = "put"
  /\ TaskStatus(run[r].task, "RUNNING") /\ Step(r, "updated")
  /\ UNCHANGED <<runRows, drawer, service, bounds, held, locks, sched, proc>>
PutFails(r) ==
  /\ run[r].pc \in {"begun", "put"} /\ Fault
  /\ run' = [run EXCEPT ![r].pc = "out", ![r].err = TRUE]
  /\ UNCHANGED <<tables, service, held, locks, sched, proc>>

(* A plausible bug: the runner is registered without its policy. *)
EnterRunnerUnlocked(r) ==
  LET tp == TypeOf[run[r].task] IN
  /\ run[r].pc = "updated"
  /\ Step(r, "runner")
  /\ proc' = IF tp = Suspender
             THEN [proc EXCEPT ![r] = [IdleProc EXCEPT !.pc = "list", !.req = SuspendProperties]]
             ELSE proc
  /\ UNCHANGED <<tables, service, bounds, held, locks, sched>>

(* PolicyRunner.Run up to the runner; the runner of a suspend task is      *)
(* suspendRunner and goes through no policy.                               *)
EnterRunner(r) ==
  LET tp == TypeOf[run[r].task] IN
  /\ run[r].pc = "updated"
  /\ \/ /\ tp # Suspender /\ Policy!CanRun(locks, tp, "any")
        /\ locks' = [locks EXCEPT ![tp] = "any"]
        /\ Step(r, "runner")
        /\ UNCHANGED proc
     \/ /\ tp # Suspender /\ ~Policy!CanRun(locks, tp, "any")
        /\ run' = [run EXCEPT ![r].pc = "ran", ![r].err = TRUE]
        /\ UNCHANGED <<locks, proc>>
     \/ /\ tp = Suspender
        /\ Step(r, "runner")
        /\ proc' = [proc EXCEPT ![r] = [IdleProc EXCEPT !.pc = "list", !.req = SuspendProperties]]
        /\ UNCHANGED locks
  /\ UNCHANGED <<tables, service, bounds, held, sched>>

(* The properties decorator of the type returns an error. *)
DecorateFails(r) ==
  /\ run[r].pc = "updated" /\ Fault
  /\ run' = [run EXCEPT ![r].pc = "ran", ![r].err = TRUE]
  /\ UNCHANGED <<tables, service, held, locks, sched, proc>>

(* A plausible bug: the lock is released on success only. *)
ReturnRunnerLocked(r) ==
  LET tp == TypeOf[run[r].task] IN
  /\ run[r].pc = "runner"
  /\ tp = Suspender => proc[r].pc = "done"
  /\ \E e \in BOOLEAN : /\ run' = [run EXCEPT ![r].pc = "ran", ![r].err = e]
                        /\ locks' = IF e \/ tp = Suspender THEN locks ELSE [locks EXCEPT ![tp] = "none"]
  /\ UNCHANGED <<tables, service, bounds, held, sched, proc>>

(* The runner returns, with an error or without one; PostRun.              *)
ReturnRunner(r) ==
  LET tp == TypeOf[run[r].task] IN
  /\ run[r].pc = "runner"
  /\ tp = Suspender => proc[r].pc = "done"
  /\ \E e \in BOOLEAN : run' = [run EXCEPT ![r].pc = "ran", ![r].err = e]
  /\ locks' = IF tp = Suspender THEN locks ELSE [locks EXCEPT ![tp] = "none"]
  /\ UNCHANGED <<tables, service, bounds, held, sched, proc>>

statusAndCauseFromCtxAndErr(r) ==
  IF ~run[r].err THEN "DONE"
  ELSE [stopped |-> "STOPPED", window |-> "WAITING", closed |-> "STOPPED", none |-> "ERROR"][run[r].cause]

(* The deferred function decides on the final status. *)
FinalStatus(r) ==
  LET s == statusAndCauseFromCtxAndErr(r) IN
  /\ run[r].pc = "ran"
  /\ run' = [run EXCEPT ![r].pc = "decided",
                        ![r].status = IF s = "STOPPED" /\ closed THEN "ABORTED" ELSE s]
  /\ UNCHANGED <<tables, service, bounds, held, locks, sched, proc>>

(* Plausible bugs: the mutex of StopTask is not looked at, and the run is  *)
(* not taken off the list before its final status is put.                  *)
LeaveRunsNoMutex(r) ==
  /\ run[r].pc = "decided"
  /\ runs' = [runs EXCEPT ![run[r].task] = NoRun]
  /\ Step(r, "left")
  /\ UNCHANGED <<tables, bounds, held, locks, sched, proc,
                 closed, suspended, taskLWTMu, resolver, noContinue, scheduler>>
LeaveRunsLater(r) ==
  /\ run[r].pc = "decided"
  /\ run' = [run EXCEPT ![r].pc = "left", ![r].mu = taskLWTMu[run[r].task]]
  /\ UNCHANGED <<tables, service, bounds, held, locks, sched, proc>>

(* It leaves runs and, in the same section, reads the mutex of a StopTask. *)
LeaveRuns(r) ==
  LET t == run[r].task IN
  /\ run[r].pc = "decided"
  /\ runs' = [runs EXCEPT ![t] = NoRun]
  /\ run' = [run EXCEPT ![r].pc = "left", ![r].mu = taskLWTMu[t]]
  /\ UNCHANGED <<tables, bounds, held, locks, sched, proc,
                 closed, suspended, taskLWTMu, resolver, noContinue, scheduler>>

(* It waits for that mutex, if there is one, and puts the final status. *)
PutFinalRun(r) ==
  /\ run[r].pc = "left" /\ run[r].mu \notin held
  /\ held' = held \cup ({run[r].mu} \ {None})
  /\ Row(r, run[r].status) /\ Step(r, "final")
  /\ UNCHANGED <<rows, drawer, service, bounds, locks, sched, proc>>
UpdateFinalTask(r) ==
  /\ run[r].pc = "final"
  /\ TaskStatus(run[r].task, run[r].status) /\ StepOut(r)
  /\ held' = held \ {run[r].mu}
  /\ UNCHANGED <<runRows, drawer, service, bounds, locks, sched, proc>>
PutFinalFails(r) ==
  /\ \/ run[r].pc = "left" /\ run[r].mu \notin held /\ UNCHANGED held
     \/ run[r].pc = "final" /\ held' = held \ {run[r].mu}
  /\ Fault /\ StepOut(r)
  /\ UNCHANGED <<tables, service, locks, sched, proc>>

(* The first deferred function leaves runs once more. *)
LeaveRunsAgain(r) ==
  /\ run[r].pc = "out"
  /\ runs' = [runs EXCEPT ![run[r].task] = NoRun]
  /\ Step(r, "ended")
  /\ UNCHANGED <<tables, bounds, held, locks, sched, proc,
                 closed, suspended, taskLWTMu, resolver, noContinue, scheduler>>

-----------------------------------------------------------------------------
(* Service.schedule, called by PutTask, LoadTasks, suspend and Resume: the *)
(* scheduler is looked up under mu and used after it is released.          *)

Req(p) == proc[p].req
Goto(p, pc) == proc' = [proc EXCEPT ![p].pc = pc]
Done(p) == proc' = [proc EXCEPT ![p] = [IdleProc EXCEPT !.pc = "done"]]
Returned(p) == IF Req(p).op \in {"load", "suspend", "resume"} THEN "next"
               ELSE IF Req(p).op = "stop" THEN "stop" ELSE "return"

isSuspendedForTask(tp) == suspended # NotSuspended /\ suspended # tp

(* The cluster's scheduler, created when there is none. *)
CurrentScheduler == IF scheduler = 0 THEN 1 ELSE scheduler

ScheduleLookup(p) ==
  LET t == proc[p].task IN
  /\ proc[p].pc = "schedule"
  /\ \/ /\ isSuspendedForTask(TypeOf[t]) /\ TypeOf[t] # Suspender
        /\ Goto(p, Returned(p))
        /\ UNCHANGED <<scheduler, resolver>>
     \/ /\ ~(isSuspendedForTask(TypeOf[t]) /\ TypeOf[t] # Suspender)
        /\ resolver' = resolver \cup {t}
        /\ scheduler' = CurrentScheduler
        /\ proc' = [proc EXCEPT ![p].pc = "apply", ![p].l = CurrentScheduler]
  /\ UNCHANGED <<tables, bounds, held, locks, sched, run, closed, suspended, runs, taskLWTMu, noContinue>>

(* A plausible bug: the scheduler is read again, without mu. *)
ScheduleApplyCurrent(p) ==
  LET t == proc[p].task IN
  /\ proc[p].pc = "apply"
  /\ IF proc[p].enabled THEN SchedulerSchedule(scheduler, t, IF proc[p].once THEN "multi" ELSE "cron")
                        ELSE sched' = Unscheduled(scheduler, t)
  /\ Goto(p, Returned(p))
  /\ UNCHANGED <<tables, service, bounds, held, locks, run>>

ScheduleApply(p) ==
  LET t == proc[p].task
      g == proc[p].l
  IN
  /\ proc[p].pc = "apply"
  /\ IF proc[p].enabled THEN SchedulerSchedule(g, t, IF proc[p].once THEN "multi" ELSE "cron")
                        ELSE sched' = Unscheduled(g, t)
  /\ Goto(p, Returned(p))
  /\ UNCHANGED <<tables, service, bounds, held, locks, run>>

Return(p) ==
  /\ proc[p].pc = "return"
  /\ Done(p)
  /\ UNCHANGED <<tables, service, bounds, held, locks, sched, run>>

-----------------------------------------------------------------------------
(* Calls of the API.  The handlers of a task read its row first (taskCtx)  *)
(* and work on that copy.  The ID of a task to create is new, so no other  *)
(* call is about that task.                                                *)

First(q) == [put |-> "put", start |-> "start", delete |-> "delete", suspend |-> "list", resume |-> "resume",
             stop |-> IF q.flag /\ rows[q.task].enabled THEN "put" ELSE "stop"][q.op]

Call(c, q) ==
  /\ proc[c].pc = "idle" /\ state = "up" /\ ~closed
  /\ q.op \in {"start", "stop", "delete"} => rows[q.task].exists
  /\ q.op \in {"put", "start", "stop", "delete"} => ~rows[q.task].deleted
  /\ q.op = "put" /\ ~rows[q.task].exists => \A d \in Callers : proc[d].task # q.task
  /\ proc' = [proc EXCEPT ![c] = [IdleProc EXCEPT !.pc = First(q), !.req = q, !.task = q.task,
                                    !.enabled = (q.op = "put" /\ q.flag)]]
  /\ UNCHANGED <<tables, service, bounds, held, locks, sched, run>>

(* PutTask: shouldPutTask refuses a new task of a suspended cluster.       *)
(* StopTask with disable puts the task with Enabled cleared.               *)
shouldPutTask(c) ==
  LET t == proc[c].task IN
  /\ proc[c].pc = "put"
  /\ IF ~rows[t].exists /\ isSuspendedForTask(TypeOf[t]) THEN Done(c) ELSE Goto(c, "insert")
  /\ UNCHANGED <<tables, service, bounds, held, locks, sched, run>>

InsertTask(c) ==
  LET t == proc[c].task IN
  /\ proc[c].pc = "insert"
  /\ rows' = [rows EXCEPT ![t].exists = TRUE, ![t].enabled = proc[c].enabled]
  /\ Goto(c, "schedule")
  /\ UNCHANGED <<runRows, drawer, service, bounds, held, locks, sched, run>>

(* startTask: the scheduler looked up under mu is triggered after it.      *)
StartLookup(c) ==
  /\ proc[c].pc = "start"
  /\ \/ /\ isSuspendedForTask(TypeOf[proc[c].task])
        /\ Done(c)
        /\ UNCHANGED scheduler
     \/ /\ ~isSuspendedForTask(TypeOf[proc[c].task])
        /\ scheduler' = CurrentScheduler
        /\ proc' = [proc EXCEPT ![c].pc = "trigger", ![c].l = CurrentScheduler]
  /\ UNCHANGED <<tables, bounds, held, locks, sched, run,
                 closed, suspended, runs, taskLWTMu, resolver, noContinue>>

Trigger(c) ==
  LET t == proc[c].task
      g == proc[c].l
  IN
  /\ proc[c].pc = "trigger"
  /\ \/ /\ t \in Running(g)
        /\ Done(c) /\ UNCHANGED <<sched, run>>
     \/ /\ t \notin Running(g) /\ sched[g].details[t] # "none" /\ FreeRuns # {}
        /\ sched' = Dequeued(sched, g, t)
        /\ run' = Registered(g, t, FALSE)
        /\ Done(c)
     \/ /\ t \notin Running(g) /\ sched[g].details[t] = "none"
        /\ Goto(c, "once") /\ UNCHANGED <<sched, run>>
  /\ UNCHANGED <<tables, service, bounds, held, locks>>

ScheduleOnce(c) ==
  /\ proc[c].pc = "once"
  /\ SchedulerSchedule(proc[c].l, proc[c].task, "once")
  /\ Done(c)
  /\ UNCHANGED <<tables, service, bounds, held, locks, run>>

(* StopTask: a task that is running and not being stopped already gets a   *)
(* locked mutex, ...                                                       *)
StopLookup(c) ==
  LET t == proc[c].task IN
  /\ proc[c].pc = "stop"
  /\ \/ /\ scheduler = 0 \/ runs[t] = NoRun \/ taskLWTMu[t] # None
        /\ Done(c)
        /\ UNCHANGED <<taskLWTMu, held>>
     \/ /\ scheduler # 0 /\ runs[t] # NoRun /\ taskLWTMu[t] = None
        /\ taskLWTMu' = [taskLWTMu EXCEPT ![t] = c]
        /\ held' = held \cup {c}
        /\ proc' = [proc EXCEPT ![c].pc = "stopping", ![c].l = scheduler, ![c].run = runs[t]]
  /\ UNCHANGED <<tables, bounds, locks, sched, run,
                 closed, suspended, runs, resolver, noContinue, scheduler>>

(* ... its run and its row are set to STOPPING, ...                        *)
PutStopping(c) ==
  /\ proc[c].pc = "stopping"
  /\ runRows' = [runRows EXCEPT ![proc[c].run] = [task |-> proc[c].task, status |-> "STOPPING"]]
  /\ Goto(c, "stopping task")
  /\ UNCHANGED <<rows, drawer, service, bounds, held, locks, sched, run>>
UpdateStopping(c) ==
  /\ proc[c].pc = "stopping task"
  /\ TaskStatus(proc[c].task, "STOPPING")
  /\ held' = held \ {c}
  /\ Goto(c, "unlocked")
  /\ UNCHANGED <<runRows, drawer, service, bounds, locks, sched, run>>
PutStoppingFails(c) ==
  /\ proc[c].pc \in {"stopping", "stopping task"} /\ Fault
  /\ held' = held \ {c}
  /\ proc' = [proc EXCEPT ![c].pc = "unlocked", ![c].run = NoRun]
  /\ UNCHANGED <<tables, service, locks, sched, run>>

(* ... the mutex is dropped, and unless a statement failed the key is      *)
(* stopped in the scheduler.                                               *)
DropMutex(c) ==
  /\ proc[c].pc = "unlocked"
  /\ taskLWTMu' = [taskLWTMu EXCEPT ![proc[c].task] = None]
  /\ Goto(c, IF proc[c].run = NoRun THEN "return" ELSE "cancel")
  /\ UNCHANGED <<tables, bounds, held, locks, sched, run,
                 closed, suspended, runs, resolver, noContinue, scheduler>>
Stop(c) ==
  /\ proc[c].pc = "cancel"
  /\ run' = Cancelled(proc[c].l, {proc[c].task}, "stopped")
  /\ Done(c)
  /\ UNCHANGED <<tables, service, bounds, held, locks, sched>>

(* DeleteTask *)
DeleteRow(c) ==
  /\ proc[c].pc = "delete"
  /\ rows' = [rows EXCEPT ![proc[c].task].deleted = TRUE, ![proc[c].task].enabled = FALSE]
  /\ Goto(c, "remove")
  /\ UNCHANGED <<runRows, drawer, service, bounds, held, locks, sched, run>>
RemoveTask(c) ==
  /\ proc[c].pc = "remove"
  /\ resolver' = resolver \ {proc[c].task}
  /\ proc' = [proc EXCEPT ![c].pc = IF scheduler = 0 THEN "return" ELSE "unschedule", ![c].l = scheduler]
  /\ UNCHANGED <<tables, bounds, held, locks, sched, run,
                 closed, suspended, runs, taskLWTMu, noContinue, scheduler>>
Unschedule(c) ==
  /\ proc[c].pc = "unschedule"
  /\ sched' = Unscheduled(proc[c].l, proc[c].task)
  /\ Done(c)
  /\ UNCHANGED <<tables, service, bounds, held, locks, run>>

-----------------------------------------------------------------------------
(* suspend, by an API call, which waits for the runs, or by the run of a   *)
(* suspend task, which does not.                                           *)

Tabled == {t \in Tasks : rows[t].exists}
Enabled == [t \in Tasks |-> rows[t].enabled]

ListTasks(p) ==
  /\ proc[p].pc = "list"
  /\ proc' = [proc EXCEPT ![p].pc = IF Req(p).op = "resume" THEN "next" ELSE "suspend",
                          ![p].todo = Tabled, ![p].tasks = Enabled]
  /\ UNCHANGED <<tables, service, bounds, held, locks, sched, run>>

(* The section under mu: refuse, or mark the cluster suspended and replace *)
(* its scheduler by an empty one (resetSchedulerLocked).                   *)
notAllowedRunningTasks(p) ==
  {t \in proc[p].todo : TypeOf[t] \notin {Req(p).allow, Suspender}} \cap Running(scheduler)

Suspend(p) ==
  LET q == Req(p)
      g == scheduler
  IN
  /\ proc[p].pc = "suspend"
  /\ \/ /\ suspended # NotSuspended \/ (q.fail /\ notAllowedRunningTasks(p) # {})
        /\ Done(p)
        /\ UNCHANGED <<suspended, scheduler, sched, run>>
     \/ /\ suspended = NotSuspended
        /\ q.fail => notAllowedRunningTasks(p) = {}
        /\ g + 1 \in Schedulers
        /\ suspended' = q.allow
        /\ scheduler' = g + 1
        /\ IF g = 0 THEN UNCHANGED <<sched, run>>
           ELSE sched' = Closed(sched, g) /\ run' = Cancelled(g, Running(g), "closed")
        /\ proc' = [proc EXCEPT ![p].pc = IF p \in Callers /\ g # 0 THEN "wait" ELSE "next",
                                ![p].l = g,
                                ![p].info = [running |-> Running(g),
                                             pending |-> IF g = 0 THEN {} ELSE sched[g].queue,
                                             allow |-> q.allow]]
  /\ UNCHANGED <<tables, bounds, held, locks, closed, runs, taskLWTMu, resolver, noContinue>>

WaitRuns(p) ==
  /\ proc[p].pc = "wait" /\ AllReturned(proc[p].l)
  /\ Goto(p, "next")
  /\ UNCHANGED <<tables, service, bounds, held, locks, sched, run>>

(* One turn of the loop over the tasks: those of the allowed type go to    *)
(* the new scheduler, the others get the noContinue mark if asked for.     *)
NextTask(p, t, op) ==
  /\ proc[p].pc = "next" /\ Req(p).op = op /\ t \in proc[p].todo

To(p, t, pc, once) ==
  proc' = [proc EXCEPT ![p].pc = pc, ![p].todo = @ \ {t}, ![p].task = t,
                       ![p].enabled = proc[p].tasks[t], ![p].once = once]

SuspendTask(p, t) ==
  /\ NextTask(p, t, "suspend")
  /\ \/ /\ TypeOf[t] = Req(p).allow
        /\ To(p, t, "schedule", t \in proc[p].info.running)
        /\ UNCHANGED noContinue
     \/ /\ TypeOf[t] # Req(p).allow
        /\ To(p, t, "next", FALSE)
        /\ noContinue' = noContinue \cup (IF Req(p).scratch THEN {t} ELSE {})
  /\ UNCHANGED <<tables, bounds, held, locks, sched, run,
                 closed, suspended, runs, taskLWTMu, resolver, scheduler>>

(* After the loop the stopped and cancelled tasks are saved. *)
PutDrawer(p) ==
  /\ proc[p].pc = "next" /\ Req(p).op = "suspend" /\ proc[p].todo = {}
  /\ drawer' = proc[p].info
  /\ Done(p)
  /\ UNCHANGED <<rows, runRows, service, bounds, held, locks, sched, run>>
PutDrawerFails(p) ==
  /\ proc[p].pc = "next" /\ Req(p).op = "suspend" /\ proc[p].todo = {} /\ Fault
  /\ Done(p)
  /\ UNCHANGED <<tables, service, held, locks, sched, run>>

-----------------------------------------------------------------------------
(* Resume *)

Resume(p) ==
  /\ proc[p].pc = "resume"
  /\ \/ /\ suspended = NotSuspended
        /\ Done(p) /\ UNCHANGED <<drawer, suspended>>
     \/ /\ suspended # NotSuspended
        /\ proc' = [proc EXCEPT ![p].pc = "list", ![p].info = IF drawer = None THEN NoInfo ELSE drawer]
        /\ drawer' = None
        /\ suspended' = NotSuspended
  /\ UNCHANGED <<rows, runRows, bounds, held, locks, sched, run,
                 closed, runs, taskLWTMu, resolver, noContinue, scheduler>>

(* The drawer cannot be deleted: this is logged, and Resume goes on. *)
ResumeDrawerStays(p) ==
  /\ proc[p].pc = "resume" /\ suspended # NotSuspended /\ drawer # None /\ Fault
  /\ proc' = [proc EXCEPT ![p].pc = "list", ![p].info = drawer]
  /\ suspended' = NotSuspended
  /\ UNCHANGED <<tables, held, locks, sched, run,
                 closed, runs, taskLWTMu, resolver, noContinue, scheduler>>

(* A call returns the error of a statement: of the insert of PutTask, the  *)
(* update of DeleteTask, the list of suspend and of Resume, which has      *)
(* removed suspended and the drawer by then, or of drawer.Get in Resume.   *)
StatementFails(p) ==
  /\ proc[p].pc \in {"insert", "delete", "list", "resume"} /\ Fault
  /\ Done(p)
  /\ UNCHANGED <<tables, service, held, locks, sched, run>>

(* The activation of a pending task may have been missed or not. *)
shouldStartTaskOnResume(p, t, missed) ==
  /\ TypeOf[t] # Suspender
  /\ \/ Req(p).start /\ t \in proc[p].info.running
     \/ Req(p).missed /\ t \in proc[p].info.pending /\ missed

ResumeTask(p, t) ==
  /\ NextTask(p, t, "resume")
  /\ \/ /\ TypeOf[t] = proc[p].info.allow
        /\ To(p, t, "next", FALSE)
        /\ UNCHANGED noContinue
     \/ /\ TypeOf[t] # proc[p].info.allow
        /\ \E missed \in BOOLEAN : To(p, t, "schedule", shouldStartTaskOnResume(p, t, missed))
        /\ noContinue' = noContinue \cup (IF Req(p).scratch THEN {t} ELSE {})
  /\ UNCHANGED <<tables, bounds, held, locks, sched, run,
                 closed, suspended, runs, taskLWTMu, resolver, scheduler>>

(* The resume task, which has no row here, is disabled. *)
ResumeDone(p) ==
  /\ proc[p].pc = "next" /\ Req(p).op = "resume" /\ proc[p].todo = {}
  /\ Done(p)
  /\ UNCHANGED <<tables, service, bounds, held, locks, sched, run>>

-----------------------------------------------------------------------------
(* Start of the server: NewService (initSuspended), then LoadTasks.        *)

Start ==
  /\ state = "down"
  /\ state' = "loading"
  /\ suspended' = IF drawer = None THEN NotSuspended ELSE drawer.allow
  /\ proc' = [proc EXCEPT ![Main] = [IdleProc EXCEPT !.pc = "next", !.req = [op |-> "load"],
                                                     !.todo = Tabled, !.tasks = Enabled]]
  /\ UNCHANGED <<tables, restarts, faults, held, locks, sched, run,
                 closed, runs, taskLWTMu, resolver, noContinue, scheduler>>

RowsOf(t) == {r \in RunIds : runRows[r].task = t}
LastRun(t) == CHOOSE r \in RowsOf(t) : \A x \in RowsOf(t) : x <= r

(* A plausible bug: interrupted runs are started again but not marked. *)
LoadTaskUnmarked(t) ==
  LET last == IF RowsOf(t) = {} THEN "none" ELSE runRows[LastRun(t)].status IN
  /\ NextTask(Main, t, "load")
  /\ To(Main, t, "schedule", last \in {"RUNNING", "ABORTED"})
  /\ UNCHANGED <<tables, service, bounds, held, locks, sched, run>>

(* markRunningAsAborted, then schedule with an activation at once if the   *)
(* last run was cut off.                                                   *)
LoadTask(t) ==
  LET last == IF RowsOf(t) = {} THEN "none" ELSE runRows[LastRun(t)].status IN
  /\ NextTask(Main, t, "load")
  /\ To(Main, t, "schedule", last \in {"RUNNING", "ABORTED"})
  /\ IF last = "RUNNING"
     THEN /\ runRows' = [runRows EXCEPT ![LastRun(t)].status = "ABORTED"]
          /\ TaskStatus(t, "ABORTED")
     ELSE UNCHANGED <<rows, runRows>>
  /\ UNCHANGED <<drawer, service, bounds, held, locks, sched, run>>

Loaded ==
  /\ proc[Main].pc = "next" /\ proc[Main].todo = {}
  /\ state' = "up"
  /\ proc' = [proc EXCEPT ![Main] = IdleProc]
  /\ UNCHANGED <<tables, service, restarts, faults, held, locks, sched, run>>

(* Close: the cluster's scheduler is closed and waited for; the process    *)
(* then exits with whatever else is running.                               *)
Close ==
  /\ state = "up" /\ ~closed /\ restarts < MaxRestarts
  /\ closed' = TRUE /\ restarts' = restarts + 1
  /\ IF scheduler = 0 THEN UNCHANGED <<sched, run>>
     ELSE /\ sched' = Closed(sched, scheduler)
          /\ run' = Cancelled(scheduler, Running(scheduler), "closed")
  /\ UNCHANGED <<tables, state, faults, held, locks, proc,
                 suspended, runs, taskLWTMu, resolver, noContinue, scheduler>>

(* Memory is lost; the runs and calls in progress are over. *)
Lost ==
  /\ state' = "down"
  /\ closed' = FALSE /\ suspended' = NotSuspended
  /\ runs' = [t \in Tasks |-> NoRun]
  /\ taskLWTMu' = [t \in Tasks |-> None] /\ held' = {}
  /\ resolver' = {} /\ noContinue' = {}
  /\ scheduler' = 0 /\ sched' = [g \in Schedulers |-> NewScheduler]
  /\ locks' = NoLocks
  /\ run' = [r \in RunIds |-> IF run[r].pc = "free" THEN FreeRun ELSE [FreeRun EXCEPT !.pc = "done"]]
  /\ proc' = [p \in Procs |-> IF p \in Callers /\ proc[p].pc # "idle"
                              THEN [IdleProc EXCEPT !.pc = "done"] ELSE IdleProc]
  /\ UNCHANGED tables

Exit == /\ closed /\ (scheduler = 0 \/ AllReturned(scheduler))
        /\ Lost /\ UNCHANGED <<restarts, faults>>

Crash == /\ state # "down" /\ restarts < MaxRestarts
         /\ restarts' = restarts + 1
         /\ Lost /\ UNCHANGED faults

-----------------------------------------------------------------------------
RunStep(r) ==
  \/ WindowEnds(r) \/ Reschedule(r) \/ RunBegin(r) \/ PutRun(r) \/ UpdateTask(r) \/ PutFails(r)
  \/ EnterRunner(r) \/ DecorateFails(r) \/ ReturnRunner(r) \/ FinalStatus(r) \/ LeaveRuns(r)
  \/ PutFinalRun(r) \/ UpdateFinalTask(r) \/ PutFinalFails(r) \/ LeaveRunsAgain(r)

CallStep(c) ==
  \/ \E q \in Requests : Call(c, q)
  \/ shouldPutTask(c) \/ InsertTask(c)
  \/ StartLookup(c) \/ Trigger(c) \/ ScheduleOnce(c)
  \/ StopLookup(c) \/ PutStopping(c) \/ UpdateStopping(c) \/ PutStoppingFails(c)
  \/ DropMutex(c) \/ Stop(c)
  \/ DeleteRow(c) \/ RemoveTask(c) \/ Unschedule(c)
  \/ Resume(c) \/ ResumeDrawerStays(c) \/ ResumeDone(c) \/ \E t \in Tasks : ResumeTask(c, t)
  \/ WaitRuns(c) \/ Return(c)

ProcStep(p) ==
  \/ ScheduleLookup(p) \/ ScheduleApply(p)
  \/ ListTasks(p) \/ Suspend(p) \/ PutDrawer(p) \/ PutDrawerFails(p) \/ StatementFails(p)
  \/ \E t \in Tasks : SuspendTask(p, t)

Next ==
  \/ \E g \in Schedulers, t \in Tasks : Activate(g, t)
  \/ \E r \in RunIds : RunStep(r)
  \/ \E c \in Callers : CallStep(c)
  \/ \E p \in Procs : ProcStep(p)
  \/ Start \/ Loaded \/ Close \/ Exit \/ Crash
  \/ \E t \in Tasks : LoadTask(t)

Spec == Init /\ [][Next]_vars
-----------------------------------------------------------------------------
RunPcs == {"free", "new", "begun", "put", "updated", "runner", "ran", "decided", "left",
           "final", "out", "ended", "done"}
Busy(c) == proc[c].pc \notin {"idle", "done"}

(* The tables hold tasks and runs, the maps of the service refer to runs   *)
(* and calls that exist.                                                   *)
TypeOK ==
  /\ rows \in [Tasks -> [exists: BOOLEAN, enabled: BOOLEAN, deleted: BOOLEAN, status: Status]]
  /\ \A r \in RunIds : \/ runRows[r] = NoRow
                       \/ runRows[r] \in [task: Tasks, status: Status \ {"NEW"}]
  /\ runs \in [Tasks -> RunIds \cup {NoRun}]
  /\ taskLWTMu \in [Tasks -> Callers \cup {None}]
  /\ held \subseteq Callers
  /\ scheduler \in Schedulers \cup {0}
  /\ \A r \in RunIds : run[r].pc \in RunPcs /\ run[r].sched \in Schedulers \cup {0}

(* The final status that a run put stands: nothing overwrites it, no       *)
(* StopTask that races the end of the run (the protocol around taskLWTMu), *)
(* no later run of the task, no restart.                                   *)
FinalStatusStands ==
  [][\A r \in RunIds : run[r].pc \in {"final", "out", "ended", "done"} /\ runRows[r].status \in Final
                         => runRows'[r] = runRows[r]]_vars

(* A run listed in runs has not left it: StopTask never puts STOPPING for  *)
(* a run that is past its final status.                                    *)
ListedRunIsOn ==
  \A t \in Tasks : runs[t] # NoRun =>
    /\ run[runs[t]].task = t
    /\ run[runs[t]].pc \in {"begun", "put", "updated", "runner", "ran", "decided", "out"}

(* A task never executes twice at a time, although suspend replaces the    *)
(* scheduler, which guards against it, without waiting for all its runs:   *)
(* the lock policy refuses the second run.                                 *)
OneRunnerPerTask ==
  \A r, x \in RunIds : r # x /\ run[r].pc = "runner" /\ run[x].pc = "runner"
                       /\ run[r].task = run[x].task => TypeOf[run[r].task] = Suspender

(* While the cluster is suspended its scheduler knows no task but those of *)
(* the allowed type and suspend tasks, whatever calls of PutTask,          *)
(* StartTask, Resume and suspend were under way.                           *)
SuspendedSchedulerIsClean ==
  suspended # NotSuspended /\ scheduler # 0 =>
    \A t \in Tasks : sched[scheduler].details[t] # "none" => TypeOf[t] \in {suspended, Suspender}

(* No run is left RUNNING for good: once the tasks are loaded the last run *)
(* of a task is RUNNING only as long as its goroutine is there, unless a   *)
(* statement failed.                                                       *)
LastRunIsSettled ==
  state = "up" /\ faults = 0 =>
    \A t \in Tasks : RowsOf(t) # {} /\ runRows[LastRun(t)].status = "RUNNING" => Live(LastRun(t))

(* The service uses the lock policy as Policy.tla says: a step that        *)
(* changes the locks or enters or leaves a runner is a PreRun or a PostRun *)
(* of Policy, and only the end of the process drops all of them.           *)
LocksFollowPolicy ==
  Policy!Init /\ [][Policy!vars' = Policy!vars \/ state' = "down" \/ Policy!Next]_vars

(* The mapping of scheduler g to SchedulerPromise. *)
TriggerLeft == [none  |-> None,
                cron  |-> [once |-> FALSE, rest |-> "always"], multi |-> [once |-> TRUE, rest |-> "always"],
                once  |-> [once |-> TRUE, rest |-> "never"],   fired |-> [once |-> FALSE, rest |-> "never"]]
Context(r) ==
  [key |-> run[r].task, window |-> run[r].window, cause |-> run[r].cause,
   result |-> IF run[r].pc # "ended" THEN "none" ELSE IF run[r].err THEN "failed" ELSE "done"]
Promise(g) == INSTANCE SchedulerPromise WITH
    Keys <- Tasks, Runs <- RunIds,
    details <- [t \in Tasks |-> TriggerLeft[sched[g].details[t]]],
    queue <- sched[g].queue, closed <- sched[g].closed, late <- sched[g].late,
    run <- [r \in RunIds |-> IF Live(r) /\ run[r].sched = g THEN Context(r) ELSE None]

ASSUME PromiseAssumption == \A g \in Schedulers : None \notin Promise(g)!Trigger /\ None \notin Promise(g)!Run

PromisesBegin == \A g \in Schedulers : Promise(g)!Init
PromisesGoOn ==
  \A g \in Schedulers : Promise(g)!vars' = Promise(g)!vars \/ state' = "down" \/ Promise(g)!Next

(* Every scheduler of the service does only what pkg/scheduler promises    *)
(* (see SchedulerPromise, which Scheduler implements), whatever calls use  *)
(* it after suspend replaced and closed it; only the end of the process    *)
(* drops them.                                                             *)
SchedulersKeepPromise == PromisesBegin /\ [][PromisesGoOn]_vars
=============================================================================
