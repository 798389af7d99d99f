------------------------- MODULE TaskServiceProofs --------------------------
(***************************************************************************)
(* What holds of the scheduler service for any tasks, calls, runs,         *)
(* schedulers, restarts and failing statements.                            *)
(***************************************************************************)
EXTENDS TaskService, WellFoundedInduction, TLAPS

ProcPcs == {"idle", "put", "insert", "schedule", "apply", "start", "trigger", "once", "stop", "stopping",
            "stopping task", "unlocked", "cancel", "delete", "remove", "unschedule", "list", "suspend",
            "wait", "next", "resume", "return", "done"}
RunStatus == Status \ {"NEW"}
Causes == {"none", "stopped", "window", "closed"}
Details == {"none", "cron", "multi", "once", "fired"}
Allowed == {q.allow : q \in {x \in Requests : x.op = "suspend"} \cup {SuspendProperties}} \cup {Nothing}
LoadRequest == [op |-> "load"]
AllRequests == Requests \cup {SuspendProperties, LoadRequest}

TaskRow == [exists : BOOLEAN, enabled : BOOLEAN, deleted : BOOLEAN, status : Status]
RunRow == [task : Tasks, status : RunStatus]
Info == [running : SUBSET Tasks, pending : SUBSET Tasks, allow : Allowed]
SchedulerState == [details : [Tasks -> Details], queue : SUBSET Tasks,
                   closed : BOOLEAN, late : BOOLEAN]
RunState == [pc : RunPcs, task : Tasks \cup {None}, sched : Schedulers \cup {0}, window : BOOLEAN, cause : Causes,
             err : BOOLEAN, status : RunStatus, mu : Callers \cup {None}]
ProcState == [pc : ProcPcs, req : AllRequests \cup {None}, task : Tasks \cup {None}, enabled : BOOLEAN,
              once : BOOLEAN, l : Schedulers \cup {0}, run : RunIds \cup {NoRun},
              tasks : [Tasks -> BOOLEAN] \cup {None}, todo : SUBSET Tasks, info : Info]

(* Where a call is about one task, has looked up a scheduler, goes over the tasks. *)
WithTask == {"put", "insert", "schedule", "apply", "start", "trigger", "once", "stop", "stopping",
             "stopping task", "unlocked", "cancel", "delete", "remove", "unschedule"}
WithScheduler == {"apply", "trigger", "once", "unschedule", "stopping", "stopping task", "unlocked", "cancel"}
InLoop == {"suspend", "wait", "next"}
Loops == {"load", "suspend", "resume"}

TableType ==
  /\ rows \in [Tasks -> TaskRow]
  /\ runRows \in [RunIds -> RunRow \cup {NoRow}]
  /\ drawer \in Info \cup {None}
ServiceType ==
  /\ state \in {"down", "loading", "up"} /\ closed \in BOOLEAN
  /\ suspended \in Allowed \cup {NotSuspended}
  /\ runs \in [Tasks -> RunIds \cup {NoRun}]
  /\ taskLWTMu \in [Tasks -> Callers \cup {None}]
  /\ resolver \subseteq Tasks /\ noContinue \subseteq Tasks
  /\ scheduler \in Schedulers \cup {0}
  /\ held \subseteq Callers
  /\ faults \in Nat
SchedType == sched \in [Schedulers -> SchedulerState]
RunType ==
  /\ run \in [RunIds -> RunState]
  /\ \A r \in RunIds : Live(r) => run[r].task \in Tasks /\ run[r].sched \in Schedulers
ProcOk(v) ==
  /\ v.pc \notin {"idle", "done"} => v.req \in AllRequests
  /\ v.pc \in WithTask => v.task \in Tasks
  /\ v.pc \in WithScheduler => v.l \in Schedulers
  /\ v.pc \in {"stopping", "stopping task"} => v.run \in RunIds
  /\ v.pc \in InLoop => v.req.op \in Loops
  /\ v.pc \in {"list", "resume"} => v.req.op \in {"suspend", "resume"}
  /\ v.pc \in {"suspend", "wait"} => v.req.op = "suspend"
  /\ v.pc \in {"put", "insert"} => v.req.op \notin Loops
  /\ v.pc \in InLoop \cup {"schedule", "apply"} /\ v.req.op \in Loops => v.tasks \in [Tasks -> BOOLEAN]
ProcType ==
  /\ proc \in [Procs -> ProcState]
  /\ \A p \in Procs : ProcOk(proc[p])

Types_ == TableType /\ ServiceType /\ SchedType /\ RunType /\ ProcType

-----------------------------------------------------------------------------
(* Suspend. *)
Scheduling == {"apply", "trigger", "once"}

(* No process, no run and no scheduler without the server. *)
DownIsEmpty ==
  state = "down" =>
    /\ scheduler = 0
    /\ \A p \in Procs : proc[p].pc \in {"idle", "done"}
    /\ \A r \in RunIds : run[r].pc \in {"free", "done"}

(* Schedulers that suspend has not created yet hold nothing, and nobody has looked them up. *)
NewerIsEmpty ==
  /\ \A g \in Schedulers : g > scheduler => \A t \in Tasks : sched[g].details[t] = "none"
  /\ \A p \in Procs : proc[p].pc \in Scheduling => proc[p].l <= scheduler

(* Who looked up the scheduler of a suspended cluster did so for a task that may run. *)
LookedUpIsAllowed ==
  suspended # NotSuspended =>
    \A p \in Procs : proc[p].pc \in Scheduling /\ proc[p].l = scheduler
                       => TypeOf[proc[p].task] \in {suspended, Suspender}

SuspendInv == DownIsEmpty /\ NewerIsEmpty /\ LookedUpIsAllowed /\ SuspendedSchedulerIsClean

-----------------------------------------------------------------------------
(* The lock policy. *)
InRunner(r) == run[r].pc = "runner" /\ TypeOf[run[r].task] # Suspender

LocksInv ==
  /\ locks \in [Types \cup {"repair", "tablet_repair"} -> {"none", "any"}]
  /\ \A r \in RunIds : InRunner(r) => locks[TypeOf[run[r].task]] = "any"
  /\ \A r, x \in RunIds : r # x /\ InRunner(r) /\ InRunner(x) => TypeOf[run[r].task] # TypeOf[run[x].task]

-----------------------------------------------------------------------------
(* The rows of runs. *)
LastIs(t) == LastRun(t) \in RowsOf(t) /\ \A x \in RowsOf(t) : x <= LastRun(t)
Stopping(c) == proc[c].pc = "stopping"

(* Rows belong to runs that began, and are of their tasks; a task with runs is in the table. *)
RowsOfRuns ==
  /\ \A r \in RunIds : run[r].pc = "free" => runRows[r] = NoRow
  /\ \A r \in RunIds : Live(r) /\ runRows[r] # NoRow => runRows[r].task = run[r].task
  /\ \A c \in Callers : Stopping(c) => /\ run[proc[c].run].pc # "free"
                                       /\ Live(proc[c].run) => run[proc[c].run].task = proc[c].task
                                       /\ runRows[proc[c].run] # NoRow => runRows[proc[c].run].task = proc[c].task
  /\ \A c, d \in Callers : Stopping(c) /\ Stopping(d) /\ proc[c].run = proc[d].run => proc[c].task = proc[d].task

(* What is scheduled, looked up or run is in the table. *)
TabledOnly ==
  /\ \A r \in RunIds : runRows[r] # NoRow => rows[runRows[r].task].exists
  /\ \A r \in RunIds : Live(r) => rows[run[r].task].exists
  /\ \A g \in Schedulers : \A t \in Tasks : t \in sched[g].queue \/ sched[g].details[t] # "none" => rows[t].exists
  /\ \A p \in Procs : /\ proc[p].pc \in WithTask \ {"put", "insert"} => rows[proc[p].task].exists
                      /\ \A t \in proc[p].todo : rows[t].exists

(* The status that a run decided on is a final one. *)
Decided == \A r \in RunIds : run[r].pc \in {"decided", "left", "final"} => run[r].status \in Final

(* Without failing statements a row says RUNNING until the run puts its final status. *)
RunningIsOn ==
  faults = 0 => \A r \in RunIds : runRows[r] # NoRow /\ runRows[r].status = "RUNNING" =>
                  run[r].pc \in {"put", "updated", "runner", "ran", "decided", "left", "done"}
Settled(t) == RowsOf(t) # {} /\ runRows[LastRun(t)].status = "RUNNING" => Live(LastRun(t))

(* LoadTasks runs while the server is loading, and then only. *)
MainInv ==
  /\ state = "loading" => proc[Main].pc \in {"next", "schedule", "apply"} /\ Req(Main) = LoadRequest
  /\ state # "loading" => proc[Main].pc = "idle"

(* The tasks that were loaded are settled. *)
LoadedIsSettled ==
  faults = 0 =>
    /\ state = "loading" => \A t \in Tasks \ proc[Main].todo : Settled(t)
    /\ state = "up" => \A t \in Tasks : Settled(t)

SettledInv == RowsOfRuns /\ TabledOnly /\ Decided /\ RunningIsOn /\ MainInv /\ LoadedIsSettled

-----------------------------------------------------------------------------
(* The final status of a run, without suspend tasks. *)
BeforeFinal == {"free", "new", "begun", "put", "updated", "runner", "ran", "decided", "left"}
Puts == {"stopping", "stopping task"}
WithMutex == Puts \cup {"unlocked"}
AfterPuts == {"unlocked", "cancel", "return", "done"}

(* The mutex of a StopTask is held by the call until its statements are done, then by the run. *)
MutexInv ==
  /\ \A c \in Callers : proc[c].pc \in Puts => c \in held
  /\ \A c \in Callers : proc[c].pc \in WithMutex => taskLWTMu[proc[c].task] = c
  /\ \A t \in Tasks : taskLWTMu[t] # None => proc[taskLWTMu[t]].pc \in WithMutex /\ proc[taskLWTMu[t]].task = t
  /\ \A r \in RunIds : run[r].mu # None => proc[run[r].mu].pc \in Puts \cup AfterPuts
  /\ \A r \in RunIds : run[r].pc = "final" /\ run[r].mu # None => proc[run[r].mu].pc \notin Puts

(* The run that a StopTask is about to put STOPPING for will wait for its mutex, or put no status. *)
StopTarget(c) ==
  LET r == proc[c].run IN
  \/ run[r].pc \in {"begun", "put", "updated", "runner", "ran", "decided"} /\ run[r].task = proc[c].task
  \/ run[r].pc = "left" /\ run[r].mu = c
  \/ run[r].pc \in {"out", "ended", "done"} /\ runRows[r].status \notin Final

StopInv ==
  /\ \A c \in Callers : Stopping(c) => StopTarget(c)
  /\ \A r \in RunIds : run[r].pc \in BeforeFinal => runRows[r].status \notin Final
  /\ \A t \in Tasks : runs[t] # NoRun => runRows[runs[t]].status \notin Final

(* While the tasks are loaded, nothing is about one that is still to come. *)
LoadInv ==
  /\ state = "down" => \A g \in Schedulers : sched[g] = NewScheduler
  /\ state = "loading" =>
       /\ proc[Main].pc \in {"schedule", "apply"} => proc[Main].task \notin proc[Main].todo
       /\ \A p \in Procs \ {Main} : proc[p].pc \in {"idle", "done"}
       /\ \A t \in proc[Main].todo :
            /\ \A g \in Schedulers : t \notin sched[g].queue /\ sched[g].details[t] = "none"
            /\ \A r \in RunIds : Live(r) => run[r].task # t

FinalInv == Suspender \notin Types => MutexInv /\ StopInv /\ LoadInv

-----------------------------------------------------------------------------
(* Type correctness. *)

LEMMA RunRecord ==
  ASSUME RunType, NEW r \in RunIds
  PROVE  /\ run[r] \in RunState
         /\ run[r].pc \in RunPcs /\ run[r].cause \in Causes /\ run[r].err \in BOOLEAN
         /\ run[r].status \in RunStatus /\ run[r].mu \in Callers \cup {None}
         /\ run[r].task \in Tasks \cup {None} /\ run[r].sched \in Schedulers \cup {0}
         /\ run[r].pc \notin {"free", "done"} => run[r].task \in Tasks /\ run[r].sched \in Schedulers
BY DEF RunType, RunState, Live

(* One run changes. *)
LEMMA RunUpdate ==
  ASSUME RunType, NEW r \in RunIds, NEW v \in RunState, run' = [run EXCEPT ![r] = v],
         v.pc \notin {"free", "done"} => v.task \in Tasks /\ v.sched \in Schedulers
  PROVE  RunType'
BY DEF RunType, Live

LEMMA WindowEndsIs ==
  ASSUME NEW r, WindowEnds(r)
  PROVE  /\ run[r].pc # "free" /\ run[r].pc # "done"
         /\ run' = [run EXCEPT ![r].cause = "window"]
         /\ UNCHANGED <<tables, service, bounds, held, locks, sched, proc>>
<1>1. Live(r)
  BY Zenon DEF WindowEnds
<1>2. run[r].pc # "free" /\ run[r].pc # "done"
  BY <1>1 DEF Live
<1>3. run' = [run EXCEPT ![r].cause = "window"]
  BY Zenon DEF WindowEnds
<1>4. QED  BY <1>2, <1>3, Zenon DEF WindowEnds

LEMMA RunSteps ==
  ASSUME Types_, NEW r \in RunIds, RunStep(r)
  PROVE  RunType'
<1> USE DEF Types_
<1>0. run[r] \in RunState /\ (run[r].pc \notin {"free", "done"} => run[r].task \in Tasks /\ run[r].sched \in Schedulers)
  BY RunRecord
<1>1. CASE WindowEnds(r)
  BY <1>0, <1>1, WindowEndsIs, RunUpdate DEF RunState, Causes
<1>2. CASE Reschedule(r)
  <2>1. run' = [run EXCEPT ![r] = [FreeRun EXCEPT !.pc = "done"]]
    BY <1>2, Zenon DEF Reschedule
  <2>2. [FreeRun EXCEPT !.pc = "done"] \in RunState
    BY DEF RunState, Causes, FreeRun, RunPcs, RunStatus, Status, Final
  <2>3. QED  BY <2>1, <2>2, RunUpdate DEF FreeRun
<1>3. CASE RunBegin(r)
  BY <1>0, <1>3, RunUpdate DEF RunBegin, Step, RunState, RunPcs
<1>4. CASE PutRun(r)
  BY <1>0, <1>4, RunUpdate DEF PutRun, Step, RunState, RunPcs
<1>5. CASE UpdateTask(r)
  BY <1>0, <1>5, RunUpdate DEF UpdateTask, Step, RunState, RunPcs
<1>6. CASE PutFails(r)
  BY <1>0, <1>6 DEF RunType, Live, PutFails, RunState, RunPcs
<1>7. CASE EnterRunner(r)
  BY <1>0, <1>7, RunUpdate DEF EnterRunner, Step, RunState, RunPcs
<1>8. CASE DecorateFails(r)
  BY <1>0, <1>8 DEF RunType, Live, DecorateFails, RunState, RunPcs
<1>9. CASE ReturnRunner(r)
  <2>1. PICK e \in BOOLEAN : run' = [run EXCEPT ![r].pc = "ran", ![r].err = e]
    BY <1>9 DEF ReturnRunner
  <2>2. run[r].pc = "runner"
    BY <1>9 DEF ReturnRunner
  <2>3. QED  BY <1>0, <2>1, <2>2 DEF RunType, Live, RunState, RunPcs
<1>10. CASE FinalStatus(r)
  <2>1. statusAndCauseFromCtxAndErr(r) \in RunStatus
    BY <1>0 DEF statusAndCauseFromCtxAndErr, RunState, Causes, RunStatus, Status, Final
  <2>2. QED  BY <1>0, <1>10, <2>1 DEF RunType, Live, FinalStatus, RunState, RunPcs, RunStatus, Status, Final
<1>11. CASE LeaveRuns(r)
  BY <1>0, <1>11 DEF RunType, Live, LeaveRuns, RunState, RunPcs, ServiceType
<1>12. CASE PutFinalRun(r)
  BY <1>0, <1>12, RunUpdate DEF PutFinalRun, Step, RunState, RunPcs
<1>13. CASE UpdateFinalTask(r)
  BY <1>0, <1>13, RunUpdate DEF UpdateFinalTask, StepOut, FreeRun, RunState, RunPcs, RunStatus, Status, Final
<1>14. CASE PutFinalFails(r)
  BY <1>0, <1>14, RunUpdate DEF PutFinalFails, StepOut, FreeRun, RunState, RunPcs, RunStatus, Status, Final
<1>15. CASE LeaveRunsAgain(r)
  BY <1>0, <1>15, RunUpdate DEF LeaveRunsAgain, Step, RunState, RunPcs
<1>16. QED
  BY <1>1, <1>2, <1>3, <1>4, <1>5, <1>6, <1>7, <1>8, <1>9, <1>10, <1>11, <1>12, <1>13, <1>14, <1>15 DEF RunStep

LEMMA LeastExists ==
  ASSUME NEW S \in SUBSET Nat, S # {} PROVE \E x \in S : \A y \in S : x <= y
<1> DEFINE R == {ss \in Nat \X Nat : ss[1] < ss[2]}
<1>1. IsWellFoundedOn(R, Nat)
  BY NatLessThanWellFounded, Zenon DEF OpToRel
<1> HIDE DEF R
<1>3. PICK x \in S : \A y \in S : <<y, x>> \notin R
  BY <1>1, WFMin
<1>4. \A y \in S : ~(y < x)
  BY <1>3 DEF R
<1>5. QED  BY <1>3, <1>4

(* A free run is found: NextRun is the least of them. *)
LEMMA NextRunIsFree ==
  ASSUME FreeRuns # {} PROVE NextRun \in FreeRuns /\ NextRun \in RunIds /\ run[NextRun].pc = "free"
<1>0. FreeRuns \in SUBSET Nat
  BY TaskServiceAssumption DEF FreeRuns, RunIds
<1>1. \E r \in FreeRuns : \A x \in FreeRuns : r <= x
  BY <1>0, LeastExists
<1>2. NextRun \in FreeRuns
  BY <1>1 DEF NextRun
<1>3. QED  BY <1>2 DEF FreeRuns

LEMMA RegisteredType ==
  ASSUME Types_, FreeRuns # {}, NEW g \in Schedulers, NEW t \in Tasks, NEW w \in BOOLEAN,
         run' = Registered(g, t, w)
  PROVE  RunType'
<1>1. NextRun \in RunIds
  BY NextRunIsFree DEF FreeRuns
<1>2. [FreeRun EXCEPT !.pc = "new", !.task = t, !.sched = g, !.window = w] \in RunState
  BY DEF FreeRun, RunState, RunPcs, Causes, RunStatus, Status, Final
<1>3. QED  BY <1>1, <1>2, RunUpdate DEF Types_, Registered, FreeRun

LEMMA CancelledType ==
  ASSUME Types_, NEW g, NEW ts, NEW cause \in Causes, run' = Cancelled(g, ts, cause)
  PROVE  RunType'
<1>1. ASSUME NEW r \in RunIds
      PROVE  run'[r] \in RunState /\ run'[r].pc = run[r].pc /\ run'[r].task = run[r].task /\ run'[r].sched = run[r].sched
  <2>1. run[r] \in RunState
    BY RunRecord DEF Types_
  <2>2. run'[r] = run[r] \/ run'[r] = [run[r] EXCEPT !.cause = cause]
    BY DEF Cancelled
  <2>3. QED  BY <2>1, <2>2 DEF RunState
<1>2. run' \in [RunIds -> RunState]
  <2>1. DOMAIN run' = RunIds /\ run' = [r \in RunIds |-> run'[r]]
    BY DEF Cancelled
  <2>2. QED  BY <1>1, <2>1
<1>3. QED  BY <1>1, <1>2 DEF Types_, RunType, Live

LEMMA LostType == ASSUME Types_, Lost PROVE RunType'
<1>1. FreeRun \in RunState /\ [FreeRun EXCEPT !.pc = "done"] \in RunState
  BY DEF FreeRun, RunState, RunPcs, Causes, RunStatus, Status, Final
<1>2. QED  BY <1>1 DEF Lost, RunType, Live, FreeRun

(* One process changes. *)
LEMMA ProcUpdate ==
  ASSUME ProcType, NEW p \in Procs, NEW v \in ProcState, ProcOk(v), proc' = [proc EXCEPT ![p] = v]
  PROVE  ProcType'
BY DEF ProcType

LEMMA IdleIsOk ==
  /\ IdleProc \in ProcState /\ ProcOk(IdleProc)
  /\ [IdleProc EXCEPT !.pc = "done"] \in ProcState /\ ProcOk([IdleProc EXCEPT !.pc = "done"])
<1>1. NoInfo \in Info
  BY DEF NoInfo, Info, Allowed
<1>2. QED  BY <1>1 DEF IdleProc, ProcState, ProcOk, ProcPcs, WithTask, WithScheduler, InLoop

LEMMA DoneType ==
  ASSUME ProcType, NEW p \in Procs, Done(p) PROVE ProcType'
BY ProcUpdate, IdleIsOk DEF Done

LEMMA ProcRecord ==
  ASSUME ProcType, NEW p \in Procs
  PROVE  /\ proc[p] \in ProcState /\ ProcOk(proc[p])
         /\ proc[p].pc \in ProcPcs /\ proc[p].l \in Schedulers \cup {0} /\ proc[p].run \in RunIds \cup {NoRun}
         /\ proc[p].task \in Tasks \cup {None} /\ proc[p].todo \in SUBSET Tasks /\ proc[p].info \in Info
         /\ proc[p].enabled \in BOOLEAN /\ proc[p].once \in BOOLEAN
BY DEF ProcType, ProcState

LEMMA AllowIsAllowed ==
  ASSUME ProcType, NEW p \in Procs, proc[p].pc = "suspend"
  PROVE  Req(p).allow \in Allowed /\ Req(p).allow # NotSuspended
<1>1. Req(p).op = "suspend" /\ Req(p) \in AllRequests
  BY ProcRecord DEF ProcOk, Req
<1>2. Req(p) # LoadRequest
  BY <1>1 DEF LoadRequest
<1>3. QED  BY <1>1, <1>2, TaskServiceAssumption DEF AllRequests, Allowed

(* A process goes on with the same data. *)
LEMMA GotoType ==
  ASSUME ProcType, NEW p \in Procs, NEW pc \in ProcPcs, Goto(p, pc), proc[p].pc \notin {"idle", "done"},
         pc \in WithTask => proc[p].task \in Tasks,
         pc \in WithScheduler => proc[p].l \in Schedulers,
         pc \in {"stopping", "stopping task"} => proc[p].run \in RunIds,
         pc \in InLoop => Req(p).op \in Loops,
         pc \notin {"list", "resume", "suspend", "wait"},
         pc \in {"put", "insert"} => Req(p).op \notin Loops,
         pc \in InLoop \cup {"schedule", "apply"} /\ Req(p).op \in Loops => proc[p].tasks \in [Tasks -> BOOLEAN]
  PROVE  ProcType'
<1>1. proc[p] \in ProcState /\ ProcOk(proc[p])
  BY ProcRecord
<1> DEFINE v == [proc[p] EXCEPT !.pc = pc]
<1>2. v \in ProcState /\ v.pc = pc /\ v.req = proc[p].req /\ v.task = proc[p].task /\ v.l = proc[p].l
        /\ v.run = proc[p].run /\ v.tasks = proc[p].tasks
  BY <1>1 DEF ProcState
<1>3. proc' = [proc EXCEPT ![p] = v]
  BY DEF Goto
<1> HIDE DEF v
<1>4. ProcOk(v)
  BY <1>1, <1>2 DEF ProcOk, Req
<1>5. QED  BY <1>2, <1>3, <1>4, ProcUpdate

LEMMA ReturnedType ==
  ASSUME ProcType, NEW p \in Procs, proc[p].pc \in {"schedule", "apply"}, Goto(p, Returned(p)) PROVE ProcType'
<1>1. proc[p] \in ProcState /\ ProcOk(proc[p])
  BY ProcRecord
<1>2. Returned(p) \in ProcPcs
  BY DEF Returned, ProcPcs
<1>3. QED
  BY <1>1, <1>2, GotoType DEF Returned, ProcOk, WithTask, WithScheduler, InLoop, Loops, Req

LEMMA Flag == ASSUME NEW x, NEW S PROVE \E e \in BOOLEAN : e = (x \in S)
<1>1. (x \in S) \in BOOLEAN
  OBVIOUS
<1>2. QED  BY <1>1, Zenon

LEMMA TaskListType ==
  ASSUME TableType PROVE Tabled \in SUBSET Tasks /\ Enabled \in [Tasks -> BOOLEAN]
BY DEF TableType, TaskRow, Tabled, Enabled

LEMMA ToType ==
  ASSUME Types_, NEW p \in Procs, NEW t \in Tasks, NEW pc \in {"next", "schedule"}, NEW once \in BOOLEAN,
         proc[p].pc = "next", To(p, t, pc, once)
  PROVE  ProcType'
<1> USE DEF Types_
<1>0. proc[p] \in ProcState /\ ProcOk(proc[p])
  BY ProcRecord
<1>1. proc[p].tasks[t] \in BOOLEAN
  BY <1>0 DEF ProcOk, InLoop
<1> DEFINE v == [proc[p] EXCEPT !.pc = pc, !.todo = proc[p].todo \ {t}, !.task = t, !.enabled = proc[p].tasks[t], !.once = once]
<1>11. /\ v \in ProcState /\ v.pc = pc /\ v.task = t
       /\ v.req = proc[p].req /\ v.l = proc[p].l /\ v.run = proc[p].run /\ v.tasks = proc[p].tasks
  BY <1>0, <1>1 DEF ProcState, ProcPcs, To
<1>12. proc' = [proc EXCEPT ![p] = v]
  BY <1>0, <1>1 DEF ProcType, To
<1> HIDE DEF v
<1>13. ProcOk(v)
  BY <1>0, <1>1, <1>11 DEF ProcOk, WithTask, WithScheduler, InLoop, Loops, Req, To
<1>14. QED  BY <1>0, <1>11, <1>12, <1>13, ProcUpdate

(* Every process step keeps the type of processes; <1>0 and the guard give what the new step needs. *)
LEMMA CallType ==
  ASSUME Types_, NEW c \in Callers, NEW q \in Requests, Call(c, q) PROVE ProcType'
<1>1. c \in Procs
  BY DEF Procs
<1>2. /\ q.op = "put" => First(q) = "put"
      /\ q.op = "start" => First(q) = "start"
      /\ q.op = "delete" => First(q) = "delete"
      /\ q.op = "suspend" => First(q) = "list"
      /\ q.op = "resume" => First(q) = "resume"
      /\ q.op = "stop" => First(q) \in {"put", "stop"}
  BY DEF First
<1>3. /\ First(q) \in {"put", "start", "delete", "list", "resume", "stop"}
      /\ First(q) \in WithTask => q.op \notin {"suspend", "resume"}
      /\ First(q) \in {"list", "resume"} => q.op \in {"suspend", "resume"}
      /\ First(q) = "put" => q.op \notin Loops
  BY <1>2, TaskServiceAssumption DEF WithTask, Loops
<1>4. PICK e \in BOOLEAN : e = (q.op = "put" /\ q.flag)
  OBVIOUS
<1> DEFINE v == [IdleProc EXCEPT !.pc = First(q), !.req = q, !.task = q.task, !.enabled = e]
<1>5. v \in ProcState /\ v.pc = First(q) /\ v.req = q /\ v.task = q.task
  <2>1. q.task \in Tasks \cup {None} /\ First(q) \in ProcPcs /\ q \in AllRequests
    BY <1>3, TaskServiceAssumption DEF ProcPcs, AllRequests
  <2>2. IdleProc \in ProcState
    BY IdleIsOk
  <2>3. QED  BY <2>1, <2>2 DEF ProcState
<1>6. proc' = [proc EXCEPT ![c] = v]
  BY <1>4 DEF Call
<1> HIDE DEF v
<1>7. ProcOk(v)
  BY <1>3, <1>5, TaskServiceAssumption DEF ProcOk, WithTask, WithScheduler, InLoop, AllRequests
<1>8. QED  BY <1>1, <1>5, <1>6, <1>7, ProcUpdate DEF Types_

LEMMA CallSteps ==
  ASSUME Types_, NEW c \in Callers, CallStep(c) PROVE ProcType'
<1> USE DEF Types_
<1>0. c \in Procs /\ proc[c] \in ProcState /\ ProcOk(proc[c])
  BY ProcRecord DEF Procs
<1>1. ASSUME NEW q \in Requests, Call(c, q) PROVE ProcType'
  BY <1>1, CallType
<1>2. CASE shouldPutTask(c)
  BY <1>0, <1>2, DoneType, GotoType DEF shouldPutTask, ProcOk, ProcPcs, WithTask, WithScheduler, InLoop, Req
<1>3. CASE InsertTask(c)
  BY <1>0, <1>3, GotoType DEF InsertTask, ProcOk, ProcPcs, WithTask, WithScheduler, InLoop, Req
<1>4. CASE StartLookup(c)
  <2>1. CASE Done(c)
    BY <1>0, <2>1, DoneType
  <2>2. CASE proc[c].pc = "start" /\ proc' = [proc EXCEPT ![c].pc = "trigger", ![c].l = CurrentScheduler]
    <3>1. CurrentScheduler \in Schedulers
      BY TaskServiceAssumption DEF CurrentScheduler, Schedulers, ServiceType
    <3> DEFINE v == [proc[c] EXCEPT !.pc = "trigger", !.l = CurrentScheduler]
    <3>11. /\ v \in ProcState /\ v.pc = "trigger" /\ v.l = CurrentScheduler
         /\ v.req = proc[c].req /\ v.task = proc[c].task /\ v.run = proc[c].run /\ v.tasks = proc[c].tasks
      BY <1>0, <2>2, <3>1 DEF ProcState, ProcPcs
    <3>12. proc' = [proc EXCEPT ![c] = v]
      BY <1>0, <2>2, <3>1 DEF ProcType
    <3> HIDE DEF v
    <3>13. ProcOk(v)
      BY <1>0, <2>2, <3>1, <3>11 DEF ProcOk, WithTask, WithScheduler, InLoop, Loops, Req
    <3>14. QED  BY <1>0, <3>11, <3>12, <3>13, ProcUpdate
  <2>3. QED  BY <1>4, <2>1, <2>2 DEF StartLookup
<1>5. CASE Trigger(c)
  BY <1>0, <1>5, DoneType, GotoType DEF Trigger, ProcOk, ProcPcs, WithTask, WithScheduler, InLoop
<1>6. CASE ScheduleOnce(c)
  BY <1>0, <1>6, DoneType DEF ScheduleOnce
<1>7. CASE StopLookup(c)
  <2>1. CASE Done(c)
    BY <1>0, <2>1, DoneType
  <2>2. CASE /\ proc[c].pc = "stop" /\ scheduler # 0 /\ runs[proc[c].task] # NoRun
             /\ proc' = [proc EXCEPT ![c].pc = "stopping", ![c].l = scheduler, ![c].run = runs[proc[c].task]]
    <3>1. scheduler \in Schedulers /\ runs[proc[c].task] \in RunIds
      BY <1>0, <2>2 DEF ProcOk, WithTask, ServiceType
    <3> DEFINE v == [proc[c] EXCEPT !.pc = "stopping", !.l = scheduler, !.run = runs[proc[c].task]]
    <3>11. /\ v \in ProcState /\ v.pc = "stopping" /\ v.l = scheduler /\ v.run = runs[proc[c].task]
         /\ v.req = proc[c].req /\ v.task = proc[c].task /\ v.tasks = proc[c].tasks
      BY <1>0, <2>2, <3>1 DEF ProcState, ProcPcs
    <3>12. proc' = [proc EXCEPT ![c] = v]
      BY <1>0, <2>2, <3>1 DEF ProcType
    <3> HIDE DEF v
    <3>13. ProcOk(v)
      BY <1>0, <2>2, <3>1, <3>11 DEF ProcOk, WithTask, WithScheduler, InLoop, Loops, Req
    <3>14. QED  BY <1>0, <3>11, <3>12, <3>13, ProcUpdate
  <2>3. QED  BY <1>7, <2>1, <2>2 DEF StopLookup
<1>8. CASE PutStopping(c)
  BY <1>0, <1>8, GotoType DEF PutStopping, ProcOk, ProcPcs, WithTask, WithScheduler, InLoop
<1>9. CASE UpdateStopping(c)
  BY <1>0, <1>9, GotoType DEF UpdateStopping, ProcOk, ProcPcs, WithTask, WithScheduler, InLoop
<1>10. CASE PutStoppingFails(c)
  <2> DEFINE v == [proc[c] EXCEPT !.pc = "unlocked", !.run = NoRun]
  <2>11. /\ v \in ProcState /\ v.pc = "unlocked" /\ v.run = NoRun
         /\ v.req = proc[c].req /\ v.task = proc[c].task /\ v.l = proc[c].l /\ v.tasks = proc[c].tasks
    BY <1>0 DEF ProcState, ProcPcs
  <2>12. proc' = [proc EXCEPT ![c] = v]
    BY <1>0, <1>10 DEF ProcType, PutStoppingFails
  <2>13. proc[c].pc \in {"stopping", "stopping task"}
    BY <1>10 DEF PutStoppingFails
  <2> HIDE DEF v
  <2>14. ProcOk(v)
    BY <1>0, <2>11, <2>13 DEF ProcOk, WithTask, WithScheduler, InLoop
  <2>15. QED  BY <1>0, <2>11, <2>12, <2>14, ProcUpdate
<1>11. CASE DropMutex(c)
  BY <1>0, <1>11, GotoType DEF DropMutex, ProcOk, ProcPcs, WithTask, WithScheduler, InLoop
<1>12. CASE Stop(c)
  BY <1>0, <1>12, DoneType DEF Stop
<1>13. CASE DeleteRow(c)
  BY <1>0, <1>13, GotoType DEF DeleteRow, ProcOk, ProcPcs, WithTask, WithScheduler, InLoop
<1>14. CASE RemoveTask(c)
  <2> DEFINE v == [proc[c] EXCEPT !.pc = (IF scheduler = 0 THEN "return" ELSE "unschedule"), !.l = scheduler]
    <2>11. /\ v \in ProcState /\ v.pc = (IF scheduler = 0 THEN "return" ELSE "unschedule") /\ v.l = scheduler
         /\ v.req = proc[c].req /\ v.task = proc[c].task /\ v.run = proc[c].run /\ v.tasks = proc[c].tasks
      BY <1>0, <1>14 DEF ProcState, ProcPcs, RemoveTask, ServiceType
    <2>12. proc' = [proc EXCEPT ![c] = v]
      BY <1>0, <1>14 DEF ProcType, RemoveTask, ServiceType
    <2> HIDE DEF v
    <2>13. ProcOk(v)
      BY <1>0, <1>14, <2>11 DEF RemoveTask, ServiceType, ProcOk, WithTask, WithScheduler, InLoop, Loops, Req
    <2>14. QED  BY <1>0, <2>11, <2>12, <2>13, ProcUpdate
<1>15. CASE Unschedule(c)
  BY <1>0, <1>15, DoneType DEF Unschedule
<1>16. CASE Resume(c)
  <2>1. CASE Done(c)
    BY <1>0, <2>1, DoneType
  <2>2. CASE /\ proc[c].pc = "resume"
             /\ proc' = [proc EXCEPT ![c].pc = "list", ![c].info = IF drawer = None THEN NoInfo ELSE drawer]
    <3>1. (IF drawer = None THEN NoInfo ELSE drawer) \in Info
      BY IdleIsOk DEF TableType, IdleProc, ProcState
    <3> DEFINE v == [proc[c] EXCEPT !.pc = "list", !.info = (IF drawer = None THEN NoInfo ELSE drawer)]
    <3>11. /\ v \in ProcState /\ v.pc = "list"
         /\ v.req = proc[c].req /\ v.task = proc[c].task /\ v.l = proc[c].l /\ v.run = proc[c].run /\ v.tasks = proc[c].tasks
      BY <1>0, <2>2, <3>1 DEF ProcState, ProcPcs
    <3>12. proc' = [proc EXCEPT ![c] = v]
      BY <1>0, <2>2, <3>1 DEF ProcType
    <3> HIDE DEF v
    <3>13. ProcOk(v)
      BY <1>0, <2>2, <3>1, <3>11 DEF ProcOk, WithTask, WithScheduler, InLoop, Loops, Req
    <3>14. QED  BY <1>0, <3>11, <3>12, <3>13, ProcUpdate
  <2>3. QED  BY <1>16, <2>1, <2>2 DEF Resume
<1>17. CASE ResumeDrawerStays(c)
  <2>1. drawer \in Info
    BY <1>17 DEF ResumeDrawerStays, TableType
  <2> DEFINE v == [proc[c] EXCEPT !.pc = "list", !.info = drawer]
    <2>11. /\ v \in ProcState /\ v.pc = "list"
         /\ v.req = proc[c].req /\ v.task = proc[c].task /\ v.l = proc[c].l /\ v.run = proc[c].run /\ v.tasks = proc[c].tasks
      BY <1>0, <1>17, <2>1 DEF ProcState, ProcPcs, ResumeDrawerStays
    <2>12. proc' = [proc EXCEPT ![c] = v]
      BY <1>0, <1>17, <2>1 DEF ProcType, ResumeDrawerStays
    <2> HIDE DEF v
    <2>13. ProcOk(v)
      BY <1>0, <1>17, <2>1, <2>11 DEF ResumeDrawerStays, ProcOk, WithTask, WithScheduler, InLoop, Loops, Req
    <2>14. QED  BY <1>0, <2>11, <2>12, <2>13, ProcUpdate
<1>18. CASE ResumeDone(c)
  BY <1>0, <1>18, DoneType DEF ResumeDone
<1>19. ASSUME NEW t \in Tasks, ResumeTask(c, t) PROVE ProcType'
  <2>1. PICK pc \in {"next", "schedule"}, once \in BOOLEAN : To(c, t, pc, once)
    BY <1>19 DEF ResumeTask, shouldStartTaskOnResume
  <2>2. QED  BY <1>0, <1>19, <2>1, ToType DEF ResumeTask, NextTask
<1>20. CASE WaitRuns(c)
  BY <1>0, <1>20, GotoType DEF WaitRuns, ProcOk, ProcPcs, WithTask, WithScheduler, InLoop, Req
<1>21. CASE Return(c)
  BY <1>0, <1>21, DoneType DEF Return
<1>22. QED
  BY <1>1, <1>2, <1>3, <1>4, <1>5, <1>6, <1>7, <1>8, <1>9, <1>10, <1>11, <1>12, <1>13, <1>14, <1>15, <1>16,
     <1>17, <1>18, <1>19, <1>20, <1>21 DEF CallStep

LEMMA ProcSteps ==
  ASSUME Types_, NEW p \in Procs, ProcStep(p) PROVE ProcType'
<1> USE DEF Types_
<1>0. proc[p] \in ProcState /\ ProcOk(proc[p])
  BY ProcRecord
<1>1. CASE ScheduleLookup(p)
  <2>1. CASE proc[p].pc = "schedule" /\ Goto(p, Returned(p))
    BY <2>1, ReturnedType
  <2>2. CASE proc[p].pc = "schedule" /\ proc' = [proc EXCEPT ![p].pc = "apply", ![p].l = CurrentScheduler]
    <3>1. CurrentScheduler \in Schedulers
      BY TaskServiceAssumption DEF CurrentScheduler, Schedulers, ServiceType
    <3> DEFINE v == [proc[p] EXCEPT !.pc = "apply", !.l = CurrentScheduler]
    <3>11. /\ v \in ProcState /\ v.pc = "apply" /\ v.l = CurrentScheduler
           /\ v.req = proc[p].req /\ v.task = proc[p].task /\ v.run = proc[p].run /\ v.tasks = proc[p].tasks
      BY <1>0, <2>2, <3>1 DEF ProcState, ProcPcs
    <3>12. proc' = [proc EXCEPT ![p] = v]
      BY <1>0, <2>2, <3>1 DEF ProcType
    <3> HIDE DEF v
    <3>13. ProcOk(v)
      BY <1>0, <2>2, <3>1, <3>11 DEF ProcOk, WithTask, WithScheduler, InLoop, Loops, Req
    <3>14. QED  BY <1>0, <3>11, <3>12, <3>13, ProcUpdate
  <2>3. QED  BY <1>1, <2>1, <2>2 DEF ScheduleLookup
<1>2. CASE ScheduleApply(p)
  BY <1>2, ReturnedType DEF ScheduleApply
<1>3. CASE ListTasks(p)
  <2>1. Tabled \in SUBSET Tasks /\ Enabled \in [Tasks -> BOOLEAN]
    BY TaskListType
  <2>2. PICK pc \in {"next", "suspend"} : /\ proc' = [proc EXCEPT ![p].pc = pc, ![p].todo = Tabled, ![p].tasks = Enabled]
                                          /\ pc = IF Req(p).op = "resume" THEN "next" ELSE "suspend"
    BY <1>3 DEF ListTasks
  <2>3. proc[p].pc = "list"
    BY <1>3 DEF ListTasks
  <2> DEFINE v == [proc[p] EXCEPT !.pc = pc, !.todo = Tabled, !.tasks = Enabled]
  <2>11. /\ v \in ProcState /\ v.pc = pc /\ v.tasks = Enabled
         /\ v.req = proc[p].req /\ v.task = proc[p].task /\ v.l = proc[p].l /\ v.run = proc[p].run
    <3>1. pc \in ProcPcs
      BY DEF ProcPcs
    <3>2. QED  BY <1>0, <2>1, <3>1 DEF ProcState
  <2>12. proc' = [proc EXCEPT ![p] = v]
    BY <1>0, <2>1, <2>2, <2>3 DEF ProcType
  <2> HIDE DEF v
  <2>13. ProcOk(v)
    BY <1>0, <2>1, <2>2, <2>3, <2>11 DEF ProcOk, WithTask, WithScheduler, InLoop, Loops, Req
  <2>14. QED  BY <1>0, <2>11, <2>12, <2>13, ProcUpdate
<1>4. CASE Suspend(p)
  <2>1. CASE Done(p)
    BY <2>1, DoneType
  <2>2. CASE ~Done(p)
    <3> DEFINE i == [running |-> Running(scheduler), pending |-> IF scheduler = 0 THEN {} ELSE sched[scheduler].queue,
                     allow |-> Req(p).allow]
    <3>1. i \in Info
      <4>1. Running(scheduler) \in SUBSET Tasks
        BY RunRecord DEF Running, Live
      <4>2. (IF scheduler = 0 THEN {} ELSE sched[scheduler].queue) \in SUBSET Tasks
        BY DEF SchedType, SchedulerState, ServiceType
      <4>3. Req(p).allow \in Allowed
        BY <1>4, AllowIsAllowed DEF Suspend
      <4>4. QED  BY <4>1, <4>2, <4>3 DEF Info
    <3>2. PICK pc \in {"wait", "next"} : proc' = [proc EXCEPT ![p].pc = pc, ![p].l = scheduler, ![p].info = i]
      BY <1>4, <2>2 DEF Suspend
    <3>3. proc[p].pc = "suspend" /\ scheduler \in Schedulers \cup {0}
      BY <1>4 DEF Suspend, ServiceType
    <3> HIDE DEF i
    <3> DEFINE v == [proc[p] EXCEPT !.pc = pc, !.l = scheduler, !.info = i]
    <3>11. /\ v \in ProcState /\ v.pc = pc /\ v.l = scheduler
           /\ v.req = proc[p].req /\ v.task = proc[p].task /\ v.run = proc[p].run /\ v.tasks = proc[p].tasks
      BY <1>0, <3>1, <3>2, <3>3 DEF ProcState, ProcPcs
    <3>12. proc' = [proc EXCEPT ![p] = v]
      BY <1>0, <3>1, <3>2, <3>3 DEF ProcType
    <3> HIDE DEF v
    <3>13. ProcOk(v)
      BY <1>0, <3>1, <3>2, <3>3, <3>11 DEF ProcOk, WithTask, WithScheduler, InLoop, Loops, Req
    <3>14. QED  BY <1>0, <3>11, <3>12, <3>13, ProcUpdate
  <2>3. QED  BY <2>1, <2>2
<1>5. CASE PutDrawer(p) \/ PutDrawerFails(p) \/ StatementFails(p)
  BY <1>5, DoneType DEF PutDrawer, PutDrawerFails, StatementFails
<1>6. ASSUME NEW t \in Tasks, SuspendTask(p, t) PROVE ProcType'
  <2>0. PICK e \in BOOLEAN : e = (t \in proc[p].info.running)
    BY Flag, Zenon
  <2>1. PICK pc \in {"next", "schedule"}, once \in BOOLEAN : To(p, t, pc, once)
    BY <1>6, <2>0 DEF SuspendTask
  <2>2. QED  BY <1>6, <2>1, ToType DEF SuspendTask, NextTask
<1>7. QED  BY <1>1, <1>2, <1>3, <1>4, <1>5, <1>6 DEF ProcStep

LEMMA EnterRunnerProc ==
  ASSUME Types_, NEW r \in RunIds, EnterRunner(r) PROVE ProcType'
<1> DEFINE v == [IdleProc EXCEPT !.pc = "list", !.req = SuspendProperties]
<1>1. r \in Procs
  BY DEF Procs
<1>2. v \in ProcState /\ v.pc = "list" /\ v.req = SuspendProperties
  BY IdleIsOk DEF IdleProc, ProcState, ProcPcs, AllRequests
<1>3. proc' = proc \/ proc' = [proc EXCEPT ![r] = v]
  BY DEF EnterRunner
<1> HIDE DEF v
<1>4. ProcOk(v)
  BY <1>2, TaskServiceAssumption DEF ProcOk, WithTask, WithScheduler, InLoop, AllRequests
<1>5. QED  BY <1>1, <1>2, <1>3, <1>4, ProcUpdate DEF Types_, ProcType

LEMMA LifeProc ==
  ASSUME Types_, \/ Start \/ Loaded \/ Lost \/ \E t \in Tasks : LoadTask(t) PROVE ProcType'
<1> USE DEF Types_
<1>0. Main \in Procs
  BY DEF Procs
<1>1. CASE Start
  <2> DEFINE v == [IdleProc EXCEPT !.pc = "next", !.req = LoadRequest, !.todo = Tabled, !.tasks = Enabled]
  <2>1. v \in ProcState /\ v.pc = "next" /\ v.req = LoadRequest /\ v.tasks = Enabled
    BY IdleIsOk, TaskListType DEF IdleProc, ProcState, ProcPcs, AllRequests
  <2>2. proc' = [proc EXCEPT ![Main] = v]
    BY <1>1 DEF Start, LoadRequest
  <2> HIDE DEF v
  <2>3. ProcOk(v)
    BY <2>1, TaskListType DEF ProcOk, WithTask, WithScheduler, InLoop, Loops, AllRequests, LoadRequest
  <2>4. QED  BY <1>0, <2>1, <2>2, <2>3, ProcUpdate
<1>2. CASE Loaded
  BY <1>0, <1>2, IdleIsOk, ProcUpdate DEF Loaded
<1>3. CASE Lost
  BY <1>3, IdleIsOk DEF Lost, ProcType
<1>4. ASSUME NEW t \in Tasks, LoadTask(t) PROVE ProcType'
  <2> DEFINE last == IF RowsOf(t) = {} THEN "none" ELSE runRows[LastRun(t)].status
             cut == {"RUNNING", "ABORTED"}
  <2>1. To(Main, t, "schedule", last \in cut)
    BY <1>4 DEF LoadTask
  <2> HIDE DEF last, cut
  <2>0. PICK e \in BOOLEAN : e = (last \in cut)
    BY Flag, Zenon
  <2>2. To(Main, t, "schedule", e)
    BY <2>0, <2>1
  <2>3. QED  BY <1>0, <1>4, <2>2, ToType DEF LoadTask, NextTask
<1>5. QED  BY <1>1, <1>2, <1>3, <1>4

(* What the steps of runs leave alone of the processes, and the steps of processes of the runs. *)
LEMMA ProcTypeStep == ASSUME Types_, Next PROVE ProcType'
<1> USE DEF Types_
<1>1. ASSUME NEW r \in RunIds, RunStep(r) PROVE ProcType'
  <2>1. CASE EnterRunner(r)
    BY <2>1, EnterRunnerProc
  <2>2. CASE ~EnterRunner(r)
    <3>1. proc' = proc
      BY <1>1, <2>2 DEF RunStep, WindowEnds, Reschedule, RunBegin, PutRun, UpdateTask, PutFails, DecorateFails,
        ReturnRunner, FinalStatus, LeaveRuns, PutFinalRun, UpdateFinalTask, PutFinalFails, LeaveRunsAgain
    <3>2. QED  BY <3>1 DEF ProcType
  <2>3. QED  BY <2>1, <2>2
<1>2. ASSUME NEW g \in Schedulers, NEW t \in Tasks, Activate(g, t) PROVE ProcType'
  BY <1>2 DEF Activate, ProcType
<1>3. CASE Close
  BY <1>3 DEF Close, ProcType
<1>4. QED  BY <1>1, <1>2, <1>3, CallSteps, ProcSteps, LifeProc DEF Next, Exit, Crash

LEMMA RunTypeStep == ASSUME Types_, Next PROVE RunType'
<1> USE DEF Types_
<1>1. ASSUME NEW c \in Callers, CallStep(c) PROVE RunType'
  <2>0. c \in Procs /\ proc[c] \in ProcState /\ ProcOk(proc[c])
    BY ProcRecord DEF Procs
  <2>1. CASE Trigger(c)
    <3>1. CASE run' = run
      BY <3>1 DEF RunType, Live
    <3>2. CASE run' # run
      <4>1. proc[c].l \in Schedulers /\ proc[c].task \in Tasks
        BY <2>0, <2>1 DEF Trigger, ProcOk, WithTask, WithScheduler
      <4>2. FreeRuns # {} /\ run' = Registered(proc[c].l, proc[c].task, FALSE)
        BY <2>1, <3>2 DEF Trigger
      <4>3. QED  BY <4>1, <4>2, RegisteredType
    <3>3. QED  BY <3>1, <3>2
  <2>2. CASE Stop(c)
    BY <2>2, CancelledType DEF Stop, Causes
  <2>3. CASE ~Trigger(c) /\ ~Stop(c)
    <3>1. run' = run
      BY <1>1, <2>3 DEF CallStep, Call, shouldPutTask, InsertTask, StartLookup, ScheduleOnce, StopLookup, PutStopping,
        UpdateStopping, PutStoppingFails, DropMutex, DeleteRow, RemoveTask, Unschedule, Resume, ResumeDrawerStays,
        ResumeDone, ResumeTask, WaitRuns, Return
    <3>2. QED  BY <3>1 DEF RunType, Live
  <2>4. QED  BY <2>1, <2>2, <2>3
<1>2. ASSUME NEW p \in Procs, ProcStep(p) PROVE RunType'
  <2>1. run' = run \/ run' = Cancelled(scheduler, Running(scheduler), "closed")
    BY <1>2 DEF ProcStep, ScheduleLookup, ScheduleApply, ListTasks, Suspend, PutDrawer, PutDrawerFails, StatementFails,
      SuspendTask
  <2>2. CASE run' = run
    BY <2>2 DEF RunType, Live
  <2>3. QED  BY <2>1, <2>2, CancelledType DEF Causes
<1>3. CASE Close
  <2>1. run' = run \/ run' = Cancelled(scheduler, Running(scheduler), "closed")
    BY <1>3 DEF Close
  <2>2. CASE run' = run
    BY <2>2 DEF RunType, Live
  <2>3. QED  BY <2>1, <2>2, CancelledType DEF Causes
<1>4. CASE Start \/ Loaded \/ \E t \in Tasks : LoadTask(t)
  <2>1. run' = run
    BY <1>4 DEF Start, Loaded, LoadTask
  <2>2. QED  BY <2>1 DEF RunType, Live
<1>5. ASSUME NEW g \in Schedulers, NEW t \in Tasks, Activate(g, t) PROVE RunType'
  <2>1. PICK w \in BOOLEAN : w = (t \in Windowed)
    BY Flag, Zenon
  <2>2. FreeRuns # {} /\ run' = Registered(g, t, w)
    BY <1>5, <2>1 DEF Activate
  <2>3. QED  BY <2>2, RegisteredType
<1>6. CASE Exit \/ Crash
  BY <1>6, LostType DEF Exit, Crash
<1>7. QED  BY <1>1, <1>2, <1>3, <1>4, <1>5, <1>6, RunSteps DEF Next

(* The operations of the scheduler on one key leave the others alone. *)
OnlyKey(s, z, g, t) ==
  /\ z \in [Schedulers -> SchedulerState]
  /\ \A x \in Schedulers : \A u \in Tasks : x # g \/ u # t =>
       z[x].details[u] = s[x].details[u] /\ (u \in z[x].queue => u \in s[x].queue)

LEMMA AskedIs ==
  ASSUME NEW d \in Details PROVE Asked(d) \in Details /\ (Asked(d) = "none" <=> d = "none")
<1>1. CASE d = "none"   BY <1>1 DEF Asked, Details
<1>2. CASE d = "cron"   BY <1>2 DEF Asked, Details
<1>3. CASE d = "multi"  BY <1>3 DEF Asked, Details
<1>4. CASE d = "once"   BY <1>4 DEF Asked, Details
<1>5. CASE d = "fired"  BY <1>5 DEF Asked, Details
<1>6. QED  BY <1>1, <1>2, <1>3, <1>4, <1>5 DEF Details

LEMMA QueuedIs ==
  ASSUME NEW s \in [Schedulers -> SchedulerState], NEW g \in Schedulers, NEW t \in Tasks
  PROVE  /\ OnlyKey(s, Queued(s, g, t), g, t)
         /\ Queued(s, g, t)[g].details[t] = "none" <=> s[g].details[t] = "none"
<1> DEFINE d == Asked(s[g].details[t])
<1>1. d \in Details /\ (d = "none" <=> s[g].details[t] = "none")
  BY AskedIs DEF SchedulerState
<1> DEFINE v == [s[g] EXCEPT !.queue = @ \cup {t}, !.details = [@ EXCEPT ![t] = d]]
<1>2. v \in SchedulerState /\ v.queue = s[g].queue \cup {t} /\ v.details = [s[g].details EXCEPT ![t] = d]
  BY <1>1 DEF SchedulerState
<1>3. Queued(s, g, t) = [s EXCEPT ![g] = v]
  BY DEF Queued, SchedulerState
<1> HIDE DEF v, d
<1>4. QED  BY <1>1, <1>2, <1>3 DEF OnlyKey, SchedulerState

LEMMA DequeuedIs ==
  ASSUME NEW s \in [Schedulers -> SchedulerState], NEW g \in Schedulers, NEW t \in Tasks
  PROVE  /\ OnlyKey(s, Dequeued(s, g, t), g, t)
         /\ Dequeued(s, g, t)[g].details = s[g].details
         /\ Dequeued(s, g, t)[g].queue = s[g].queue \ {t}
<1> DEFINE v == [s[g] EXCEPT !.queue = @ \ {t}]
<1>1. v \in SchedulerState /\ v.queue = s[g].queue \ {t} /\ v.details = s[g].details
  BY DEF SchedulerState
<1>2. Dequeued(s, g, t) = [s EXCEPT ![g] = v]
  BY DEF Dequeued, SchedulerState
<1> HIDE DEF v
<1>3. QED  BY <1>1, <1>2 DEF OnlyKey, SchedulerState

LEMMA UnscheduledIs ==
  ASSUME SchedType, NEW g \in Schedulers, NEW t \in Tasks
  PROVE  /\ OnlyKey(sched, Unscheduled(g, t), g, t)
         /\ Unscheduled(g, t)[g].details[t] = "none" /\ t \notin Unscheduled(g, t)[g].queue
<1> DEFINE z == Dequeued(sched, g, t)
<1>1. /\ OnlyKey(sched, z, g, t) /\ z[g].details = sched[g].details /\ z[g].queue = sched[g].queue \ {t}
  BY DequeuedIs DEF SchedType
<1>2. Unscheduled(g, t) = [z EXCEPT ![g].details[t] = "none"]
  BY DEF Unscheduled
<1>3. z \in [Schedulers -> SchedulerState]
  BY <1>1 DEF OnlyKey
<1> HIDE DEF z
<1> DEFINE v == [z[g] EXCEPT !.details = [@ EXCEPT ![t] = "none"]]
<1>4. v \in SchedulerState /\ v.queue = z[g].queue /\ v.details = [z[g].details EXCEPT ![t] = "none"]
  BY <1>3 DEF SchedulerState, Details
<1>5. Unscheduled(g, t) = [z EXCEPT ![g] = v]
  BY <1>2, <1>3 DEF SchedulerState
<1> HIDE DEF v
<1>6. QED  BY <1>1, <1>3, <1>4, <1>5 DEF OnlyKey, SchedulerState

LEMMA ScheduleIs ==
  ASSUME SchedType, NEW g \in Schedulers, NEW t \in Tasks, NEW d \in Details \ {"none"}, SchedulerSchedule(g, t, d)
  PROVE  OnlyKey(sched, sched', g, t) /\ sched'[g].details[t] # "none"
<1> DEFINE z == [sched EXCEPT ![g].details[t] = d]
<1>1. OnlyKey(sched, z, g, t) /\ z[g].details[t] = d /\ z[g].queue = sched[g].queue
  BY DEF OnlyKey, SchedType, SchedulerState
<1>2. sched' = z \/ sched' = Queued(z, g, t)
  BY DEF SchedulerSchedule
<1> HIDE DEF z
<1>3. OnlyKey(z, Queued(z, g, t), g, t) /\ Queued(z, g, t)[g].details[t] # "none"
  BY <1>1, QueuedIs DEF OnlyKey
<1>4. QED  BY <1>1, <1>2, <1>3 DEF OnlyKey

LEMMA ClosedIs ==
  ASSUME SchedType, NEW g \in Schedulers
  PROVE  /\ Closed(sched, g) \in [Schedulers -> SchedulerState]
         /\ \A x \in Schedulers : Closed(sched, g)[x].details = sched[x].details /\ Closed(sched, g)[x].queue = sched[x].queue
<1> DEFINE v == [sched[g] EXCEPT !.closed = TRUE, !.late = @ \/ ~sched[g].closed]
<1>1. v \in SchedulerState /\ v.queue = sched[g].queue /\ v.details = sched[g].details
  BY DEF SchedType, SchedulerState
<1>2. Closed(sched, g) = [sched EXCEPT ![g] = v]
  BY DEF Closed, SchedType, SchedulerState
<1> HIDE DEF v
<1>3. QED  BY <1>1, <1>2 DEF SchedType

(* What a step may do to the keys of the schedulers: take some out, put a key back after its run, or *)
(* put the key of a process that looked its scheduler up.                                            *)
Fewer(s, z) ==
  \A x \in Schedulers : \A u \in Tasks :
    /\ z[x].details[u] = s[x].details[u] \/ z[x].details[u] = "none"
    /\ u \in z[x].queue => u \in s[x].queue
SchedEffect ==
  /\ sched' \in [Schedulers -> SchedulerState]
  /\ \/ Fewer(sched, sched')
     \/ \E r \in RunIds : /\ run[r].pc = "ended"
                          /\ OnlyKey(sched, sched', run[r].sched, run[r].task)
                          /\ sched[run[r].sched].details[run[r].task] # "none"
     \/ \E p \in Procs : proc[p].pc \in {"apply", "once"} /\ OnlyKey(sched, sched', proc[p].l, proc[p].task)

LEMMA NoSchedEffect == ASSUME SchedType, UNCHANGED sched PROVE SchedEffect
BY DEF SchedEffect, Fewer, SchedType

LEMMA RescheduleEffect ==
  ASSUME Types_, NEW r \in RunIds, Reschedule(r) PROVE SchedEffect
<1> DEFINE g == run[r].sched  t == run[r].task
<1>1. g \in Schedulers /\ t \in Tasks /\ run[r].pc = "ended" /\ SchedType
  BY RunRecord DEF Types_, Reschedule
<1>2. CASE UNCHANGED sched
  BY <1>1, <1>2, NoSchedEffect
<1>3. CASE sched[g].details[t] # "none" /\ sched' = Queued(sched, g, t)
  <2>1. OnlyKey(sched, sched', g, t)
    BY <1>1, <1>3, QueuedIs DEF SchedType
  <2>2. QED  BY <1>1, <1>3, <2>1 DEF SchedEffect, OnlyKey
<1>4. CASE sched' = Unscheduled(g, t)
  <2>1. OnlyKey(sched, sched', g, t) /\ sched'[g].details[t] = "none" /\ t \notin sched'[g].queue
    BY <1>1, <1>4, UnscheduledIs
  <2>2. QED  BY <1>1, <2>1 DEF SchedEffect, Fewer, OnlyKey
<1>5. QED  BY <1>2, <1>3, <1>4 DEF Reschedule

LEMMA ScheduleEffect ==
  ASSUME Types_, NEW p \in Procs, ScheduleApply(p) \/ ScheduleOnce(p) PROVE SchedEffect
<1> DEFINE g == proc[p].l  t == proc[p].task
<1>1. g \in Schedulers /\ t \in Tasks /\ proc[p].pc \in {"apply", "once"} /\ SchedType
  BY ProcRecord DEF Types_, ScheduleApply, ScheduleOnce, ProcOk, WithTask, WithScheduler
<1>2. ASSUME NEW d \in {"multi", "cron", "once"}, SchedulerSchedule(g, t, d) PROVE SchedEffect
  <2>1. d \in Details \ {"none"}
    BY DEF Details
  <2>2. OnlyKey(sched, sched', g, t)
    BY <1>1, <1>2, <2>1, ScheduleIs
  <2>3. QED  BY <1>1, <2>2 DEF SchedEffect, OnlyKey
<1>3. CASE sched' = Unscheduled(g, t)
  <2>1. OnlyKey(sched, sched', g, t)
    BY <1>1, <1>3, UnscheduledIs
  <2>2. QED  BY <1>1, <2>1 DEF SchedEffect, OnlyKey
<1>4. QED  BY <1>2, <1>3 DEF ScheduleApply, ScheduleOnce

LEMMA DequeueEffect ==
  ASSUME Types_, NEW g \in Schedulers, NEW t \in Tasks,
         sched' = Dequeued(sched, g, t) \/ sched' = [Dequeued(sched, g, t) EXCEPT ![g].late = FALSE]
  PROVE  SchedEffect
<1> DEFINE z == Dequeued(sched, g, t)
<1>1. OnlyKey(sched, z, g, t) /\ z[g].details = sched[g].details /\ z[g].queue = sched[g].queue \ {t}
  BY DequeuedIs DEF Types_, SchedType
<1>2. sched' = z \/ sched' = [z EXCEPT ![g].late = FALSE]
  OBVIOUS
<1> HIDE DEF z
<1>3. /\ sched' \in [Schedulers -> SchedulerState]
      /\ \A x \in Schedulers : sched'[x].details = z[x].details /\ sched'[x].queue = z[x].queue
  <2>1. z \in [Schedulers -> SchedulerState]
    BY <1>1 DEF OnlyKey
  <2> DEFINE v == [z[g] EXCEPT !.late = FALSE]
  <2>2. v \in SchedulerState /\ v.details = z[g].details /\ v.queue = z[g].queue
    BY <2>1 DEF SchedulerState
  <2>3. sched' = z \/ sched' = [z EXCEPT ![g] = v]
    BY <1>2
  <2> HIDE DEF v
  <2>4. QED  BY <2>1, <2>2, <2>3
<1>4. QED  BY <1>1, <1>3 DEF OnlyKey, SchedEffect, Fewer

LEMMA CloseEffect ==
  ASSUME Types_, UNCHANGED sched \/ (scheduler # 0 /\ sched' = Closed(sched, scheduler)) PROVE SchedEffect
<1>1. CASE UNCHANGED sched
  BY <1>1, NoSchedEffect DEF Types_
<1>2. CASE scheduler # 0 /\ sched' = Closed(sched, scheduler)
  BY <1>2, ClosedIs DEF Types_, ServiceType, SchedEffect, Fewer
<1>3. QED  BY <1>1, <1>2

LEMMA LostEffect == ASSUME Lost PROVE SchedEffect
BY DEF Lost, NewScheduler, SchedEffect, Fewer, SchedulerState, Details

LEMMA SchedStep == ASSUME Types_, Next PROVE SchedEffect
<1> USE DEF Types_
<1>1. ASSUME NEW r \in RunIds, RunStep(r) PROVE SchedEffect
  <2>1. CASE Reschedule(r)
    BY <2>1, RescheduleEffect
  <2>2. CASE ~Reschedule(r)
    BY <1>1, <2>2, NoSchedEffect DEF RunStep, WindowEnds, RunBegin, PutRun, UpdateTask, PutFails, EnterRunner,
      DecorateFails, ReturnRunner, FinalStatus, LeaveRuns, PutFinalRun, UpdateFinalTask, PutFinalFails, LeaveRunsAgain
  <2>3. QED  BY <2>1, <2>2
<1>2. ASSUME NEW c \in Callers, CallStep(c) PROVE SchedEffect
  <2>0. c \in Procs /\ ProcOk(proc[c])
    BY ProcRecord DEF Procs
  <2>1. CASE Trigger(c)
    <3>1. proc[c].l \in Schedulers /\ proc[c].task \in Tasks
      BY <2>0, <2>1 DEF Trigger, ProcOk, WithTask, WithScheduler
    <3>2. QED  BY <2>1, <3>1, DequeueEffect, NoSchedEffect DEF Trigger
  <2>2. CASE ScheduleOnce(c)
    BY <2>0, <2>2, ScheduleEffect
  <2>3. CASE Unschedule(c)
    <3>1. proc[c].l \in Schedulers /\ proc[c].task \in Tasks
      BY <2>0, <2>3 DEF Unschedule, ProcOk, WithTask, WithScheduler
    <3>2. OnlyKey(sched, sched', proc[c].l, proc[c].task) /\ sched'[proc[c].l].details[proc[c].task] = "none"
            /\ proc[c].task \notin sched'[proc[c].l].queue
      BY <2>3, <3>1, UnscheduledIs DEF Unschedule
    <3>3. QED  BY <3>1, <3>2 DEF SchedEffect, Fewer, OnlyKey
  <2>4. CASE ~Trigger(c) /\ ~ScheduleOnce(c) /\ ~Unschedule(c)
    BY <1>2, <2>4, NoSchedEffect DEF CallStep, Call, shouldPutTask, InsertTask, StartLookup, StopLookup, PutStopping,
        UpdateStopping, PutStoppingFails, DropMutex, Stop, DeleteRow, RemoveTask, Resume, ResumeDrawerStays,
        ResumeDone, ResumeTask, WaitRuns, Return
  <2>5. QED  BY <2>1, <2>2, <2>3, <2>4
<1>3. ASSUME NEW p \in Procs, ProcStep(p) PROVE SchedEffect
  <2>1. CASE ScheduleApply(p)
    BY <2>1, ScheduleEffect
  <2>2. CASE Suspend(p)
    BY <2>2, CloseEffect DEF Suspend
  <2>3. CASE ~ScheduleApply(p) /\ ~Suspend(p)
    BY <1>3, <2>3, NoSchedEffect DEF ProcStep, ScheduleLookup, ListTasks, PutDrawer, PutDrawerFails, StatementFails,
      SuspendTask
  <2>4. QED  BY <2>1, <2>2, <2>3
<1>4. CASE Close
  BY <1>4, CloseEffect DEF Close
<1>5. CASE Start \/ Loaded \/ \E t \in Tasks : LoadTask(t)
  BY <1>5, NoSchedEffect DEF Start, Loaded, LoadTask
<1>6. ASSUME NEW g \in Schedulers, NEW t \in Tasks, Activate(g, t) PROVE SchedEffect
  BY <1>6, DequeueEffect DEF Activate
<1>7. CASE Exit \/ Crash
  BY <1>7, LostEffect DEF Exit, Crash
<1>8. QED  BY <1>1, <1>2, <1>3, <1>4, <1>5, <1>6, <1>7 DEF Next

LEMMA TableTypeStep == ASSUME Types_, Next PROVE TableType'
<1> USE DEF Types_
<1>1. ASSUME NEW r \in RunIds, RunStep(r) PROVE TableType'
  <2>0. /\ run[r].status \in RunStatus
        /\ run[r].pc \in {"begun", "put", "left", "final"} => run[r].task \in Tasks
    BY RunRecord
  <2>1. CASE PutRun(r)
    BY <2>0, <2>1 DEF PutRun, Row, TableType, RunRow, RunStatus, Status, Final
  <2>2. CASE UpdateTask(r)
    BY <2>0, <2>2 DEF UpdateTask, TaskStatus, TableType, TaskRow, Status, Final
  <2>3. CASE PutFinalRun(r)
    BY <2>0, <2>3 DEF PutFinalRun, Row, TableType, RunRow
  <2>4. CASE UpdateFinalTask(r)
    BY <2>0, <2>4 DEF UpdateFinalTask, TaskStatus, TableType, TaskRow, RunStatus
  <2>5. CASE ~PutRun(r) /\ ~UpdateTask(r) /\ ~PutFinalRun(r) /\ ~UpdateFinalTask(r)
    <3>1. UNCHANGED tables
      BY <1>1, <2>5 DEF RunStep, WindowEnds, Reschedule, RunBegin, PutFails, EnterRunner, DecorateFails, ReturnRunner,
        FinalStatus, LeaveRuns, PutFinalFails, LeaveRunsAgain
    <3>2. QED  BY <3>1 DEF tables, TableType
  <2>6. QED  BY <2>1, <2>2, <2>3, <2>4, <2>5
<1>2. ASSUME NEW c \in Callers, CallStep(c) PROVE TableType'
  <2>0. /\ proc[c].pc \in WithTask => proc[c].task \in Tasks
        /\ proc[c].pc = "stopping" => proc[c].run \in RunIds
        /\ proc[c].enabled \in BOOLEAN
    BY ProcRecord DEF ProcOk, Procs
  <2>1. CASE InsertTask(c)
    BY <2>0, <2>1 DEF InsertTask, TableType, TaskRow, WithTask
  <2>2. CASE PutStopping(c)
    BY <2>0, <2>2 DEF PutStopping, TableType, RunRow, RunStatus, Status, WithTask
  <2>3. CASE UpdateStopping(c)
    BY <2>0, <2>3 DEF UpdateStopping, TaskStatus, TableType, TaskRow, Status, WithTask
  <2>4. CASE DeleteRow(c)
    BY <2>0, <2>4 DEF DeleteRow, TableType, TaskRow, WithTask
  <2>5. CASE Resume(c)
    BY <2>5 DEF Resume, TableType
  <2>6. CASE ~InsertTask(c) /\ ~PutStopping(c) /\ ~UpdateStopping(c) /\ ~DeleteRow(c) /\ ~Resume(c)
    <3>1. UNCHANGED tables
      BY <1>2, <2>6 DEF CallStep, Call, shouldPutTask, StartLookup, Trigger, ScheduleOnce, StopLookup,
        PutStoppingFails, DropMutex, Stop, RemoveTask, Unschedule, ResumeDrawerStays, ResumeDone, ResumeTask,
        WaitRuns, Return
    <3>2. QED  BY <3>1 DEF tables, TableType
  <2>7. QED  BY <2>1, <2>2, <2>3, <2>4, <2>5, <2>6
<1>3. ASSUME NEW p \in Procs, ProcStep(p) PROVE TableType'
  <2>1. CASE PutDrawer(p)
    BY <2>1, ProcRecord DEF PutDrawer, TableType
  <2>2. CASE ~PutDrawer(p)
    <3>1. UNCHANGED tables
      BY <1>3, <2>2 DEF ProcStep, ScheduleLookup, ScheduleApply, ListTasks, Suspend, PutDrawerFails, StatementFails,
        SuspendTask
    <3>2. QED  BY <3>1 DEF tables, TableType
  <2>3. QED  BY <2>1, <2>2
<1>4. CASE \/ Start \/ Loaded \/ Close \/ Exit \/ Crash \/ \E g \in Schedulers, t \in Tasks : Activate(g, t)
  <2>1. UNCHANGED tables
    BY <1>4 DEF Start, Loaded, Close, Exit, Crash, Lost, Activate
  <2>2. QED  BY <2>1 DEF tables, TableType
<1>5. ASSUME NEW t \in Tasks, LoadTask(t) PROVE TableType'
  <2>1. CASE UNCHANGED tables
    BY <2>1 DEF tables, TableType
  <2>2. CASE ~UNCHANGED tables
    <3>1. /\ RowsOf(t) # {} /\ runRows[LastRun(t)].status = "RUNNING"
          /\ runRows' = [runRows EXCEPT ![LastRun(t)].status = "ABORTED"]
          /\ TaskStatus(t, "ABORTED") /\ UNCHANGED drawer
      BY <1>5, <2>2 DEF LoadTask, tables
    <3>2. rows' \in [Tasks -> TaskRow]
      BY <3>1 DEF TaskStatus, TableType, TaskRow, Status, Final
    <3>3. runRows' \in [RunIds -> RunRow \cup {NoRow}]
      <4>1. CASE LastRun(t) \in RunIds
        <5>1. runRows[LastRun(t)] \in RunRow
          BY <3>1, <4>1 DEF TableType, NoRow
        <5>2. QED  BY <3>1, <4>1, <5>1 DEF TableType, RunRow, RunStatus, Status, Final
      <4>2. CASE LastRun(t) \notin RunIds
        BY <3>1, <4>2 DEF TableType
      <4>3. QED  BY <4>1, <4>2
    <3>4. QED  BY <3>1, <3>2, <3>3 DEF TableType
  <2>3. QED  BY <2>1, <2>2
<1>6. QED  BY <1>1, <1>2, <1>3, <1>4, <1>5 DEF Next

LEMMA ServiceTypeStep == ASSUME Types_, Next PROVE ServiceType'
<1> USE DEF Types_
<1>1. ASSUME NEW r \in RunIds, RunStep(r) PROVE ServiceType'
  <2>0. run[r].pc \in {"new", "decided", "out"} => run[r].task \in Tasks
    BY RunRecord
  <2>1. run[r].mu \in Callers \cup {None}
    BY RunRecord
  <2>2. CASE RunBegin(r) \/ LeaveRuns(r) \/ LeaveRunsAgain(r)
    BY <2>0, <2>2 DEF RunBegin, LeaveRuns, LeaveRunsAgain, ServiceType, bounds
  <2>3. CASE PutFinalRun(r) \/ UpdateFinalTask(r)
    BY <2>1, <2>3 DEF PutFinalRun, UpdateFinalTask, ServiceType, bounds, service
  <2>4. CASE PutFinalFails(r) \/ PutFails(r) \/ DecorateFails(r)
    BY <2>4 DEF PutFinalFails, PutFails, DecorateFails, Fault, ServiceType, service
  <2>5. CASE UNCHANGED <<service, bounds, held>>
    BY <2>5 DEF ServiceType, service, bounds
  <2>6. QED
    BY <1>1, <2>2, <2>3, <2>4, <2>5 DEF RunStep, WindowEnds, Reschedule, PutRun, UpdateTask, EnterRunner, ReturnRunner,
      FinalStatus
<1>2. ASSUME NEW c \in Callers, CallStep(c) PROVE ServiceType'
  <2>0. proc[c].pc \in WithTask => proc[c].task \in Tasks
    BY ProcRecord DEF ProcOk, Procs
  <2>1. CurrentScheduler \in Schedulers
    BY TaskServiceAssumption DEF CurrentScheduler, Schedulers, ServiceType
  <2>2. CASE StartLookup(c)
    BY <2>1, <2>2 DEF StartLookup, ServiceType, bounds
  <2>3. CASE StopLookup(c) \/ DropMutex(c)
    BY <2>0, <2>3 DEF StopLookup, DropMutex, ServiceType, bounds, WithTask
  <2>4. CASE UpdateStopping(c)
    BY <2>4 DEF UpdateStopping, ServiceType, bounds, service
  <2>10. CASE PutStoppingFails(c)
    <3>1. UNCHANGED service /\ held' = held \ {c} /\ faults' = faults + 1 /\ UNCHANGED state
      BY <2>10 DEF PutStoppingFails, Fault
    <3>2. QED  BY <3>1 DEF ServiceType, service
  <2>9. CASE ResumeDrawerStays(c)
    BY <2>9 DEF ResumeDrawerStays, Fault, ServiceType
  <2>5. CASE RemoveTask(c) \/ Resume(c)
    BY <2>5 DEF RemoveTask, Resume, ServiceType, bounds
  <2>6. ASSUME NEW t \in Tasks, ResumeTask(c, t) PROVE ServiceType'
    BY <2>6 DEF ResumeTask, ServiceType, bounds
  <2>7. CASE UNCHANGED <<service, bounds, held>>
    BY <2>7 DEF ServiceType, service, bounds
  <2>8. QED
    BY <1>2, <2>2, <2>3, <2>4, <2>5, <2>6, <2>7, <2>9, <2>10 DEF CallStep, Call, shouldPutTask, InsertTask, Trigger, ScheduleOnce,
      PutStopping, Stop, DeleteRow, Unschedule, ResumeDone, WaitRuns, Return
<1>3. ASSUME NEW p \in Procs, ProcStep(p) PROVE ServiceType'
  <2>0. /\ proc[p].pc \in WithTask => proc[p].task \in Tasks
        /\ proc[p].pc = "suspend" => Req(p).allow \in Allowed
    BY ProcRecord, AllowIsAllowed DEF ProcOk
  <2>1. CurrentScheduler \in Schedulers
    BY TaskServiceAssumption DEF CurrentScheduler, Schedulers, ServiceType
  <2>2. CASE ScheduleLookup(p)
    BY <2>0, <2>1, <2>2 DEF ScheduleLookup, ServiceType, bounds, WithTask
  <2>3. CASE Suspend(p)
    BY <2>0, <2>3 DEF Suspend, ServiceType, bounds
  <2>4. CASE PutDrawerFails(p) \/ StatementFails(p)
    BY <2>4 DEF PutDrawerFails, StatementFails, Fault, ServiceType, service
  <2>5. ASSUME NEW t \in Tasks, SuspendTask(p, t) PROVE ServiceType'
    BY <2>5 DEF SuspendTask, ServiceType, bounds
  <2>6. CASE UNCHANGED <<service, bounds, held>>
    BY <2>6 DEF ServiceType, service, bounds
  <2>7. QED  BY <1>3, <2>2, <2>3, <2>4, <2>5, <2>6 DEF ProcStep, ScheduleApply, ListTasks, PutDrawer
<1>4. CASE Start
  BY <1>4 DEF Start, ServiceType, TableType, Info
<1>5. CASE Loaded \/ Close
  BY <1>5 DEF Loaded, Close, ServiceType, service
<1>6. CASE Exit \/ Crash
  BY <1>6 DEF Exit, Crash, Lost, ServiceType, NoRun
<1>7. CASE \/ \E g \in Schedulers, t \in Tasks : Activate(g, t)
           \/ \E t \in Tasks : LoadTask(t)
  BY <1>7 DEF Activate, LoadTask, ServiceType, service, bounds
<1>8. QED  BY <1>1, <1>2, <1>3, <1>4, <1>5, <1>6, <1>7 DEF Next

LEMMA TypesInit == Init => Types_
<1> SUFFICES ASSUME Init PROVE Types_
  OBVIOUS
<1>1. TableType
  BY TaskServiceAssumption DEF Init, TableType, NewTask, NoTask, TaskRow, Status
<1>2. ServiceType
  BY DEF Init, ServiceType
<1>3. SchedType
  BY DEF Init, SchedType, NewScheduler, SchedulerState, Details
<1>4. FreeRun \in RunState
  BY DEF FreeRun, RunState, RunPcs, Causes, RunStatus, Status, Final
<1>5. RunType
  BY <1>4 DEF Init, RunType, Live, FreeRun
<1>6. ProcType
  BY IdleIsOk DEF Init, ProcType
<1>7. QED  BY <1>1, <1>2, <1>3, <1>5, <1>6 DEF Types_

LEMMA TypesStep == Types_ /\ [Next]_vars => Types_'
<1> SUFFICES ASSUME Types_, [Next]_vars PROVE Types_'
  OBVIOUS
<1>1. CASE Next
  <2>1. SchedType'
    BY <1>1, SchedStep DEF SchedEffect, SchedType
  <2>2. QED  BY <1>1, <2>1, TableTypeStep, ServiceTypeStep, RunTypeStep, ProcTypeStep DEF Types_
<1>2. CASE UNCHANGED vars
  BY <1>2 DEF vars, tables, service, bounds, Types_, TableType, ServiceType, SchedType, RunType, ProcType, Live
<1>3. QED  BY <1>1, <1>2

LEMMA TypesCorrect == Spec => []Types_
BY TypesInit, TypesStep, PTL DEF Spec

(* The tables hold tasks and runs and the service refers to runs, calls and schedulers that exist, *)
(* whatever the calls ask for and whenever the server is stopped.                                   *)
THEOREM TypeCorrect == Spec => []TypeOK
<1>1. Types_ => TypeOK
  BY RunRecord DEF Types_, TableType, ServiceType, TypeOK, TaskRow, RunRow, RunStatus
<1>2. QED  BY <1>1, TypesCorrect, PTL

-----------------------------------------------------------------------------
(* What the other steps do to the runs: nothing but cancel them, register a *)
(* new one, or end the process.                                             *)
SameRuns ==
  /\ run' \in [RunIds -> RunState]
  /\ \A x \in RunIds : /\ run'[x].pc = run[x].pc /\ run'[x].task = run[x].task /\ run'[x].sched = run[x].sched
                       /\ run'[x].status = run[x].status /\ run'[x].mu = run[x].mu
Registers(g, t) ==
  /\ FreeRuns # {} /\ run' \in {Registered(g, t, TRUE), Registered(g, t, FALSE)}
  /\ t \in sched[g].queue \/ sched[g].details[t] # "none"
NotARun ==
  \/ SameRuns /\ UNCHANGED <<runs, locks>>
  \/ (\E g \in Schedulers, t \in Tasks : Registers(g, t)) /\ UNCHANGED <<runs, locks>>
  \/ Lost

LEMMA SameRunsSame == ASSUME RunType, UNCHANGED run PROVE SameRuns
BY DEF RunType, SameRuns

LEMMA SameRunsCancelled ==
  ASSUME RunType, NEW g, NEW ts, NEW cause \in Causes, run' = Cancelled(g, ts, cause) PROVE SameRuns
<1>1. ASSUME NEW r \in RunIds
      PROVE  /\ run'[r] \in RunState /\ run'[r].pc = run[r].pc /\ run'[r].task = run[r].task
             /\ run'[r].sched = run[r].sched /\ run'[r].status = run[r].status /\ run'[r].mu = run[r].mu
  <2>1. run[r] \in RunState
    BY RunRecord
  <2>2. run'[r] = run[r] \/ run'[r] = [run[r] EXCEPT !.cause = cause]
    BY DEF Cancelled
  <2>3. QED  BY <2>1, <2>2 DEF RunState
<1>2. run' \in [RunIds -> RunState]
  <2>1. DOMAIN run' = RunIds /\ run' = [r \in RunIds |-> run'[r]]
    BY DEF Cancelled
  <2>2. QED  BY <1>1, <2>1
<1>3. QED  BY <1>1, <1>2 DEF SameRuns

LEMMA StepKinds ==
  ASSUME Types_, Next PROVE (\E r \in RunIds : RunStep(r)) \/ NotARun
<1> USE DEF Types_
<1>1. ASSUME NEW c \in Callers, CallStep(c) PROVE NotARun
  <2>0. UNCHANGED <<runs, locks>>
    BY <1>1 DEF CallStep, Call, shouldPutTask, InsertTask, StartLookup, Trigger, ScheduleOnce, StopLookup, PutStopping,
        UpdateStopping, PutStoppingFails, DropMutex, Stop, DeleteRow, RemoveTask, Unschedule, Resume,
        ResumeDrawerStays, ResumeDone, ResumeTask, WaitRuns, Return, service
  <2>1. CASE UNCHANGED run
    BY <2>0, <2>1, SameRunsSame DEF NotARun
  <2>2. CASE Stop(c)
    BY <2>0, <2>2, SameRunsCancelled DEF NotARun, Stop, Causes
  <2>3. CASE Trigger(c) /\ ~UNCHANGED run
    <3>1. proc[c].l \in Schedulers /\ proc[c].task \in Tasks
      BY <2>3, ProcRecord DEF Trigger, ProcOk, WithTask, WithScheduler, Procs
    <3>2. Registers(proc[c].l, proc[c].task)
      BY <2>3 DEF Trigger, Registers
    <3>3. QED  BY <2>0, <3>1, <3>2 DEF NotARun
  <2>4. QED
    BY <1>1, <2>1, <2>2, <2>3 DEF CallStep, Call, shouldPutTask, InsertTask, StartLookup, ScheduleOnce, StopLookup,
      PutStopping, UpdateStopping, PutStoppingFails, DropMutex, DeleteRow, RemoveTask, Unschedule, Resume,
      ResumeDrawerStays, ResumeDone, ResumeTask, WaitRuns, Return
<1>2. ASSUME NEW p \in Procs, ProcStep(p) PROVE NotARun
  <2>0. UNCHANGED <<runs, locks>>
    BY <1>2 DEF ProcStep, ScheduleLookup, ScheduleApply, ListTasks, Suspend, PutDrawer, PutDrawerFails, StatementFails,
      SuspendTask, service
  <2>1. run' = run \/ run' = Cancelled(scheduler, Running(scheduler), "closed")
    BY <1>2 DEF ProcStep, ScheduleLookup, ScheduleApply, ListTasks, Suspend, PutDrawer, PutDrawerFails, StatementFails,
      SuspendTask
  <2>2. QED  BY <2>0, <2>1, SameRunsSame, SameRunsCancelled DEF NotARun, Causes
<1>3. CASE Close \/ Start \/ Loaded \/ \E t \in Tasks : LoadTask(t)
  <2>0. UNCHANGED <<runs, locks>>
    BY <1>3 DEF Close, Start, Loaded, LoadTask, service
  <2>1. run' = run \/ run' = Cancelled(scheduler, Running(scheduler), "closed")
    BY <1>3 DEF Close, Start, Loaded, LoadTask
  <2>2. QED  BY <2>0, <2>1, SameRunsSame, SameRunsCancelled DEF NotARun, Causes
<1>4. ASSUME NEW g \in Schedulers, NEW t \in Tasks, Activate(g, t) PROVE NotARun
  <2>1. PICK w \in BOOLEAN : w = (t \in Windowed)
    BY Flag, Zenon
  <2>2. FreeRuns # {} /\ run' = Registered(g, t, w) /\ UNCHANGED <<runs, locks>> /\ t \in sched[g].queue
    BY <1>4, <2>1, Zenon DEF Activate, service
  <2>3. Registers(g, t)
    <3>1. CASE w = TRUE
      BY <2>2, <3>1 DEF Registers
    <3>2. CASE w = FALSE
      BY <2>2, <3>2 DEF Registers
    <3>3. QED  BY <3>1, <3>2
  <2>4. QED  BY <2>2, <2>3 DEF NotARun
<1>5. CASE Exit \/ Crash
  BY <1>5 DEF Exit, Crash, NotARun
<1>6. QED  BY <1>1, <1>2, <1>3, <1>4, <1>5 DEF Next

(* A registered run was free and is new. *)
LEMMA RegistersIs ==
  ASSUME RunType, NEW g, NEW t, Registers(g, t)
  PROVE  \E n \in RunIds :
           /\ run[n].pc = "free" /\ run'[n].pc = "new" /\ run'[n].task = t /\ run'[n].sched = g /\ run'[n].mu = None
           /\ \A x \in RunIds : x # n => run'[x] = run[x]
<1>1. NextRun \in RunIds /\ run[NextRun].pc = "free"
  BY NextRunIsFree DEF Registers
<1>2. PICK w \in BOOLEAN : run' = [run EXCEPT ![NextRun] = [FreeRun EXCEPT !.pc = "new", !.task = t, !.sched = g, !.window = w]]
  BY DEF Registers, Registered
<1>3. /\ run'[NextRun].pc = "new" /\ run'[NextRun].task = t /\ run'[NextRun].sched = g /\ run'[NextRun].mu = None
      /\ \A x \in RunIds : x # NextRun => run'[x] = run[x]
  BY <1>1, <1>2 DEF RunType, FreeRun
<1>4. QED  BY <1>1, <1>3

-----------------------------------------------------------------------------
(* ListedRunIsOn is inductive: a run leaves runs when its state does. *)
LEMMA ListedStep ==
  ASSUME Types_, ListedRunIsOn, Next PROVE ListedRunIsOn'
<1> USE DEF Types_
<1>1. CASE NotARun
  <2>1. CASE SameRuns /\ UNCHANGED <<runs, locks>>
    BY <2>1 DEF SameRuns, ListedRunIsOn, ServiceType
  <2>2. CASE (\E g \in Schedulers, t \in Tasks : Registers(g, t)) /\ UNCHANGED <<runs, locks>>
    BY <2>2, RegistersIs DEF ListedRunIsOn, ServiceType
  <2>3. CASE Lost
    BY <2>3 DEF Lost, ListedRunIsOn
  <2>4. QED  BY <1>1, <2>1, <2>2, <2>3 DEF NotARun
<1>2. ASSUME NEW r \in RunIds, RunStep(r) PROVE ListedRunIsOn'
  <2>0. /\ run \in [RunIds -> RunState]
        /\ run[r].pc \notin {"free", "done"} => run[r].task \in Tasks
    BY RunRecord DEF RunType
  <2>1. CASE RunBegin(r)
    BY <2>0, <2>1 DEF RunBegin, Step, ListedRunIsOn, ServiceType, RunState
  <2>2. CASE LeaveRuns(r) \/ LeaveRunsAgain(r)
    BY <2>0, <2>2 DEF LeaveRuns, LeaveRunsAgain, Step, ListedRunIsOn, ServiceType, RunState
  <2>3. CASE ~RunBegin(r) /\ ~LeaveRuns(r) /\ ~LeaveRunsAgain(r)
    <3>1. UNCHANGED runs
      BY <1>2, <2>3 DEF RunStep, WindowEnds, Reschedule, PutRun, UpdateTask, PutFails, EnterRunner, DecorateFails,
        ReturnRunner, FinalStatus, PutFinalRun, UpdateFinalTask, PutFinalFails, service
    <3>2. \A x \in RunIds : x # r => run'[x] = run[x]
      BY <1>2, <2>0, <2>3 DEF RunStep, WindowEnds, Reschedule, PutRun, UpdateTask, PutFails, EnterRunner, DecorateFails,
        ReturnRunner, FinalStatus, PutFinalRun, UpdateFinalTask, PutFinalFails, Step, StepOut
    <3>3. run[r].pc \in {"begun", "put", "updated", "runner", "ran", "decided", "out"}
            => /\ run'[r].task = run[r].task
               /\ run'[r].pc \in {"begun", "put", "updated", "runner", "ran", "decided", "out"}
      <4>1. run[r] \in RunState
        BY <2>0
      <4>2. CASE WindowEnds(r) \/ PutRun(r) \/ UpdateTask(r) \/ EnterRunner(r)
        BY <2>0, <4>1, <4>2 DEF WindowEnds, PutRun, UpdateTask, EnterRunner, Step, RunState
      <4>3. CASE PutFails(r) \/ DecorateFails(r) \/ ReturnRunner(r) \/ FinalStatus(r)
        BY <2>0, <4>1, <4>3 DEF PutFails, DecorateFails, ReturnRunner, FinalStatus, RunState
      <4>4. CASE Reschedule(r) \/ PutFinalRun(r) \/ UpdateFinalTask(r) \/ PutFinalFails(r)
        BY <4>4 DEF Reschedule, PutFinalRun, UpdateFinalTask, PutFinalFails
      <4>5. QED  BY <1>2, <2>3, <4>2, <4>3, <4>4 DEF RunStep
    <3>4. QED  BY <3>1, <3>2, <3>3 DEF ListedRunIsOn, ServiceType
  <2>4. QED  BY <2>1, <2>2, <2>3
<1>3. QED  BY <1>1, <1>2, StepKinds

(* StopTask never finds in runs a run that is past its final status. *)
THEOREM ListedRunIsOnCorrect == Spec => []ListedRunIsOn
<1>1. Init => ListedRunIsOn
  BY DEF Init, ListedRunIsOn
<1>2. Types_ /\ ListedRunIsOn /\ [Next]_vars => ListedRunIsOn'
  <2>1. CASE UNCHANGED vars
    BY <2>1 DEF vars, service, ListedRunIsOn
  <2>2. QED  BY <2>1, ListedStep
<1>3. QED  BY <1>1, <1>2, TypesCorrect, PTL DEF Spec

-----------------------------------------------------------------------------
(* What a step of a run does to the runs: the others are left alone, the   *)
(* run keeps its task until reschedule forgets it, and only PreRun and     *)
(* PostRun touch the locks and go into and out of the runner.              *)
LEMMA RunMoves ==
  ASSUME RunType, NEW r \in RunIds, RunStep(r)
  PROVE  /\ \A x \in RunIds : x # r => run'[x] = run[x]
         /\ run[r].pc \notin {"free", "done"}
         /\ \/ run'[r].pc = "done" /\ run[r].pc = "ended"
            \/ /\ run'[r].pc \notin {"free", "done"} /\ run'[r].task = run[r].task
               /\ run'[r].pc = "new" => WindowEnds(r)
         /\ ~EnterRunner(r) /\ ~ReturnRunner(r) => UNCHANGED locks /\ (run'[r].pc = "runner" <=> run[r].pc = "runner")
<1>0. run \in [RunIds -> RunState] /\ run[r] \in RunState
  BY DEF RunType
<1>1. \A x \in RunIds : x # r => run'[x] = run[x]
  BY <1>0 DEF RunStep, WindowEnds, Reschedule, RunBegin, PutRun, UpdateTask, PutFails, EnterRunner, DecorateFails,
    ReturnRunner, FinalStatus, LeaveRuns, PutFinalRun, UpdateFinalTask, PutFinalFails, LeaveRunsAgain, Step, StepOut
<1>2. run[r].pc \notin {"free", "done"}
  BY DEF RunStep, WindowEnds, Live, Reschedule, RunBegin, PutRun, UpdateTask, PutFails, EnterRunner, DecorateFails,
    ReturnRunner, FinalStatus, LeaveRuns, PutFinalRun, UpdateFinalTask, PutFinalFails, LeaveRunsAgain
<1>3. CASE EnterRunner(r) \/ ReturnRunner(r)
  BY <1>0, <1>1, <1>2, <1>3 DEF EnterRunner, ReturnRunner, Step, RunState
<1>4. CASE WindowEnds(r) \/ RunBegin(r) \/ PutRun(r) \/ UpdateTask(r) \/ LeaveRunsAgain(r)
  <2>1. CASE WindowEnds(r)
    BY <1>0, <1>1, <1>2, <2>1, WindowEndsIs DEF RunState
  <2>2. CASE RunBegin(r) \/ PutRun(r) \/ UpdateTask(r) \/ LeaveRunsAgain(r)
    BY <1>0, <1>1, <1>2, <2>2 DEF RunBegin, PutRun, UpdateTask, LeaveRunsAgain, Step, RunState
  <2>3. QED  BY <1>4, <2>1, <2>2
<1>5. CASE PutFails(r) \/ DecorateFails(r) \/ FinalStatus(r) \/ LeaveRuns(r)
  BY <1>0, <1>1, <1>2, <1>5 DEF PutFails, DecorateFails, FinalStatus, LeaveRuns, RunState
<1>6. CASE PutFinalRun(r)
  BY <1>0, <1>1, <1>2, <1>6 DEF PutFinalRun, Step, RunState
<1>9. CASE UpdateFinalTask(r) \/ PutFinalFails(r)
  <2>1. StepOut(r) /\ UNCHANGED locks /\ run[r].pc # "runner"
    BY <1>9 DEF UpdateFinalTask, PutFinalFails
  <2>2. run'[r].pc = "out" /\ run'[r].task = run[r].task
    BY <1>0, <2>1 DEF StepOut, FreeRun
  <2>3. QED  BY <1>1, <1>2, <2>1, <2>2
<1>7. CASE Reschedule(r)
  BY <1>0, <1>1, <1>2, <1>7 DEF Reschedule, FreeRun, RunState
<1>8. QED  BY <1>3, <1>4, <1>5, <1>6, <1>7, <1>9 DEF RunStep

(* The policy refuses a type that holds its lock. *)
LEMMA GrantedIsFree ==
  ASSUME NEW tp \in Types, Policy!CanRun(locks, tp, "any") PROVE locks[tp] = "none"
BY DEF Policy!CanRun, Policy!canRunTaskExclusively, Policy!Locked, Policy!NoLock

LEMMA LocksInit == Init => LocksInv
BY DEF Init, LocksInv, InRunner, FreeRun, NoLocks

LEMMA LocksStep ==
  ASSUME Types_, LocksInv, Next PROVE LocksInv'
<1> USE DEF Types_
<1>1. CASE NotARun
  <2>1. CASE SameRuns /\ UNCHANGED <<runs, locks>>
    BY <2>1 DEF SameRuns, LocksInv, InRunner
  <2>2. CASE (\E g \in Schedulers, t \in Tasks : Registers(g, t)) /\ UNCHANGED <<runs, locks>>
    <3>1. PICK n \in RunIds : run'[n].pc = "new" /\ \A x \in RunIds : x # n => run'[x] = run[x]
      BY <2>2, RegistersIs
    <3>2. \A x \in RunIds : InRunner(x)' => InRunner(x) /\ run'[x] = run[x]
      BY <3>1 DEF InRunner
    <3>3. QED  BY <2>2, <3>2 DEF LocksInv
  <2>3. CASE Lost
    BY <2>3 DEF Lost, LocksInv, InRunner, NoLocks, FreeRun
  <2>4. QED  BY <1>1, <2>1, <2>2, <2>3 DEF NotARun
<1>2. ASSUME NEW r \in RunIds, RunStep(r) PROVE LocksInv'
  <2> DEFINE tp == TypeOf[run[r].task]
  <2>0. /\ \A x \in RunIds : x # r => run'[x] = run[x]
        /\ run[r].task \in Tasks /\ tp \in Types
        /\ run'[r].pc = "runner" => run'[r].task = run[r].task
    BY <1>2, RunMoves, RunRecord DEF Types
  <2>1. \A x \in RunIds : x # r => (InRunner(x)' <=> InRunner(x)) /\ run'[x].task = run[x].task
    BY <2>0 DEF InRunner
  <2>2. CASE UNCHANGED locks /\ (InRunner(r)' => InRunner(r))
    BY <2>0, <2>1, <2>2 DEF LocksInv, InRunner
  <2>3. CASE /\ tp # Suspender /\ locks[tp] = "none" /\ locks' = [locks EXCEPT ![tp] = "any"]
             /\ run'[r].task = run[r].task
    <3>1. \A x \in RunIds : x # r /\ InRunner(x) => TypeOf[run[x].task] # tp
      BY <2>3 DEF LocksInv
    <3>2. QED  BY <2>0, <2>1, <2>3, <3>1 DEF LocksInv, InRunner
  <2>4. CASE InRunner(r) /\ ~InRunner(r)' /\ locks' = [locks EXCEPT ![tp] = "none"]
    <3>1. \A x \in RunIds : x # r /\ InRunner(x) => TypeOf[run[x].task] # tp
      BY <2>4 DEF LocksInv
    <3>2. QED  BY <2>0, <2>1, <2>4, <3>1 DEF LocksInv, InRunner
  <2>5. CASE EnterRunner(r)
    <3>1. run[r].pc = "updated" /\ run'[r].pc \in {"runner", "ran"} /\ run'[r].task = run[r].task
      BY <2>5 DEF EnterRunner, Step, RunType, RunState
    <3>2. CASE Policy!CanRun(locks, tp, "any") /\ tp # Suspender
      <4>1. locks' = [locks EXCEPT ![tp] = "any"]
        BY <2>5, <3>2 DEF EnterRunner
      <4>2. QED  BY <2>0, <2>3, <3>1, <3>2, <4>1, GrantedIsFree
    <3>3. CASE ~(Policy!CanRun(locks, tp, "any") /\ tp # Suspender)
      <4>1. UNCHANGED locks /\ ~InRunner(r)'
        BY <2>5, <3>1, <3>3 DEF EnterRunner, InRunner, RunType, RunState
      <4>2. QED  BY <2>2, <4>1
    <3>4. QED  BY <3>2, <3>3
  <2>6. CASE ReturnRunner(r)
    <3>1. run[r].pc = "runner" /\ run'[r].pc = "ran" /\ ~InRunner(r)'
      BY <2>6 DEF ReturnRunner, RunType, RunState, InRunner
    <3>2. locks' = IF tp = Suspender THEN locks ELSE [locks EXCEPT ![tp] = "none"]
      BY <2>6 DEF ReturnRunner
    <3>3. QED  BY <2>2, <2>4, <3>1, <3>2 DEF InRunner
  <2>7. CASE ~EnterRunner(r) /\ ~ReturnRunner(r)
    <3>1. UNCHANGED locks /\ (run'[r].pc = "runner" <=> run[r].pc = "runner")
      BY <1>2, <2>7, RunMoves
    <3>2. QED  BY <2>0, <2>2, <3>1 DEF InRunner
  <2>8. QED  BY <2>5, <2>6, <2>7
<1>3. QED  BY <1>1, <1>2, StepKinds

LEMMA LocksCorrect == Spec => []LocksInv
<1>1. Types_ /\ LocksInv /\ [Next]_vars => LocksInv'
  <2>1. CASE UNCHANGED vars
    BY <2>1 DEF vars, LocksInv, InRunner
  <2>2. QED  BY <2>1, LocksStep
<1>2. QED  BY <1>1, LocksInit, TypesCorrect, PTL DEF Spec

(* No task executes twice at a time, with any number of schedulers that    *)
(* suspend left behind with their runs still going.                        *)
THEOREM OneRunnerPerTaskCorrect == Spec => []OneRunnerPerTask
<1>1. LocksInv => OneRunnerPerTask
  BY DEF LocksInv, InRunner, OneRunnerPerTask
<1>2. QED  BY <1>1, LocksCorrect, PTL

(* The calls of PolicyRunner.Run, as LocksFollowPolicy maps them. *)
RunCall(r) ==
  IF run[r].pc = "runner" /\ TypeOf[run[r].task] # Suspender
  THEN [cluster |-> Main, type |-> TypeOf[run[r].task], properties |-> "any"]
  ELSE [cluster |-> "none", type |-> "none", properties |-> "none"]
RunCalls == [r \in RunIds |-> RunCall(r)]

LEMMA PolicyVars == Policy!vars = <<[c \in {Main} |-> locks], RunCalls>>
BY DEF Policy!vars, RunCalls, RunCall

LEMMA SameCalls ==
  ASSUME UNCHANGED locks, \A x \in RunIds : RunCall(x)' = RunCall(x)
  PROVE  Policy!vars' = Policy!vars
<1>1. RunCalls' = RunCalls
  BY DEF RunCalls
<1>2. Policy!vars' = <<[c \in {Main} |-> locks'], RunCalls'>>
  BY DEF Policy!vars, RunCalls, RunCall
<1>3. QED  BY <1>1, <1>2, PolicyVars

(* A run that enters the runner, or leaves it, with the lock of its type. *)
LEMMA IsPreRun ==
  ASSUME NEW r \in RunIds, run[r].task \in Tasks, run[r].pc # "runner", InRunner(r)', run'[r].task = run[r].task,
         \A x \in RunIds : x # r => run'[x] = run[x],
         Policy!CanRun(locks, TypeOf[run[r].task], "any"), locks' = [locks EXCEPT ![TypeOf[run[r].task]] = "any"]
  PROVE  Policy!Next
<1> DEFINE tp == TypeOf[run[r].task]
<1>1. PICK req \in Policy!Request : req = [cluster |-> Main, type |-> tp, properties |-> "any"]
  BY DEF Policy!Request, Policy!Properties, Types
<1>2. RunCalls' = [RunCalls EXCEPT ![r] = req]
  <2>1. RunCall(r)' = req
    BY <1>1 DEF RunCall, InRunner
  <2>2. \A x \in RunIds : x # r => RunCall(x)' = RunCall(x)
    BY DEF RunCall
  <2>3. QED  BY <2>1, <2>2 DEF RunCalls
<1>3. RunCalls[r] = Policy!Idle
  BY DEF RunCalls, RunCall, Policy!Idle
<1>4. [c \in {Main} |-> locks'] = [[c \in {Main} |-> locks] EXCEPT ![Main][tp] = "any"]
  OBVIOUS
<1>5. Policy!PreRun(r, req)
  BY <1>1, <1>2, <1>3, <1>4 DEF Policy!PreRun, RunCalls, RunCall
<1>6. QED  BY <1>5 DEF Policy!Next

LEMMA IsPostRun ==
  ASSUME NEW r \in RunIds, InRunner(r), run'[r].pc # "runner",
         \A x \in RunIds : x # r => run'[x] = run[x],
         locks' = [locks EXCEPT ![TypeOf[run[r].task]] = "none"]
  PROVE  Policy!Next
<1> DEFINE tp == TypeOf[run[r].task]
<1>2. RunCalls' = [RunCalls EXCEPT ![r] = Policy!Idle]
  <2>1. RunCall(r)' = Policy!Idle
    BY DEF RunCall, Policy!Idle
  <2>2. \A x \in RunIds : x # r => RunCall(x)' = RunCall(x)
    BY DEF RunCall
  <2>3. QED  BY <2>1, <2>2 DEF RunCalls
<1>3. RunCalls[r] = [cluster |-> Main, type |-> tp, properties |-> "any"]
  BY DEF RunCalls, RunCall, InRunner
<1>4. [c \in {Main} |-> locks'] = [[c \in {Main} |-> locks] EXCEPT ![Main][tp] = "none"]
  OBVIOUS
<1>5. RunCalls[r] # Policy!Idle
  <2>1. RunCalls[r].properties # Policy!Idle.properties
    BY <1>3 DEF Policy!Idle
  <2>2. QED  BY <2>1
<1>6. Policy!PostRun(r)
  BY <1>2, <1>3, <1>4, <1>5 DEF Policy!PostRun, Policy!NoLock, RunCalls, RunCall
<1>7. QED  BY <1>6 DEF Policy!Next

LEMMA PolicyStep ==
  ASSUME Types_, Next PROVE Policy!vars' = Policy!vars \/ state' = "down" \/ Policy!Next
<1> USE DEF Types_
<1>1. CASE NotARun
  <2>1. CASE SameRuns /\ UNCHANGED <<runs, locks>>
    <3>1. \A x \in RunIds : RunCall(x)' = RunCall(x)
      BY <2>1 DEF SameRuns, RunCall
    <3>2. QED  BY <2>1, <3>1, SameCalls
  <2>2. CASE (\E g \in Schedulers, t \in Tasks : Registers(g, t)) /\ UNCHANGED <<runs, locks>>
    <3>1. PICK n \in RunIds : run[n].pc = "free" /\ run'[n].pc = "new" /\ \A x \in RunIds : x # n => run'[x] = run[x]
      BY <2>2, RegistersIs
    <3>2. \A x \in RunIds : RunCall(x)' = RunCall(x)
      BY <3>1 DEF RunCall
    <3>3. QED  BY <2>2, <3>2, SameCalls
  <2>3. CASE Lost
    BY <2>3 DEF Lost
  <2>4. QED  BY <1>1, <2>1, <2>2, <2>3 DEF NotARun
<1>2. ASSUME NEW r \in RunIds, RunStep(r) PROVE Policy!vars' = Policy!vars \/ Policy!Next
  <2> DEFINE tp == TypeOf[run[r].task]
  <2>0. /\ \A x \in RunIds : x # r => run'[x] = run[x]
        /\ run[r].task \in Tasks /\ tp \in Types
        /\ run'[r].pc = "runner" => run'[r].task = run[r].task
    BY <1>2, RunMoves, RunRecord DEF Types
  <2>1. CASE UNCHANGED locks /\ (InRunner(r)' <=> InRunner(r))
    <3>1. \A x \in RunIds : RunCall(x)' = RunCall(x)
      BY <2>0, <2>1 DEF RunCall, InRunner
    <3>2. QED  BY <2>1, <3>1, SameCalls
  <2>2. CASE EnterRunner(r)
    <3>1. run[r].pc = "updated" /\ run'[r].task = run[r].task /\ ~InRunner(r)
      BY <2>2 DEF EnterRunner, Step, RunType, RunState, InRunner
    <3>2. CASE Policy!CanRun(locks, tp, "any") /\ tp # Suspender
      <4>1. locks' = [locks EXCEPT ![tp] = "any"] /\ InRunner(r)'
        BY <2>2, <3>1, <3>2 DEF EnterRunner, Step, RunType, RunState, InRunner
      <4>2. QED  BY <2>0, <3>1, <3>2, <4>1, IsPreRun
    <3>3. CASE ~(Policy!CanRun(locks, tp, "any") /\ tp # Suspender)
      <4>1. UNCHANGED locks /\ ~InRunner(r)'
        BY <2>2, <3>1, <3>3 DEF EnterRunner, InRunner, RunType, RunState
      <4>2. QED  BY <2>1, <3>1, <4>1
    <3>4. QED  BY <3>2, <3>3
  <2>3. CASE ReturnRunner(r)
    <3>1. run[r].pc = "runner" /\ run'[r].pc = "ran" /\ ~InRunner(r)'
      BY <2>3 DEF ReturnRunner, RunType, RunState, InRunner
    <3>2. locks' = IF tp = Suspender THEN locks ELSE [locks EXCEPT ![tp] = "none"]
      BY <2>3 DEF ReturnRunner
    <3>3. CASE tp = Suspender
      BY <2>1, <3>1, <3>2, <3>3 DEF InRunner
    <3>4. CASE tp # Suspender
      BY <2>0, <3>1, <3>2, <3>4, IsPostRun DEF InRunner
    <3>5. QED  BY <3>3, <3>4
  <2>4. CASE ~EnterRunner(r) /\ ~ReturnRunner(r)
    <3>1. UNCHANGED locks /\ (run'[r].pc = "runner" <=> run[r].pc = "runner")
      BY <1>2, <2>4, RunMoves
    <3>2. QED  BY <2>0, <2>1, <3>1 DEF InRunner
  <2>5. QED  BY <2>2, <2>3, <2>4
<1>3. QED  BY <1>1, <1>2, StepKinds

(* The service implements Policy.tla: every change of the locks and of who *)
(* is in a runner is a PreRun or a PostRun of it, until the process ends.  *)
THEOREM LocksFollowPolicyCorrect == Spec => LocksFollowPolicy
<1>1. Init => Policy!Init
  <2>1. Init => RunCalls = [r \in RunIds |-> Policy!Idle]
    BY DEF Init, RunCalls, RunCall, FreeRun, Policy!Idle
  <2>2. QED  BY <2>1 DEF Init, Policy!Init, NoLocks, Policy!NoLock, RunCalls, RunCall
<1>2. Types_ /\ [Next]_vars => [Policy!vars' = Policy!vars \/ state' = "down" \/ Policy!Next]_vars
  BY PolicyStep
<1>3. QED  BY <1>1, <1>2, TypesCorrect, PTL DEF Spec, LocksFollowPolicy

-----------------------------------------------------------------------------
(* Suspend.  What a step does to the scheduler of the cluster, to          *)
(* suspended, and to the processes that looked a scheduler up.             *)
Quiet ==
  \A x \in Procs : proc'[x].pc \in Scheduling =>
    proc[x].pc \in Scheduling /\ proc'[x].l = proc[x].l /\ proc'[x].task = proc[x].task
LooksUp(p) ==
  /\ scheduler' = CurrentScheduler /\ UNCHANGED suspended
  /\ TypeOf[proc[p].task] # Suspender => ~isSuspendedForTask(TypeOf[proc[p].task])
  /\ proc'[p].l = CurrentScheduler /\ proc'[p].task = proc[p].task
  /\ \A x \in Procs : x # p => proc'[x] = proc[x]
ServiceKind ==
  \/ Quiet /\ UNCHANGED <<scheduler, suspended>>
  \/ \E p \in Procs : LooksUp(p)
  \/ Quiet /\ scheduler' = scheduler + 1 /\ suspended' # NotSuspended
  \/ Quiet /\ UNCHANGED scheduler /\ suspended' = NotSuspended
  \/ Start
  \/ Lost

LEMMA QuietOne ==
  ASSUME NEW p \in Procs, proc'[p].pc \notin Scheduling, \A x \in Procs : x # p => proc'[x] = proc[x]
  PROVE  Quiet
BY DEF Quiet

LEMMA DoneIsQuiet == ASSUME ProcType, NEW p \in Procs, Done(p) PROVE Quiet
BY QuietOne DEF Done, ProcType, IdleProc, Scheduling

LEMMA GotoIsQuiet == ASSUME ProcType, NEW p \in Procs, NEW pc, pc \notin Scheduling, Goto(p, pc) PROVE Quiet
BY QuietOne DEF Goto, ProcType, ProcState

LEMMA ToIsQuiet ==
  ASSUME ProcType, NEW p \in Procs, NEW t, NEW pc, NEW once, pc \notin Scheduling, To(p, t, pc, once) PROVE Quiet
BY QuietOne DEF To, ProcType, ProcState

LEMMA ReturnedIsQuiet == ASSUME NEW p PROVE Returned(p) \notin Scheduling
BY DEF Returned, Scheduling

LEMMA CallKind ==
  ASSUME Types_, NEW c \in Callers, CallStep(c) PROVE ServiceKind
<1> USE DEF Types_
<1>0. c \in Procs /\ proc \in [Procs -> ProcState] /\ proc[c] \in ProcState
  BY DEF Procs, ProcType
<1>1. ASSUME NEW q \in Requests, Call(c, q) PROVE ServiceKind
  <2>1. First(q) \notin Scheduling
    BY TaskServiceAssumption DEF First, Scheduling
  <2>2. proc'[c].pc = First(q) /\ \A x \in Procs : x # c => proc'[x] = proc[x]
    BY <1>0, <1>1 DEF Call, IdleProc
  <2>3. QED  BY <1>0, <1>1, <2>1, <2>2, QuietOne DEF Call, ServiceKind, service
<1>2. CASE shouldPutTask(c) \/ InsertTask(c)
  BY <1>0, <1>2, DoneIsQuiet, GotoIsQuiet DEF shouldPutTask, InsertTask, ServiceKind, service, Scheduling
<1>3. CASE StartLookup(c)
  <2>1. CASE Done(c) /\ UNCHANGED scheduler
    BY <1>0, <1>3, <2>1, DoneIsQuiet DEF StartLookup, ServiceKind
  <2>2. CASE /\ ~isSuspendedForTask(TypeOf[proc[c].task]) /\ scheduler' = CurrentScheduler
             /\ proc' = [proc EXCEPT ![c].pc = "trigger", ![c].l = CurrentScheduler]
    <3>1. LooksUp(c)
      BY <1>0, <1>3, <2>2 DEF StartLookup, LooksUp, ProcState
    <3>2. QED  BY <1>0, <3>1 DEF ServiceKind
  <2>3. QED  BY <1>3, <2>1, <2>2 DEF StartLookup
<1>4. CASE Trigger(c)
  <2>1. UNCHANGED <<scheduler, suspended>>
    BY <1>4 DEF Trigger, service
  <2>2. CASE Goto(c, "once") /\ proc[c].pc = "trigger"
    BY <1>0, <2>1, <2>2 DEF Goto, ProcState, Scheduling, Quiet, ServiceKind
  <2>3. QED  BY <1>0, <1>4, <2>1, <2>2, DoneIsQuiet DEF Trigger, ServiceKind
<1>5. CASE ScheduleOnce(c) \/ Stop(c) \/ Unschedule(c) \/ Return(c) \/ ResumeDone(c)
  BY <1>0, <1>5, DoneIsQuiet DEF ScheduleOnce, Stop, Unschedule, Return, ResumeDone, ServiceKind, service
<1>6. CASE PutStopping(c) \/ UpdateStopping(c) \/ DeleteRow(c) \/ WaitRuns(c)
  BY <1>0, <1>6, GotoIsQuiet DEF PutStopping, UpdateStopping, DeleteRow, WaitRuns, ServiceKind, service, Scheduling
<1>7. CASE DropMutex(c)
  BY <1>0, <1>7, GotoIsQuiet DEF DropMutex, ServiceKind, Scheduling
<1>8. CASE StopLookup(c)
  <2>1. CASE Done(c)
    BY <1>0, <1>8, <2>1, DoneIsQuiet DEF StopLookup, ServiceKind
  <2>2. CASE ~Done(c)
    <3>1. proc'[c].pc = "stopping" /\ \A x \in Procs : x # c => proc'[x] = proc[x]
      BY <1>0, <1>8, <2>2 DEF StopLookup, ProcState
    <3>2. QED  BY <1>0, <1>8, <3>1, QuietOne DEF StopLookup, ServiceKind, Scheduling
  <2>3. QED  BY <2>1, <2>2
<1>9. CASE PutStoppingFails(c)
  <2>1. proc'[c].pc = "unlocked" /\ \A x \in Procs : x # c => proc'[x] = proc[x]
    BY <1>0, <1>9 DEF PutStoppingFails, ProcState
  <2>2. QED  BY <1>0, <1>9, <2>1, QuietOne DEF PutStoppingFails, ServiceKind, Scheduling, service
<1>10. CASE RemoveTask(c)
  <2>1. proc'[c].pc \in {"return", "unschedule"} /\ \A x \in Procs : x # c => proc'[x] = proc[x]
    BY <1>0, <1>10 DEF RemoveTask, ProcState
  <2>2. QED  BY <1>0, <1>10, <2>1, QuietOne DEF RemoveTask, ServiceKind, Scheduling
<1>11. CASE Resume(c)
  <2>1. CASE Done(c) /\ UNCHANGED suspended
    BY <1>0, <1>11, <2>1, DoneIsQuiet DEF Resume, ServiceKind
  <2>2. CASE suspended' = NotSuspended
             /\ proc' = [proc EXCEPT ![c].pc = "list", ![c].info = IF drawer = None THEN NoInfo ELSE drawer]
    <3>1. proc'[c].pc = "list" /\ \A x \in Procs : x # c => proc'[x] = proc[x]
      BY <1>0, <2>2 DEF ProcState
    <3>2. QED  BY <1>0, <1>11, <2>2, <3>1, QuietOne DEF Resume, ServiceKind, Scheduling
  <2>3. QED  BY <1>11, <2>1, <2>2 DEF Resume
<1>12. CASE ResumeDrawerStays(c)
  <2>1. proc'[c].pc = "list" /\ \A x \in Procs : x # c => proc'[x] = proc[x]
    BY <1>0, <1>12 DEF ResumeDrawerStays, ProcState
  <2>2. QED  BY <1>0, <1>12, <2>1, QuietOne DEF ResumeDrawerStays, ServiceKind, Scheduling
<1>13. ASSUME NEW t \in Tasks, ResumeTask(c, t) PROVE ServiceKind
  <2>1. UNCHANGED <<scheduler, suspended>>
    BY <1>13 DEF ResumeTask
  <2>2. CASE To(c, t, "next", FALSE)
    BY <1>0, <2>1, <2>2, ToIsQuiet DEF ServiceKind, Scheduling
  <2>3. ASSUME NEW missed \in BOOLEAN, To(c, t, "schedule", shouldStartTaskOnResume(c, t, missed)) PROVE ServiceKind
    <3>1. proc'[c].pc = "schedule" /\ \A x \in Procs : x # c => proc'[x] = proc[x]
      BY <1>0, <2>3 DEF To, ProcState
    <3>2. QED  BY <1>0, <2>1, <3>1, QuietOne DEF ServiceKind, Scheduling
  <2>4. QED  BY <1>13, <2>2, <2>3 DEF ResumeTask
<1>14. QED
  BY <1>1, <1>2, <1>3, <1>4, <1>5, <1>6, <1>7, <1>8, <1>9, <1>10, <1>11, <1>12, <1>13 DEF CallStep

LEMMA ProcKind ==
  ASSUME Types_, NEW p \in Procs, ProcStep(p) PROVE ServiceKind
<1> USE DEF Types_
<1>0. proc \in [Procs -> ProcState] /\ proc[p] \in ProcState
  BY DEF ProcType
<1>1. CASE ScheduleLookup(p)
  <2>1. CASE Goto(p, Returned(p)) /\ UNCHANGED scheduler
    BY <1>1, <2>1, GotoIsQuiet, ReturnedIsQuiet DEF ScheduleLookup, ServiceKind
  <2>2. CASE /\ ~(isSuspendedForTask(TypeOf[proc[p].task]) /\ TypeOf[proc[p].task] # Suspender)
             /\ scheduler' = CurrentScheduler
             /\ proc' = [proc EXCEPT ![p].pc = "apply", ![p].l = CurrentScheduler]
    <3>1. LooksUp(p)
      BY <1>0, <1>1, <2>2 DEF ScheduleLookup, LooksUp, ProcState
    <3>2. QED  BY <3>1 DEF ServiceKind
  <2>3. QED  BY <1>1, <2>1, <2>2 DEF ScheduleLookup
<1>2. CASE ScheduleApply(p)
  BY <1>2, GotoIsQuiet, ReturnedIsQuiet DEF ScheduleApply, ServiceKind, service
<1>3. CASE ListTasks(p)
  <2>1. proc'[p].pc \in {"next", "suspend"} /\ \A x \in Procs : x # p => proc'[x] = proc[x]
    BY <1>0, <1>3 DEF ListTasks, ProcState
  <2>2. QED  BY <1>3, <2>1, QuietOne DEF ListTasks, ServiceKind, Scheduling, service
<1>4. CASE Suspend(p)
  <2>1. CASE Done(p) /\ UNCHANGED <<scheduler, suspended>>
    BY <2>1, DoneIsQuiet DEF ServiceKind
  <2>2. CASE ~(Done(p) /\ UNCHANGED <<scheduler, suspended>>)
    <3>1. scheduler' = scheduler + 1 /\ suspended' = Req(p).allow /\ proc[p].pc = "suspend"
      BY <1>4, <2>2 DEF Suspend
    <3>2. proc'[p].pc \in {"wait", "next"} /\ \A x \in Procs : x # p => proc'[x] = proc[x]
      BY <1>0, <1>4, <2>2 DEF Suspend, ProcState
    <3>3. QED  BY <3>1, <3>2, QuietOne, AllowIsAllowed DEF ServiceKind, Scheduling
  <2>3. QED  BY <2>1, <2>2
<1>5. CASE PutDrawer(p) \/ PutDrawerFails(p) \/ StatementFails(p)
  BY <1>5, DoneIsQuiet DEF PutDrawer, PutDrawerFails, StatementFails, ServiceKind, service
<1>6. ASSUME NEW t \in Tasks, SuspendTask(p, t) PROVE ServiceKind
  <2>1. UNCHANGED <<scheduler, suspended>>
    BY <1>6 DEF SuspendTask
  <2>2. proc'[p].pc \in {"schedule", "next"} /\ \A x \in Procs : x # p => proc'[x] = proc[x]
    BY <1>0, <1>6 DEF SuspendTask, To, ProcState
  <2>3. QED  BY <2>1, <2>2, QuietOne DEF ServiceKind, Scheduling
<1>7. QED  BY <1>1, <1>2, <1>3, <1>4, <1>5, <1>6 DEF ProcStep

LEMMA StepKind ==
  ASSUME Types_, Next PROVE ServiceKind
<1> USE DEF Types_
<1>0. proc \in [Procs -> ProcState]
  BY DEF ProcType
<1>1. ASSUME UNCHANGED <<proc, scheduler, suspended>> PROVE ServiceKind
  BY <1>1 DEF ServiceKind, Quiet
<1>2. ASSUME NEW r \in RunIds, RunStep(r) PROVE ServiceKind
  <2>0. UNCHANGED <<scheduler, suspended>>
    BY <1>2 DEF RunStep, WindowEnds, Reschedule, RunBegin, PutRun, UpdateTask, PutFails, EnterRunner, DecorateFails,
      ReturnRunner, FinalStatus, LeaveRuns, PutFinalRun, UpdateFinalTask, PutFinalFails, LeaveRunsAgain, service
  <2>1. CASE UNCHANGED proc
    BY <1>1, <2>0, <2>1
  <2>2. CASE EnterRunner(r) /\ proc' = [proc EXCEPT ![r] = [IdleProc EXCEPT !.pc = "list", !.req = SuspendProperties]]
    <3>1. r \in Procs
      BY DEF Procs
    <3>2. QED  BY <1>0, <2>0, <2>2, <3>1, QuietOne DEF IdleProc, Scheduling, ServiceKind
  <2>3. QED
    BY <1>2, <2>1, <2>2 DEF RunStep, WindowEnds, Reschedule, RunBegin, PutRun, UpdateTask, PutFails, EnterRunner,
      DecorateFails, ReturnRunner, FinalStatus, LeaveRuns, PutFinalRun, UpdateFinalTask, PutFinalFails, LeaveRunsAgain
<1>3. ASSUME NEW t \in Tasks, LoadTask(t) PROVE ServiceKind
  <2>1. Main \in Procs /\ UNCHANGED <<scheduler, suspended>>
    BY <1>3 DEF Procs, LoadTask, service
  <2>2. Quiet
    BY <1>3, <2>1, ToIsQuiet DEF LoadTask, Scheduling
  <2>3. QED  BY <2>1, <2>2 DEF ServiceKind
<1>4. CASE Loaded
  <2>1. Main \in Procs /\ UNCHANGED <<scheduler, suspended>>
    BY <1>4 DEF Procs, Loaded, service
  <2>2. Quiet
    BY <1>0, <1>4, <2>1, QuietOne DEF Loaded, Scheduling, IdleProc
  <2>3. QED  BY <2>1, <2>2 DEF ServiceKind
<1>5. CASE Start \/ Exit \/ Crash
  BY <1>5 DEF Exit, Crash, ServiceKind
<1>6. CASE Close \/ \E g \in Schedulers, t \in Tasks : Activate(g, t)
  BY <1>1, <1>6 DEF Close, Activate, service
<1>7. QED  BY <1>2, <1>3, <1>4, <1>5, <1>6, CallKind, ProcKind DEF Next

(* A key that a scheduler knows was there before, or a process put it. *)
LEMMA NewKeys ==
  ASSUME Types_, SchedEffect, NEW g \in Schedulers, NEW t \in Tasks, sched'[g].details[t] # "none"
  PROVE  \/ sched[g].details[t] # "none"
         \/ \E p \in Procs : proc[p].pc \in {"apply", "once"} /\ proc[p].l = g /\ proc[p].task = t
<1>1. CASE Fewer(sched, sched')
  BY <1>1 DEF Fewer
<1>2. CASE \E r \in RunIds : /\ run[r].pc = "ended"
                             /\ OnlyKey(sched, sched', run[r].sched, run[r].task)
                             /\ sched[run[r].sched].details[run[r].task] # "none"
  BY <1>2 DEF OnlyKey
<1>3. CASE \E p \in Procs : proc[p].pc \in {"apply", "once"} /\ OnlyKey(sched, sched', proc[p].l, proc[p].task)
  BY <1>3 DEF OnlyKey
<1>4. QED  BY <1>1, <1>2, <1>3 DEF SchedEffect

(* While the server is down nothing but its start happens. *)
LEMMA DownStep ==
  ASSUME Types_, DownIsEmpty, state = "down", Next PROVE Start \/ Lost
<1> USE DEF Types_
<1>0. \A p \in Procs : proc[p].pc \in {"idle", "done"}
  BY DEF DownIsEmpty
<1>1. ASSUME NEW r \in RunIds, RunStep(r) PROVE FALSE
  BY <1>1, RunMoves DEF DownIsEmpty
<1>2. ASSUME NEW c \in Callers, CallStep(c) PROVE FALSE
  <2>1. proc[c].pc \in {"idle", "done"}
    BY <1>0 DEF Procs
  <2>2. QED
    BY <1>2, <2>1 DEF CallStep, Call, shouldPutTask, InsertTask, StartLookup, Trigger, ScheduleOnce, StopLookup, PutStopping,
        UpdateStopping, PutStoppingFails, DropMutex, Stop, DeleteRow, RemoveTask, Unschedule, Resume,
        ResumeDrawerStays, ResumeDone, ResumeTask, NextTask, WaitRuns, Return
<1>3. ASSUME NEW p \in Procs, ProcStep(p) PROVE FALSE
  BY <1>0, <1>3 DEF ProcStep, ScheduleLookup, ScheduleApply, ListTasks, Suspend, PutDrawer, PutDrawerFails, StatementFails,
      SuspendTask, NextTask
<1>4. proc[Main].pc \in {"idle", "done"}
  BY <1>0 DEF Procs
<1>5. QED  BY <1>1, <1>2, <1>3, <1>4 DEF Next, Loaded, LoadTask, NextTask, Close, Activate, Exit, Crash

LEMMA StateStep ==
  ASSUME Types_, Next PROVE state' = state \/ Start \/ Loaded \/ Lost
<1>1. ASSUME NEW r \in RunIds, RunStep(r) PROVE state' = state
  BY <1>1 DEF RunStep, WindowEnds, Reschedule, RunBegin, PutRun, UpdateTask, PutFails, EnterRunner, DecorateFails,
      ReturnRunner, FinalStatus, LeaveRuns, PutFinalRun, UpdateFinalTask, PutFinalFails, LeaveRunsAgain, bounds, Fault
<1>2. ASSUME NEW c \in Callers, CallStep(c) PROVE state' = state
  BY <1>2 DEF CallStep, Call, shouldPutTask, InsertTask, StartLookup, Trigger, ScheduleOnce, StopLookup, PutStopping,
        UpdateStopping, PutStoppingFails, DropMutex, Stop, DeleteRow, RemoveTask, Unschedule, Resume,
        ResumeDrawerStays, ResumeDone, ResumeTask, WaitRuns, Return, bounds, Fault
<1>3. ASSUME NEW p \in Procs, ProcStep(p) PROVE state' = state
  BY <1>3 DEF ProcStep, ScheduleLookup, ScheduleApply, ListTasks, Suspend, PutDrawer, PutDrawerFails, StatementFails,
      SuspendTask, bounds, Fault
<1>4. CASE Close \/ \E g \in Schedulers, t \in Tasks : Activate(g, t)
  BY <1>4 DEF Close, Activate, bounds
<1>5. ASSUME NEW t \in Tasks, LoadTask(t) PROVE state' = state
  BY <1>5 DEF LoadTask, bounds
<1>6. QED  BY <1>1, <1>2, <1>3, <1>4, <1>5 DEF Next, Exit, Crash

LEMMA DownEmptyStep == ASSUME Types_, DownIsEmpty, Next PROVE DownIsEmpty'
<1>1. CASE Lost
  BY <1>1 DEF Lost, DownIsEmpty, IdleProc, FreeRun
<1>2. CASE ~Lost
  <2>1. state' # "down"
    BY <1>2, DownStep, StateStep DEF Start, Loaded
  <2>2. QED  BY <2>1 DEF DownIsEmpty
<1>3. QED  BY <1>1, <1>2

LEMMA SuspendInit == Init => SuspendInv
BY TaskServiceAssumption DEF Init, SuspendInv, DownIsEmpty, NewerIsEmpty, LookedUpIsAllowed, SuspendedSchedulerIsClean,
  IdleProc, FreeRun, NewScheduler, Scheduling

LEMMA SuspendStep ==
  ASSUME Types_, SuspendInv, Next PROVE SuspendInv'
<1> USE DEF Types_
<1>0. /\ scheduler \in Schedulers \cup {0} /\ Schedulers \subseteq Nat \ {0} /\ CurrentScheduler \in Schedulers
      /\ scheduler \in Nat /\ CurrentScheduler \in Nat
      /\ \A p \in Procs : proc[p].pc \in Scheduling => proc[p].l \in Schedulers
  <2>1. /\ scheduler \in Schedulers \cup {0} /\ Schedulers \subseteq Nat \ {0} /\ CurrentScheduler \in Schedulers
        /\ scheduler \in Nat /\ CurrentScheduler \in Nat
    BY TaskServiceAssumption DEF Schedulers, ServiceType, CurrentScheduler
  <2>2. ASSUME NEW p \in Procs, proc[p].pc \in Scheduling PROVE proc[p].l \in Schedulers
    BY <2>2, ProcRecord DEF ProcOk, WithScheduler, Scheduling
  <2>3. QED  BY <2>1, <2>2
<1>1. /\ DownIsEmpty /\ NewerIsEmpty /\ LookedUpIsAllowed /\ SuspendedSchedulerIsClean
  BY DEF SuspendInv
<1>2. SchedEffect /\ ServiceKind /\ DownIsEmpty'
  BY <1>1, SchedStep, StepKind, DownEmptyStep
<1>3. CASE Lost
  <2>1. NewerIsEmpty' /\ LookedUpIsAllowed' /\ SuspendedSchedulerIsClean'
    BY <1>3 DEF Lost, NewerIsEmpty, LookedUpIsAllowed, SuspendedSchedulerIsClean, IdleProc, NewScheduler, Scheduling
  <2>2. QED  BY <1>2, <2>1 DEF SuspendInv
<1>4. CASE Start
  <2>1. /\ scheduler = 0 /\ UNCHANGED <<scheduler, sched>> /\ \A p \in Procs : proc[p].pc \in {"idle", "done"}
        /\ proc'[Main].pc = "next" /\ \A p \in Procs : p # Main => proc'[p] = proc[p]
    BY <1>1, <1>4 DEF Start, DownIsEmpty, Procs, ProcType, IdleProc
  <2>2. \A p \in Procs : proc'[p].pc \notin Scheduling
    BY <2>1 DEF Scheduling
  <2>3. NewerIsEmpty' /\ LookedUpIsAllowed' /\ SuspendedSchedulerIsClean'
    BY <1>1, <2>1, <2>2 DEF NewerIsEmpty, LookedUpIsAllowed, SuspendedSchedulerIsClean
  <2>4. QED  BY <1>2, <2>3 DEF SuspendInv
<1>5. ASSUME scheduler' \in Nat, scheduler' >= scheduler,
             \A p \in Procs : proc'[p].pc \in Scheduling => proc'[p].l <= scheduler'
      PROVE  NewerIsEmpty'
  <2>1. ASSUME NEW g \in Schedulers, g > scheduler', NEW t \in Tasks, sched'[g].details[t] # "none" PROVE FALSE
    <3>1. g > scheduler
      BY <1>0, <1>5, <2>1
    <3>2. PICK p \in Procs : proc[p].pc \in {"apply", "once"} /\ proc[p].l = g
      BY <1>1, <1>2, <2>1, <3>1, NewKeys DEF NewerIsEmpty
    <3>3. QED  BY <1>0, <1>1, <3>1, <3>2 DEF NewerIsEmpty, Scheduling
  <2>2. QED  BY <1>5, <2>1 DEF NewerIsEmpty
<1>6. ASSUME Quiet, scheduler' \in Nat, scheduler' >= scheduler
      PROVE  \A p \in Procs : proc'[p].pc \in Scheduling => proc'[p].l <= scheduler
  BY <1>1, <1>6 DEF NewerIsEmpty, Quiet
<1>7. CASE Quiet /\ UNCHANGED <<scheduler, suspended>>
  <2>1. NewerIsEmpty'
    BY <1>0, <1>5, <1>6, <1>7
  <2>2. LookedUpIsAllowed'
    BY <1>1, <1>7 DEF Quiet, LookedUpIsAllowed
  <2>3. SuspendedSchedulerIsClean'
    <3>1. SUFFICES ASSUME suspended # NotSuspended, scheduler # 0, NEW t \in Tasks, sched'[scheduler].details[t] # "none"
                   PROVE  TypeOf[t] \in {suspended, Suspender}
      BY <1>7 DEF SuspendedSchedulerIsClean
    <3>2. CASE sched[scheduler].details[t] # "none"
      BY <1>1, <3>1, <3>2 DEF SuspendedSchedulerIsClean
    <3>3. CASE \E p \in Procs : proc[p].pc \in {"apply", "once"} /\ proc[p].l = scheduler /\ proc[p].task = t
      BY <1>1, <3>1, <3>3 DEF LookedUpIsAllowed, Scheduling
    <3>4. QED  BY <1>0, <1>2, <3>1, <3>2, <3>3, NewKeys
  <2>4. QED  BY <1>2, <2>1, <2>2, <2>3 DEF SuspendInv
<1>8. ASSUME NEW p \in Procs, LooksUp(p) PROVE SuspendInv'
  <2>1. /\ scheduler' = CurrentScheduler /\ suspended' = suspended /\ CurrentScheduler >= scheduler
        /\ scheduler # 0 => CurrentScheduler = scheduler
        /\ scheduler = 0 => CurrentScheduler > scheduler
    BY <1>0, <1>8 DEF LooksUp, CurrentScheduler
  <2>2. \A x \in Procs : x # p => proc'[x] = proc[x]
    BY <1>8 DEF LooksUp
  <2>3. proc'[p].l = CurrentScheduler /\ proc'[p].task = proc[p].task
    BY <1>8 DEF LooksUp
  <2>4. \A x \in Procs : proc'[x].pc \in Scheduling => proc'[x].l <= scheduler'
    <3>1. \A x \in Procs : x # p /\ proc[x].pc \in Scheduling => proc[x].l <= scheduler
      BY <1>1 DEF NewerIsEmpty
    <3>2. scheduler \in Nat /\ CurrentScheduler \in Nat
      BY <1>0
    <3>3. ASSUME NEW x \in Procs, proc'[x].pc \in Scheduling PROVE proc'[x].l <= scheduler'
      <4>1. CASE x = p
        BY <2>1, <2>3, <3>2, <4>1
      <4>2. CASE x # p
        <5>1. proc'[x] = proc[x] /\ proc[x].l <= scheduler /\ proc[x].l \in Nat
          BY <1>0, <2>2, <3>1, <3>3, <4>2
        <5>2. QED  BY <2>1, <3>2, <5>1
      <4>3. QED  BY <4>1, <4>2
    <3>4. QED  BY <3>3
  <2>5. NewerIsEmpty'
    BY <1>0, <1>5, <2>1, <2>4
  <2>6. suspended # NotSuspended => TypeOf[proc[p].task] \in {suspended, Suspender}
    BY <1>8 DEF LooksUp, isSuspendedForTask
  <2>7. \A x \in Procs : proc[x].pc \in Scheduling /\ proc[x].l = CurrentScheduler => scheduler # 0
    BY <1>0, <1>1, <2>1 DEF NewerIsEmpty
  <2>8. LookedUpIsAllowed'
    BY <1>1, <2>1, <2>2, <2>3, <2>6, <2>7 DEF LookedUpIsAllowed
  <2>9. SuspendedSchedulerIsClean'
    <3>1. SUFFICES ASSUME suspended # NotSuspended, NEW t \in Tasks, sched'[CurrentScheduler].details[t] # "none"
                   PROVE  TypeOf[t] \in {suspended, Suspender}
      BY <2>1 DEF SuspendedSchedulerIsClean
    <3>2. CASE sched[CurrentScheduler].details[t] # "none"
      <4>1. scheduler # 0
        BY <1>0, <1>1, <2>1, <3>2 DEF NewerIsEmpty
      <4>2. QED  BY <1>1, <2>1, <3>1, <3>2, <4>1 DEF SuspendedSchedulerIsClean
    <3>3. CASE \E x \in Procs : proc[x].pc \in {"apply", "once"} /\ proc[x].l = CurrentScheduler /\ proc[x].task = t
      BY <1>1, <2>1, <2>7, <3>1, <3>3 DEF LookedUpIsAllowed, Scheduling
    <3>4. QED  BY <1>0, <1>2, <3>1, <3>2, <3>3, NewKeys
  <2>10. QED  BY <1>2, <2>5, <2>8, <2>9 DEF SuspendInv
<1>9. CASE Quiet /\ scheduler' = scheduler + 1 /\ suspended' # NotSuspended
  <2>0. scheduler \in Nat /\ scheduler' \in Nat /\ scheduler' > scheduler
    BY <1>0, <1>9
  <2>1. \A p \in Procs : proc'[p].pc \in Scheduling => proc'[p].l <= scheduler /\ proc'[p].l \in Nat
    <3>1. ASSUME NEW p \in Procs, proc'[p].pc \in Scheduling PROVE proc'[p].l <= scheduler /\ proc'[p].l \in Nat
      <4>1. proc[p].pc \in Scheduling /\ proc'[p].l = proc[p].l
        BY <1>9, <3>1 DEF Quiet
      <4>2. proc[p].l \in Nat
        BY <1>0, <4>1
      <4>3. QED  BY <1>6, <1>9, <2>0, <3>1, <4>1, <4>2
    <3>2. QED  BY <3>1
  <2>2. NewerIsEmpty'
    BY <1>5, <2>0, <2>1
  <2>3. LookedUpIsAllowed'
    BY <2>0, <2>1 DEF LookedUpIsAllowed
  <2>4. SuspendedSchedulerIsClean'
    <3>1. scheduler' \in Schedulers
      BY <1>2, <2>0, ServiceTypeStep DEF ServiceType
    <3>2. ASSUME NEW t \in Tasks PROVE sched'[scheduler'].details[t] = "none"
      <4>1. sched[scheduler'].details[t] = "none"
        BY <1>1, <2>0, <3>1 DEF NewerIsEmpty
      <4>2. ~ \E p \in Procs : proc[p].pc \in {"apply", "once"} /\ proc[p].l = scheduler'
        BY <1>0, <1>1, <2>0 DEF NewerIsEmpty, Scheduling
      <4>3. QED  BY <1>2, <3>1, <4>1, <4>2, NewKeys
    <3>3. QED  BY <3>2 DEF SuspendedSchedulerIsClean
  <2>5. QED  BY <1>2, <2>2, <2>3, <2>4 DEF SuspendInv
<1>10. CASE Quiet /\ UNCHANGED scheduler /\ suspended' = NotSuspended
  <2>1. NewerIsEmpty'
    BY <1>0, <1>5, <1>6, <1>10
  <2>2. LookedUpIsAllowed' /\ SuspendedSchedulerIsClean'
    BY <1>10 DEF LookedUpIsAllowed, SuspendedSchedulerIsClean
  <2>3. QED  BY <1>2, <2>1, <2>2 DEF SuspendInv
<1>11. QED  BY <1>2, <1>3, <1>4, <1>7, <1>8, <1>9, <1>10 DEF ServiceKind

LEMMA SuspendCorrect == Spec => []SuspendInv
<1>1. Types_ /\ SuspendInv /\ [Next]_vars => SuspendInv'
  <2>1. CASE UNCHANGED vars
    BY <2>1 DEF vars, service, bounds, SuspendInv, DownIsEmpty, NewerIsEmpty, LookedUpIsAllowed, SuspendedSchedulerIsClean
  <2>2. QED  BY <2>1, SuspendStep
<1>2. QED  BY <1>1, SuspendInit, TypesCorrect, PTL DEF Spec

(* A suspended cluster's scheduler is never given a task that may not run, *)
(* whatever PutTask, StartTask, Resume and suspend were under way, across  *)
(* restarts.                                                               *)
THEOREM SuspendedSchedulerIsCleanCorrect == Spec => []SuspendedSchedulerIsClean
<1>1. SuspendInv => SuspendedSchedulerIsClean
  BY DEF SuspendInv
<1>2. QED  BY <1>1, SuspendCorrect, PTL

-----------------------------------------------------------------------------
(* The rows of runs.  A task with rows has a last one. *)
LEMMA GreatestExists ==
  ASSUME NEW N \in Nat, NEW S \in SUBSET (1..N), S # {} PROVE \E x \in S : \A y \in S : y <= x
<1> DEFINE D == {N - x : x \in S}
<1>0. \A x \in S : N - x \in Nat
  OBVIOUS
<1>1. D \in SUBSET Nat /\ D # {}
  BY <1>0
<1>2. PICK d \in D : \A e \in D : d <= e
  BY <1>1, LeastExists
<1>3. PICK x \in S : d = N - x
  BY <1>2
<1>4. ASSUME NEW y \in S PROVE y <= x
  <2>1. N - x <= N - y
    BY <1>2, <1>3
  <2>2. QED  BY <2>1, <1>3
<1>5. QED  BY <1>3, <1>4

LEMMA LastIsLast ==
  ASSUME NEW t \in Tasks, RowsOf(t) # {} PROVE LastIs(t)
<1>1. \E r \in RowsOf(t) : \A x \in RowsOf(t) : x <= r
  BY GreatestExists, TaskServiceAssumption DEF RowsOf, RunIds
<1>2. QED  BY <1>1 DEF LastIs, LastRun

LEMMA RowIs ==
  ASSUME TableType, NEW r \in RunIds
  PROVE  /\ runRows[r] = NoRow => runRows[r].task = None
         /\ runRows[r] # NoRow => runRows[r].task \in Tasks /\ runRows[r].status \in RunStatus
BY DEF TableType, RunRow, NoRow

(* What a step does to the rows of runs. *)
Puts1(r, t, s) == runRows' = [runRows EXCEPT ![r] = [task |-> t, status |-> s]]
RowsKind ==
  \/ UNCHANGED runRows
  \/ \E r \in RunIds : PutRun(r) /\ Puts1(r, run[r].task, "RUNNING")
  \/ \E r \in RunIds : PutFinalRun(r) /\ Puts1(r, run[r].task, run[r].status)
  \/ \E c \in Callers : PutStopping(c) /\ Puts1(proc[c].run, proc[c].task, "STOPPING")
  \/ \E t \in Tasks : /\ LoadTask(t) /\ RowsOf(t) # {} /\ runRows[LastRun(t)].status = "RUNNING"
                      /\ runRows' = [runRows EXCEPT ![LastRun(t)].status = "ABORTED"]

LEMMA RowsStep == ASSUME Next PROVE RowsKind
<1>1. ASSUME NEW r \in RunIds, RunStep(r) PROVE RowsKind
  <2>1. CASE PutRun(r)
    BY <2>1 DEF PutRun, RowsKind, Puts1, Row
  <2>2. CASE PutFinalRun(r)
    BY <2>2 DEF PutFinalRun, RowsKind, Puts1, Row
  <2>3. QED
    BY <1>1, <2>1, <2>2 DEF RunStep, WindowEnds, Reschedule, RunBegin, UpdateTask, PutFails, EnterRunner, DecorateFails,
      ReturnRunner, FinalStatus, LeaveRuns, UpdateFinalTask, PutFinalFails, LeaveRunsAgain, RowsKind, tables
<1>2. ASSUME NEW c \in Callers, CallStep(c) PROVE RowsKind
  <2>1. CASE PutStopping(c)
    BY <2>1 DEF PutStopping, RowsKind, Puts1
  <2>2. QED
    BY <1>2, <2>1 DEF CallStep, Call, shouldPutTask, InsertTask, StartLookup, Trigger, ScheduleOnce, StopLookup,
        UpdateStopping, PutStoppingFails, DropMutex, Stop, DeleteRow, RemoveTask, Unschedule, Resume,
        ResumeDrawerStays, ResumeDone, ResumeTask, WaitRuns, Return, RowsKind, tables
<1>3. ASSUME NEW p \in Procs, ProcStep(p) PROVE RowsKind
  BY <1>3 DEF ProcStep, ScheduleLookup, ScheduleApply, ListTasks, Suspend, PutDrawer, PutDrawerFails, StatementFails,
      SuspendTask, tables, RowsKind
<1>4. ASSUME NEW t \in Tasks, LoadTask(t) PROVE RowsKind
  <2>1. CASE RowsOf(t) = {}
    BY <1>4, <2>1 DEF LoadTask, RowsKind
  <2>2. CASE RowsOf(t) # {}
    BY <1>4, <2>2 DEF LoadTask, RowsKind
  <2>3. QED  BY <2>1, <2>2
<1>5. QED  BY <1>1, <1>2, <1>3, <1>4 DEF Next, Activate, Start, Loaded, Close, Exit, Crash, Lost, RowsKind, tables

(* A run that begun keeps its task until it is over, and a free run was free. *)
LEMMA RunsStep ==
  ASSUME Types_, Next, NEW r \in RunIds
  PROVE  /\ run'[r].pc = "free" => run[r].pc = "free"
         /\ Live(r)' => \/ Live(r) /\ run'[r].task = run[r].task
                        \/ /\ run[r].pc = "free" /\ run'[r].pc = "new"
                           /\ \E g \in Schedulers : run'[r].task \in sched[g].queue \/ sched[g].details[run'[r].task] # "none"
         /\ Live(r) /\ ~Live(r)' => run[r].pc = "ended" \/ Lost
<1> USE DEF Types_
<1>1. CASE NotARun
  <2>1. CASE SameRuns
    BY <2>1 DEF SameRuns, Live
  <2>2. ASSUME NEW g \in Schedulers, NEW t \in Tasks, Registers(g, t)
        PROVE  /\ run'[r].pc = "free" => run[r].pc = "free"
               /\ Live(r)' => \/ Live(r) /\ run'[r].task = run[r].task
                              \/ /\ run[r].pc = "free" /\ run'[r].pc = "new"
                                 /\ run'[r].task \in sched[g].queue \/ sched[g].details[run'[r].task] # "none"
               /\ Live(r) => Live(r)'
    <3>1. PICK n \in RunIds : /\ run[n].pc = "free" /\ run'[n].pc = "new" /\ run'[n].task = t
                              /\ \A x \in RunIds : x # n => run'[x] = run[x]
      BY <2>2, RegistersIs
    <3>2. t \in sched[g].queue \/ sched[g].details[t] # "none"
      BY <2>2 DEF Registers
    <3>3. QED  BY <3>1, <3>2 DEF Live
  <2>3. CASE Lost
    BY <2>3 DEF Lost, Live, FreeRun
  <2>4. QED  BY <1>1, <2>1, <2>2, <2>3 DEF NotARun
<1>2. ASSUME NEW x \in RunIds, RunStep(x)
      PROVE  /\ run'[r].pc = "free" => run[r].pc = "free"
             /\ Live(r)' => Live(r) /\ run'[r].task = run[r].task
             /\ Live(r) /\ ~Live(r)' => run[r].pc = "ended"
  BY <1>2, RunMoves DEF Live
<1>3. QED  BY <1>1, <1>2, StepKinds

(* A task in the table stays there. *)
LEMMA RowsGrow ==
  ASSUME Types_, Next, NEW t \in Tasks, rows[t].exists PROVE rows'[t].exists
<1> USE DEF Types_
<1>0. rows \in [Tasks -> TaskRow]
  BY DEF TableType
<1>1. CASE UNCHANGED rows
  BY <1>1
<1>2. ASSUME NEW u \in Tasks, NEW s, TaskStatus(u, s) PROVE rows'[t].exists
  BY <1>0, <1>2 DEF TaskStatus, TaskRow
<1>3. ASSUME NEW r \in RunIds, RunStep(r) PROVE rows'[t].exists
  <2>1. run[r].task \in Tasks
    BY <1>3, RunMoves, RunRecord
  <2>2. QED
    BY <1>1, <1>2, <1>3, <2>1 DEF RunStep, WindowEnds, Reschedule, RunBegin, PutRun, UpdateTask, PutFails, EnterRunner,
      DecorateFails, ReturnRunner, FinalStatus, LeaveRuns, PutFinalRun, UpdateFinalTask, PutFinalFails, LeaveRunsAgain, tables
<1>4. ASSUME NEW c \in Callers, CallStep(c) PROVE rows'[t].exists
  <2>0. proc[c].pc \in WithTask => proc[c].task \in Tasks
    BY ProcRecord DEF ProcOk, Procs
  <2>1. CASE UpdateStopping(c)
    BY <1>2, <2>0, <2>1 DEF UpdateStopping, WithTask
  <2>2. CASE InsertTask(c)
    BY <1>0, <2>0, <2>2 DEF InsertTask, TaskRow, WithTask
  <2>3. CASE DeleteRow(c)
    BY <1>0, <2>0, <2>3 DEF DeleteRow, TaskRow, WithTask
  <2>4. QED
    BY <1>1, <1>4, <2>1, <2>2, <2>3 DEF CallStep, Call, shouldPutTask, StartLookup, Trigger, ScheduleOnce, StopLookup,
        PutStopping, PutStoppingFails, DropMutex, Stop, RemoveTask, Unschedule, Resume,
        ResumeDrawerStays, ResumeDone, ResumeTask, WaitRuns, Return, tables
<1>5. ASSUME NEW p \in Procs, ProcStep(p) PROVE rows'[t].exists
  BY <1>1, <1>5 DEF ProcStep, ScheduleLookup, ScheduleApply, ListTasks, Suspend, PutDrawer, PutDrawerFails, StatementFails,
      SuspendTask, tables
<1>6. ASSUME NEW u \in Tasks, LoadTask(u) PROVE rows'[t].exists
  BY <1>1, <1>2, <1>6 DEF LoadTask
<1>7. QED  BY <1>1, <1>3, <1>4, <1>5, <1>6 DEF Next, Activate, Start, Loaded, Close, Exit, Crash, Lost, tables

(* What a step of a call does to its process. *)
OnTask == WithTask \ {"put", "insert"}
TabledProc(v) == (v.pc \in OnTask => rows[v.task].exists) /\ \A t \in v.todo : rows[t].exists
Keeps(p) ==
  /\ proc'[p].task = proc[p].task /\ proc'[p].todo = proc[p].todo
  /\ proc'[p].pc \in OnTask => proc[p].pc \in OnTask

LEMMA KeepsTabled ==
  ASSUME Types_, Next, NEW p \in Procs, TabledProc(proc[p]), Keeps(p) PROVE TabledProc(proc[p])'
<1>1. proc[p].todo \subseteq Tasks /\ (proc[p].pc \in OnTask => proc[p].task \in Tasks)
  BY ProcRecord DEF Types_, ProcOk, OnTask
<1>2. QED  BY <1>1, RowsGrow DEF TabledProc, Keeps

LEMMA DoneMoves ==
  ASSUME ProcType, NEW p \in Procs, Done(p)
  PROVE  /\ \A x \in Procs : x # p => proc'[x] = proc[x]
         /\ proc'[p].pc = "done" /\ proc'[p].todo = {}
BY DEF Done, ProcType, IdleProc

LEMMA DoneTabled == ASSUME NEW p, proc'[p].pc = "done" /\ proc'[p].todo = {} PROVE TabledProc(proc[p])'
BY DEF TabledProc, OnTask, WithTask

LEMMA GotoMoves ==
  ASSUME ProcType, NEW p \in Procs, NEW pc, Goto(p, pc)
  PROVE  /\ \A x \in Procs : x # p => proc'[x] = proc[x]
         /\ proc'[p].pc = pc /\ proc'[p].task = proc[p].task /\ proc'[p].todo = proc[p].todo
BY DEF Goto, ProcType, ProcState

LEMMA ToMoves ==
  ASSUME ProcType, NEW p \in Procs, NEW t, NEW pc, NEW once, To(p, t, pc, once)
  PROVE  /\ \A x \in Procs : x # p => proc'[x] = proc[x]
         /\ proc'[p].pc = pc /\ proc'[p].task = t /\ proc'[p].todo = proc[p].todo \ {t} /\ proc'[p].req = proc[p].req
BY DEF To, ProcType, ProcState

LEMMA ToTabled ==
  ASSUME Types_, Next, NEW p \in Procs, TabledProc(proc[p]), NEW t \in proc[p].todo,
         proc'[p].task = t, proc'[p].todo = proc[p].todo \ {t}
  PROVE  TabledProc(proc[p])'
<1>1. proc[p].todo \subseteq Tasks
  BY ProcRecord DEF Types_
<1>2. QED  BY <1>1, RowsGrow DEF TabledProc

CallMoves(c) ==
  /\ \A x \in Procs : x # c => proc'[x] = proc[x]
  /\ proc'[c].pc = "stopping" => StopLookup(c) /\ ~Done(c)
  /\ TabledProc(proc[c]) => TabledProc(proc[c])'

LEMMA FirstIs ==
  ASSUME NEW q \in Requests
  PROVE  /\ First(q) \in {"put", "start", "delete", "list", "resume", "stop"}
         /\ First(q) \in {"start", "stop", "delete"} => q.op \in {"start", "stop", "delete"}
<1>1. q.op \in {"put", "start", "stop", "delete", "suspend", "resume"}
  BY TaskServiceAssumption
<1>2. CASE q.op = "put"      BY <1>2 DEF First
<1>3. CASE q.op = "start"    BY <1>3 DEF First
<1>4. CASE q.op = "stop"
  <2>1. First(q) = IF q.flag /\ rows[q.task].enabled THEN "put" ELSE "stop"
    BY <1>4 DEF First
  <2>2. QED  BY <1>4, <2>1
<1>5. CASE q.op = "delete"   BY <1>5 DEF First
<1>6. CASE q.op = "suspend"  BY <1>6 DEF First
<1>7. CASE q.op = "resume"   BY <1>7 DEF First
<1>8. QED  BY <1>1, <1>2, <1>3, <1>4, <1>5, <1>6, <1>7

LEMMA CallMovesStep ==
  ASSUME Types_, Next, NEW c \in Callers, CallStep(c) PROVE CallMoves(c)
<1> USE DEF Types_
<1>0. c \in Procs /\ proc \in [Procs -> ProcState] /\ proc[c] \in ProcState /\ ProcOk(proc[c])
  BY ProcRecord DEF Procs, ProcType
<1>1. ASSUME Done(c) PROVE CallMoves(c)
  BY <1>0, <1>1, DoneMoves, DoneTabled DEF CallMoves
<1>2. ASSUME \A x \in Procs : x # c => proc'[x] = proc[x], Keeps(c), proc'[c].pc # "stopping" PROVE CallMoves(c)
  BY <1>0, <1>2, KeepsTabled DEF CallMoves
<1>3. ASSUME NEW pc, Goto(c, pc), pc # "stopping", pc \in OnTask => proc[c].pc \in OnTask PROVE CallMoves(c)
  BY <1>0, <1>2, <1>3, GotoMoves DEF Keeps
<1>4. ASSUME NEW q \in Requests, Call(c, q) PROVE CallMoves(c)
  <2>1. proc'[c].pc = First(q) /\ proc'[c].task = q.task /\ proc'[c].todo = {} /\ \A x \in Procs : x # c => proc'[x] = proc[x]
    BY <1>0, <1>4 DEF Call, IdleProc
  <2>2. First(q) # "stopping" /\ (First(q) \in OnTask => q.op \in {"start", "stop", "delete"})
    BY FirstIs DEF OnTask, WithTask
  <2>3. UNCHANGED rows /\ (First(q) \in OnTask => rows[q.task].exists)
    BY <1>4, <2>2 DEF Call, tables
  <2>4. QED  BY <2>1, <2>2, <2>3 DEF CallMoves, TabledProc
<1>5. CASE shouldPutTask(c)
  BY <1>1, <1>3, <1>5 DEF shouldPutTask, OnTask
<1>6. CASE InsertTask(c)
  <2>1. proc[c].task \in Tasks /\ Goto(c, "schedule")
    BY <1>0, <1>6 DEF InsertTask, ProcOk, WithTask
  <2>2. rows'[proc[c].task].exists
    BY <1>6, <2>1 DEF InsertTask, TableType, TaskRow
  <2>3. /\ \A x \in Procs : x # c => proc'[x] = proc[x]
        /\ proc'[c].pc = "schedule" /\ proc'[c].task = proc[c].task /\ proc'[c].todo = proc[c].todo
    BY <1>0, <2>1, GotoMoves
  <2>4. proc[c].todo \subseteq Tasks
    BY <1>0, ProcRecord
  <2>5. QED  BY <2>2, <2>3, <2>4, RowsGrow DEF CallMoves, TabledProc
<1>7. CASE StartLookup(c)
  <2>1. CASE Done(c)
    BY <1>1, <2>1
  <2>2. CASE proc' = [proc EXCEPT ![c].pc = "trigger", ![c].l = CurrentScheduler] /\ proc[c].pc = "start"
    <3>1. Keeps(c) /\ proc'[c].pc = "trigger" /\ \A x \in Procs : x # c => proc'[x] = proc[x]
      BY <1>0, <2>2 DEF Keeps, ProcState, OnTask, WithTask
    <3>2. QED  BY <1>2, <3>1
  <2>3. QED  BY <1>7, <2>1, <2>2 DEF StartLookup
<1>8. CASE Trigger(c)
  BY <1>1, <1>3, <1>8 DEF Trigger, OnTask, WithTask
<1>9. CASE ScheduleOnce(c) \/ Stop(c) \/ Unschedule(c) \/ Return(c) \/ ResumeDone(c)
  BY <1>1, <1>9 DEF ScheduleOnce, Stop, Unschedule, Return, ResumeDone
<1>10. CASE PutStopping(c) \/ UpdateStopping(c) \/ DeleteRow(c) \/ WaitRuns(c)
  BY <1>3, <1>10 DEF PutStopping, UpdateStopping, DeleteRow, WaitRuns, OnTask, WithTask
<1>11. CASE DropMutex(c)
  BY <1>3, <1>11 DEF DropMutex, OnTask, WithTask
<1>12. CASE StopLookup(c)
  <2>1. CASE Done(c)
    BY <1>1, <2>1
  <2>2. CASE ~Done(c)
    <3>1. /\ proc[c].pc = "stop" /\ proc'[c].pc = "stopping" /\ proc'[c].task = proc[c].task /\ proc'[c].todo = proc[c].todo
          /\ \A x \in Procs : x # c => proc'[x] = proc[x]
      BY <1>0, <1>12, <2>2 DEF StopLookup, ProcState
    <3>2. Keeps(c)
      BY <3>1 DEF Keeps, OnTask, WithTask
    <3>3. QED  BY <1>0, <1>12, <2>2, <3>1, <3>2, KeepsTabled DEF CallMoves
  <2>3. QED  BY <2>1, <2>2
<1>13. CASE PutStoppingFails(c)
  <2>1. /\ proc[c].pc \in {"stopping", "stopping task"} /\ proc'[c].pc = "unlocked" /\ proc'[c].task = proc[c].task
        /\ proc'[c].todo = proc[c].todo /\ \A x \in Procs : x # c => proc'[x] = proc[x]
    BY <1>0, <1>13 DEF PutStoppingFails, ProcState
  <2>2. QED  BY <1>2, <2>1 DEF Keeps, OnTask, WithTask
<1>14. CASE RemoveTask(c)
  <2>1. /\ proc[c].pc = "remove" /\ proc'[c].pc \in {"return", "unschedule"} /\ proc'[c].task = proc[c].task
        /\ proc'[c].todo = proc[c].todo /\ \A x \in Procs : x # c => proc'[x] = proc[x]
    BY <1>0, <1>14 DEF RemoveTask, ProcState
  <2>2. QED  BY <1>2, <2>1 DEF Keeps, OnTask, WithTask
<1>15. CASE Resume(c) \/ ResumeDrawerStays(c)
  <2>1. CASE Done(c)
    BY <1>1, <2>1
  <2>2. CASE ~Done(c)
    <3>1. /\ proc'[c].pc = "list" /\ proc'[c].task = proc[c].task
          /\ proc'[c].todo = proc[c].todo /\ \A x \in Procs : x # c => proc'[x] = proc[x]
      BY <1>0, <1>15, <2>2 DEF Resume, ResumeDrawerStays, ProcState
    <3>2. QED  BY <1>2, <3>1 DEF Keeps, OnTask, WithTask
  <2>3. QED  BY <2>1, <2>2
<1>16. ASSUME NEW t \in Tasks, ResumeTask(c, t) PROVE CallMoves(c)
  <2>1. t \in proc[c].todo
    BY <1>16 DEF ResumeTask, NextTask
  <2>2. /\ proc'[c].pc \in {"next", "schedule"} /\ proc'[c].task = t /\ proc'[c].todo = proc[c].todo \ {t}
        /\ \A x \in Procs : x # c => proc'[x] = proc[x]
    <3>1. CASE To(c, t, "next", FALSE)
      BY <1>0, <3>1 DEF To, ProcState
    <3>2. CASE \E missed \in BOOLEAN : To(c, t, "schedule", shouldStartTaskOnResume(c, t, missed))
      BY <1>0, <3>2 DEF To, ProcState
    <3>3. QED  BY <1>16, <3>1, <3>2 DEF ResumeTask
  <2>3. QED  BY <1>0, <2>1, <2>2, ToTabled DEF CallMoves
<1>17. QED
  BY <1>4, <1>5, <1>6, <1>7, <1>8, <1>9, <1>10, <1>11, <1>12, <1>13, <1>14, <1>15, <1>16 DEF CallStep

(* What the steps common to calls, LoadTasks and suspendRunner do. *)
ProcMoves(p) ==
  /\ \A x \in Procs : x # p => proc'[x] = proc[x]
  /\ proc'[p].pc # "stopping"
  /\ TabledProc(proc[p]) => TabledProc(proc[p])'
  /\ proc[p].pc \in {"next", "schedule", "apply"} /\ Req(p) = LoadRequest =>
       proc'[p].pc \in {"next", "apply"} /\ proc'[p].req = LoadRequest /\ proc'[p].todo = proc[p].todo

LEMMA ProcMovesStep ==
  ASSUME Types_, Next, NEW p \in Procs, ProcStep(p) PROVE ProcMoves(p)
<1> USE DEF Types_
<1>0. proc \in [Procs -> ProcState] /\ proc[p] \in ProcState /\ ProcOk(proc[p])
  BY ProcRecord DEF ProcType
<1>1. ASSUME Done(p), proc[p].pc \in {"next", "schedule", "apply"} => Req(p) # LoadRequest PROVE ProcMoves(p)
  BY <1>1, DoneMoves, DoneTabled DEF ProcMoves
<1>2. CASE ScheduleLookup(p)
  <2>1. /\ proc[p].pc = "schedule" /\ proc'[p].pc \in {"apply", Returned(p)} /\ proc'[p].task = proc[p].task
        /\ proc'[p].req = proc[p].req
        /\ proc'[p].todo = proc[p].todo /\ \A x \in Procs : x # p => proc'[x] = proc[x]
    BY <1>0, <1>2 DEF ScheduleLookup, Goto, ProcState
  <2>2. Returned(p) \in {"next", "stop", "return"} /\ (Req(p) = LoadRequest => Returned(p) = "next")
    BY DEF Returned, LoadRequest
  <2>3. Keeps(p)
    BY <2>1, <2>2 DEF Keeps, OnTask, WithTask
  <2>4. QED  BY <2>1, <2>2, <2>3, KeepsTabled DEF ProcMoves, Req
<1>3. CASE ScheduleApply(p)
  <2>1. /\ proc[p].pc = "apply" /\ proc'[p].pc = Returned(p) /\ proc'[p].task = proc[p].task
        /\ proc'[p].req = proc[p].req
        /\ proc'[p].todo = proc[p].todo /\ \A x \in Procs : x # p => proc'[x] = proc[x]
    BY <1>0, <1>3 DEF ScheduleApply, Goto, ProcState
  <2>2. Returned(p) \in {"next", "stop", "return"} /\ (Req(p) = LoadRequest => Returned(p) = "next")
    BY DEF Returned, LoadRequest
  <2>3. Keeps(p)
    BY <2>1, <2>2 DEF Keeps, OnTask, WithTask
  <2>4. QED  BY <2>1, <2>2, <2>3, KeepsTabled DEF ProcMoves, Req
<1>4. CASE ListTasks(p)
  <2>1. /\ proc[p].pc = "list" /\ proc'[p].pc \in {"next", "suspend"} /\ proc'[p].todo = Tabled
        /\ UNCHANGED rows /\ \A x \in Procs : x # p => proc'[x] = proc[x]
    BY <1>0, <1>4 DEF ListTasks, ProcState, tables
  <2>2. QED  BY <2>1 DEF ProcMoves, TabledProc, Tabled, OnTask, WithTask
<1>5. CASE Suspend(p)
  <2>1. proc[p].pc = "suspend"
    BY <1>5 DEF Suspend
  <2>2. CASE Done(p)
    BY <1>1, <2>1, <2>2
  <2>3. CASE ~Done(p)
    <3>1. /\ proc'[p].pc \in {"wait", "next"} /\ proc'[p].task = proc[p].task
          /\ proc'[p].todo = proc[p].todo /\ \A x \in Procs : x # p => proc'[x] = proc[x]
      BY <1>0, <1>5, <2>3 DEF Suspend, ProcState
    <3>2. Keeps(p)
      BY <2>1, <3>1 DEF Keeps, OnTask, WithTask
    <3>3. QED  BY <2>1, <3>1, <3>2, KeepsTabled DEF ProcMoves
  <2>4. QED  BY <2>2, <2>3
<1>6. CASE PutDrawer(p) \/ PutDrawerFails(p)
  <2>1. Req(p).op = "suspend" /\ Done(p)
    BY <1>6 DEF PutDrawer, PutDrawerFails
  <2>2. QED  BY <1>1, <2>1 DEF LoadRequest
<1>7. CASE StatementFails(p)
  BY <1>1, <1>7 DEF StatementFails
<1>8. ASSUME NEW t \in Tasks, SuspendTask(p, t) PROVE ProcMoves(p)
  <2>1. t \in proc[p].todo /\ Req(p) # LoadRequest
    BY <1>8 DEF SuspendTask, NextTask, LoadRequest
  <2>2. /\ proc'[p].pc \in {"next", "schedule"} /\ proc'[p].task = t /\ proc'[p].todo = proc[p].todo \ {t}
        /\ \A x \in Procs : x # p => proc'[x] = proc[x]
    BY <1>0, <1>8 DEF SuspendTask, To, ProcState
  <2>3. QED  BY <2>1, <2>2, ToTabled DEF ProcMoves
<1>9. QED  BY <1>2, <1>3, <1>4, <1>5, <1>6, <1>7, <1>8 DEF ProcStep

(* The other steps change no process but that of LoadTasks and, for a      *)
(* suspend task, that of the run.                                          *)
LEMMA OtherProcs ==
  ASSUME Types_, Next
  PROVE  \/ \E c \in Callers : CallStep(c) /\ CallMoves(c)
         \/ \E p \in Procs : ProcStep(p) /\ ProcMoves(p)
         \/ UNCHANGED proc
         \/ \E r \in RunIds : EnterRunner(r) /\ proc' = [proc EXCEPT ![r] = [IdleProc EXCEPT !.pc = "list", !.req = SuspendProperties]]
         \/ Start \/ Loaded \/ Lost
         \/ \E t \in Tasks : LoadTask(t)
<1>1. ASSUME NEW r \in RunIds, RunStep(r)
      PROVE  \/ UNCHANGED proc
             \/ EnterRunner(r) /\ proc' = [proc EXCEPT ![r] = [IdleProc EXCEPT !.pc = "list", !.req = SuspendProperties]]
  BY <1>1 DEF RunStep, WindowEnds, Reschedule, RunBegin, PutRun, UpdateTask, PutFails, EnterRunner, DecorateFails,
      ReturnRunner, FinalStatus, LeaveRuns, PutFinalRun, UpdateFinalTask, PutFinalFails, LeaveRunsAgain
<1>2. CASE Close \/ \E g \in Schedulers, t \in Tasks : Activate(g, t)
  BY <1>2 DEF Close, Activate
<1>3. CASE Exit \/ Crash
  BY <1>3 DEF Exit, Crash
<1>4. QED  BY <1>1, <1>2, <1>3, CallMovesStep, ProcMovesStep DEF Next

LEMMA TabledProcStep ==
  ASSUME Types_, Next, \A p \in Procs : TabledProc(proc[p]) PROVE \A p \in Procs : TabledProc(proc[p])'
<1> USE DEF Types_
<1>0. proc \in [Procs -> ProcState] /\ Main \in Procs
  BY DEF ProcType, Procs
<1>1. ASSUME NEW p \in Procs, proc'[p] = proc[p] PROVE TabledProc(proc[p])'
  <2>1. proc[p].todo \subseteq Tasks /\ (proc[p].pc \in OnTask => proc[p].task \in Tasks)
    BY ProcRecord DEF ProcOk, OnTask
  <2>2. QED  BY <1>1, <2>1, RowsGrow DEF TabledProc
<1>2. ASSUME NEW c \in Callers, CallMoves(c) PROVE \A p \in Procs : TabledProc(proc[p])'
  BY <1>1, <1>2 DEF CallMoves, Procs
<1>3. ASSUME NEW q \in Procs, ProcMoves(q) PROVE \A p \in Procs : TabledProc(proc[p])'
  BY <1>1, <1>3 DEF ProcMoves
<1>4. CASE UNCHANGED proc
  BY <1>1, <1>4
<1>5. ASSUME NEW r \in RunIds, proc' = [proc EXCEPT ![r] = [IdleProc EXCEPT !.pc = "list", !.req = SuspendProperties]]
      PROVE \A p \in Procs : TabledProc(proc[p])'
  <2>1. r \in Procs
    BY DEF Procs
  <2>2. proc'[r].pc = "list" /\ proc'[r].todo = {} /\ \A x \in Procs : x # r => proc'[x] = proc[x]
    BY <1>0, <1>5, <2>1 DEF IdleProc
  <2>3. TabledProc(proc[r])'
    BY <2>2 DEF TabledProc, OnTask, WithTask
  <2>4. QED  BY <1>1, <2>2, <2>3
<1>6. CASE Start
  <2>1. proc'[Main].pc = "next" /\ proc'[Main].todo = Tabled /\ UNCHANGED rows /\ \A x \in Procs : x # Main => proc'[x] = proc[x]
    BY <1>0, <1>6 DEF Start, IdleProc, tables
  <2>2. TabledProc(proc[Main])'
    BY <2>1 DEF TabledProc, OnTask, WithTask, Tabled
  <2>3. QED  BY <1>1, <2>1, <2>2
<1>7. CASE Loaded
  <2>1. proc'[Main].pc = "idle" /\ proc'[Main].todo = {} /\ \A x \in Procs : x # Main => proc'[x] = proc[x]
    BY <1>0, <1>7 DEF Loaded, IdleProc
  <2>2. TabledProc(proc[Main])'
    BY <2>1 DEF TabledProc, OnTask, WithTask
  <2>3. QED  BY <1>1, <2>1, <2>2
<1>8. CASE Lost
  BY <1>8 DEF Lost, IdleProc, TabledProc, OnTask, WithTask
<1>9. ASSUME NEW t \in Tasks, LoadTask(t) PROVE \A p \in Procs : TabledProc(proc[p])'
  <2>1. t \in proc[Main].todo /\ proc'[Main].task = t /\ proc'[Main].todo = proc[Main].todo \ {t}
        /\ \A x \in Procs : x # Main => proc'[x] = proc[x]
    BY <1>0, <1>9 DEF LoadTask, NextTask, To, ProcState
  <2>2. TabledProc(proc[Main])'
    BY <1>0, <2>1, ToTabled
  <2>3. QED  BY <1>1, <2>1, <2>2
<1>10. QED  BY <1>2, <1>3, <1>4, <1>5, <1>6, <1>7, <1>8, <1>9, OtherProcs

(* A StopTask that is about to put STOPPING has just found the run. *)
LEMMA StoppingStep ==
  ASSUME Types_, Next, NEW c \in Callers, Stopping(c)'
  PROVE  \/ Stopping(c) /\ proc'[c] = proc[c] /\ ~PutStopping(c)
         \/ /\ StopLookup(c) /\ UNCHANGED <<runRows, run>>
            /\ proc[c].task \in Tasks /\ runs[proc[c].task] # NoRun
            /\ proc'[c].run = runs[proc[c].task] /\ proc'[c].task = proc[c].task
            /\ \A x \in Procs : x # c => proc'[x] = proc[x]
<1> USE DEF Types_
<1>0. proc \in [Procs -> ProcState] /\ c \in Procs /\ c # Main /\ c \notin RunIds
  BY TaskServiceAssumption DEF ProcType, Procs
<1>1. ASSUME proc'[c] = proc[c] PROVE Stopping(c) /\ ~PutStopping(c)
  BY <1>0, <1>1 DEF Stopping, PutStopping, Goto, ProcState
<1>2. ASSUME StopLookup(c), ~Done(c)
      PROVE  /\ StopLookup(c) /\ UNCHANGED <<runRows, run>>
             /\ proc[c].task \in Tasks /\ runs[proc[c].task] # NoRun
             /\ proc'[c].run = runs[proc[c].task] /\ proc'[c].task = proc[c].task
             /\ \A x \in Procs : x # c => proc'[x] = proc[x]
  <2>1. proc[c].task \in Tasks
    BY <1>0, <1>2, ProcRecord DEF ProcOk, WithTask, StopLookup
  <2>2. QED  BY <1>0, <1>2, <2>1 DEF StopLookup, ProcState, tables
<1>3. CASE Start \/ Loaded
  BY <1>0, <1>1, <1>3 DEF Start, Loaded
<1>4. CASE Lost
  BY <1>0, <1>4 DEF Lost, Stopping, IdleProc
<1>5. CASE \E t \in Tasks : LoadTask(t)
  BY <1>0, <1>1, <1>5 DEF LoadTask, To
<1>6. CASE \E r \in RunIds : EnterRunner(r) /\ proc' = [proc EXCEPT ![r] = [IdleProc EXCEPT !.pc = "list", !.req = SuspendProperties]]
  BY <1>0, <1>1, <1>6
<1>7. ASSUME NEW d \in Callers, CallMoves(d) PROVE (StopLookup(c) /\ ~Done(c)) \/ proc'[c] = proc[c]
  BY <1>0, <1>7 DEF CallMoves, Stopping
<1>8. ASSUME NEW p \in Procs, ProcMoves(p) PROVE proc'[c] = proc[c]
  BY <1>0, <1>8 DEF ProcMoves, Stopping
<1>9. QED  BY <1>1, <1>2, <1>3, <1>4, <1>5, <1>6, <1>7, <1>8, OtherProcs

(* LoadTasks is started by Start and ended by Loaded or the end of the     *)
(* process, and goes on by itself.                                         *)
LEMMA MainStep ==
  ASSUME Types_, MainInv, DownIsEmpty, Next
  PROVE  \/ proc'[Main] = proc[Main] /\ state' = state
         \/ /\ state' = state /\ state = "loading"
            /\ proc'[Main].pc \in {"next", "apply"} /\ proc'[Main].req = LoadRequest /\ proc'[Main].todo = proc[Main].todo
         \/ Start
         \/ Loaded /\ state = "loading"
         \/ Lost
         \/ state' = state /\ state = "loading" /\ \E t \in Tasks : LoadTask(t)
<1> USE DEF Types_
<1>0. proc \in [Procs -> ProcState] /\ Main \in Procs /\ Main \notin RunIds /\ Main \notin Callers
      /\ state \in {"down", "loading", "up"}
  BY TaskServiceAssumption DEF ProcType, Procs, ServiceType
<1>1. CASE Start \/ Lost
  BY <1>1
<1>2. CASE Loaded
  BY <1>0, <1>2 DEF Loaded, MainInv
<1>3. ASSUME ~Start, ~Loaded, ~Lost PROVE state' = state
  BY <1>3, StateStep
<1>4. ASSUME NEW t \in Tasks, LoadTask(t) PROVE state' = state /\ state = "loading"
  BY <1>4 DEF LoadTask, NextTask, MainInv, bounds
<1>5. ASSUME NEW c \in Callers, CallMoves(c) PROVE proc'[Main] = proc[Main]
  BY <1>0, <1>5 DEF CallMoves
<1>6. ASSUME NEW p \in Procs, ProcStep(p), ProcMoves(p)
      PROVE  \/ proc'[Main] = proc[Main]
             \/ /\ state = "loading"
                /\ proc'[Main].pc \in {"next", "apply"} /\ proc'[Main].req = LoadRequest /\ proc'[Main].todo = proc[Main].todo
  <2>1. CASE p # Main
    BY <1>0, <1>6, <2>1 DEF ProcMoves
  <2>2. CASE p = Main
    <3>1. proc[Main].pc # "idle"
      BY <1>6, <2>2 DEF ProcStep, ScheduleLookup, ScheduleApply, ListTasks, Suspend, PutDrawer, PutDrawerFails, StatementFails,
        SuspendTask, NextTask
    <3>2. QED  BY <1>6, <2>2, <3>1 DEF ProcMoves, MainInv
  <2>3. QED  BY <2>1, <2>2
<1>7. ASSUME NEW r \in RunIds, proc' = [proc EXCEPT ![r] = [IdleProc EXCEPT !.pc = "list", !.req = SuspendProperties]]
      PROVE proc'[Main] = proc[Main]
  BY <1>0, <1>7
<1>8. QED  BY <1>1, <1>2, <1>3, <1>4, <1>5, <1>6, <1>7, OtherProcs

LEMMA MainInvStep ==
  ASSUME Types_, MainInv, DownIsEmpty, Next PROVE MainInv'
<1>0. proc \in [Procs -> ProcState] /\ Main \in Procs
  BY DEF Types_, ProcType, Procs
<1>1. CASE Start
  BY <1>0, <1>1 DEF Start, MainInv, Req, IdleProc, LoadRequest
<1>2. CASE Loaded
  BY <1>0, <1>2 DEF Loaded, MainInv, IdleProc
<1>3. CASE Lost
  BY <1>0, <1>3, TaskServiceAssumption DEF Lost, MainInv, IdleProc
<1>4. ASSUME NEW t \in Tasks, LoadTask(t), state = "loading", state' = state PROVE MainInv'
  BY <1>0, <1>4 DEF LoadTask, To, MainInv, Req, ProcState
<1>5. CASE proc'[Main] = proc[Main] /\ state' = state
  BY <1>5 DEF MainInv, Req
<1>6. CASE /\ state' = state /\ state = "loading"
           /\ proc'[Main].pc \in {"next", "apply"} /\ proc'[Main].req = LoadRequest
  BY <1>6 DEF MainInv, Req
<1>7. QED  BY <1>1, <1>2, <1>3, <1>4, <1>5, <1>6, MainStep

LEMMA NewQueued ==
  ASSUME Types_, SchedEffect, NEW g \in Schedulers, NEW t \in Tasks, t \in sched'[g].queue
  PROVE  \/ t \in sched[g].queue \/ sched[g].details[t] # "none"
         \/ \E p \in Procs : proc[p].pc \in {"apply", "once"} /\ proc[p].l = g /\ proc[p].task = t
<1>1. CASE Fewer(sched, sched')
  BY <1>1 DEF Fewer
<1>2. CASE \E r \in RunIds : /\ run[r].pc = "ended"
                             /\ OnlyKey(sched, sched', run[r].sched, run[r].task)
                             /\ sched[run[r].sched].details[run[r].task] # "none"
  BY <1>2 DEF OnlyKey
<1>3. CASE \E p \in Procs : proc[p].pc \in {"apply", "once"} /\ OnlyKey(sched, sched', proc[p].l, proc[p].task)
  BY <1>3 DEF OnlyKey
<1>4. QED  BY <1>1, <1>2, <1>3 DEF SchedEffect

LEMMA TabledStep ==
  ASSUME Types_, TabledOnly, Next PROVE TabledOnly'
<1> USE DEF Types_
<1>0. /\ \A r \in RunIds : Live(r) => run[r].task \in Tasks /\ rows[run[r].task].exists
      /\ \A p \in Procs : TabledProc(proc[p])
      /\ runRows \in [RunIds -> RunRow \cup {NoRow}]
  BY RunRecord DEF TabledOnly, TabledProc, OnTask, Live, TableType
<1>1. ASSUME NEW r \in RunIds, runRows'[r] # NoRow PROVE rows'[runRows'[r].task].exists
  <2>1. CASE runRows'[r] = runRows[r]
    BY <1>1, <2>1, RowIs, RowsGrow DEF TabledOnly
  <2>2. CASE UNCHANGED runRows
    BY <2>1, <2>2
  <2>3. ASSUME NEW x \in RunIds, PutRun(x) \/ PutFinalRun(x), NEW s, Puts1(x, run[x].task, s) PROVE rows'[runRows'[r].task].exists
    <3>1. Live(x)
      BY <2>3 DEF PutRun, PutFinalRun, Live
    <3>2. rows'[run[x].task].exists
      BY <1>0, <3>1, RowsGrow
    <3>3. runRows'[r] = runRows[r] \/ runRows'[r].task = run[x].task
      BY <1>0, <2>3 DEF Puts1
    <3>4. QED  BY <2>1, <3>2, <3>3
  <2>4. ASSUME NEW c \in Callers, PutStopping(c), Puts1(proc[c].run, proc[c].task, "STOPPING") PROVE rows'[runRows'[r].task].exists
    <3>1. c \in Procs /\ proc[c].pc \in OnTask /\ proc[c].task \in Tasks
      BY <2>4, ProcRecord DEF PutStopping, Procs, ProcOk, OnTask, WithTask
    <3>2. rows'[proc[c].task].exists
      BY <1>0, <3>1, RowsGrow DEF TabledProc
    <3>3. runRows'[r] = runRows[r] \/ runRows'[r].task = proc[c].task
      BY <1>0, <2>4 DEF Puts1
    <3>4. QED  BY <2>1, <3>2, <3>3
  <2>5. ASSUME NEW t \in Tasks, RowsOf(t) # {}, runRows' = [runRows EXCEPT ![LastRun(t)].status = "ABORTED"]
        PROVE  rows'[runRows'[r].task].exists
    <3>1. LastRun(t) \in RunIds /\ runRows[LastRun(t)].task = t
      BY <2>5, LastIsLast DEF LastIs, RowsOf
    <3>2. runRows[LastRun(t)] # NoRow
      BY <3>1, RowIs, TaskServiceAssumption
    <3>3. rows'[t].exists
      BY <3>1, <3>2, RowsGrow DEF TabledOnly
    <3>4. runRows[LastRun(t)] \in RunRow
      BY <1>0, <3>1, <3>2
    <3>5. runRows'[r] = runRows[r] \/ runRows'[r].task = t
      BY <1>0, <2>5, <3>1, <3>4 DEF RunRow
    <3>6. QED  BY <2>1, <3>3, <3>5
  <2>6. QED  BY <2>2, <2>3, <2>4, <2>5, RowsStep DEF RowsKind
<1>2. ASSUME NEW g \in Schedulers, NEW t \in Tasks, t \in sched'[g].queue \/ sched'[g].details[t] # "none" PROVE rows'[t].exists
  <2>1. CASE t \in sched[g].queue \/ sched[g].details[t] # "none"
    BY <2>1, RowsGrow DEF TabledOnly
  <2>2. ASSUME NEW p \in Procs, proc[p].pc \in {"apply", "once"}, proc[p].task = t PROVE rows'[t].exists
    BY <1>0, <2>2, RowsGrow DEF TabledProc, OnTask, WithTask
  <2>3. QED  BY <1>2, <2>1, <2>2, SchedStep, NewKeys, NewQueued
<1>3. ASSUME NEW r \in RunIds, Live(r)' PROVE rows'[run'[r].task].exists
  <2>1. CASE Live(r) /\ run'[r].task = run[r].task
    BY <1>0, <2>1, RowsGrow
  <2>2. ASSUME NEW g \in Schedulers, run'[r].task \in sched[g].queue \/ sched[g].details[run'[r].task] # "none"
        PROVE  rows'[run'[r].task].exists
    <3>1. run'[r].task \in Tasks
      <4>1. RunType'
        BY RunTypeStep
      <4>2. QED  BY <1>3, <4>1 DEF RunType
    <3>2. QED  BY <2>2, <3>1, RowsGrow DEF TabledOnly
  <2>3. QED  BY <1>3, <2>1, <2>2, RunsStep
<1>4. \A p \in Procs : TabledProc(proc[p])'
  BY <1>0, TabledProcStep
<1>5. QED  BY <1>1, <1>2, <1>3, <1>4 DEF TabledOnly, TabledProc, OnTask

LEMMA DecidedStep == ASSUME Types_, Decided, Next PROVE Decided'
<1> USE DEF Types_
<1>1. CASE NotARun
  <2>1. CASE SameRuns
    BY <2>1 DEF SameRuns, Decided
  <2>2. CASE \E g \in Schedulers, t \in Tasks : Registers(g, t)
    BY <2>2, RegistersIs DEF Decided
  <2>3. CASE Lost
    BY <2>3 DEF Lost, Decided, FreeRun
  <2>4. QED  BY <1>1, <2>1, <2>2, <2>3 DEF NotARun
<1>2. ASSUME NEW r \in RunIds, RunStep(r) PROVE Decided'
  <2>0. run \in [RunIds -> RunState] /\ run[r] \in RunState /\ \A x \in RunIds : x # r => run'[x] = run[x]
    BY <1>2, RunMoves DEF RunType
  <2>1. SUFFICES run'[r].pc \in {"decided", "left", "final"} => run'[r].status \in Final
    BY <2>0 DEF Decided
  <2>2. CASE FinalStatus(r)
    <3>1. statusAndCauseFromCtxAndErr(r) \in Final
      BY <2>0 DEF statusAndCauseFromCtxAndErr, RunState, Causes, Final
    <3>2. QED  BY <2>0, <2>2, <3>1 DEF FinalStatus, RunState, Final
  <2>3. CASE LeaveRuns(r) \/ PutFinalRun(r)
    BY <2>0, <2>3 DEF LeaveRuns, PutFinalRun, Step, RunState, Decided
  <2>4. CASE WindowEnds(r) \/ RunBegin(r) \/ PutRun(r) \/ UpdateTask(r) \/ LeaveRunsAgain(r) \/ EnterRunner(r)
    <3>1. CASE WindowEnds(r)
      BY <2>0, <3>1, WindowEndsIs DEF RunState, Decided
    <3>2. CASE RunBegin(r) \/ PutRun(r) \/ UpdateTask(r) \/ LeaveRunsAgain(r) \/ EnterRunner(r)
      BY <2>0, <3>2 DEF RunBegin, PutRun, UpdateTask, LeaveRunsAgain, EnterRunner, Step, RunState
    <3>3. QED  BY <2>4, <3>1, <3>2
  <2>5. CASE PutFails(r) \/ DecorateFails(r) \/ ReturnRunner(r)
    BY <2>0, <2>5 DEF PutFails, DecorateFails, ReturnRunner, RunState
  <2>6. CASE UpdateFinalTask(r) \/ PutFinalFails(r) \/ Reschedule(r)
    BY <2>0, <2>6 DEF UpdateFinalTask, PutFinalFails, Reschedule, StepOut, FreeRun
  <2>7. QED  BY <1>2, <2>2, <2>3, <2>4, <2>5, <2>6 DEF RunStep
<1>3. QED  BY <1>1, <1>2, StepKinds

(* A row that changes is that of a run that begun, stays that of its task, *)
(* and says RUNNING only for a run that starts.                            *)
Rewritten(r) ==
  /\ run[r].pc # "free" /\ runRows'[r] # NoRow
  /\ runRows[r] # NoRow => runRows'[r].task = runRows[r].task
  /\ Live(r) => runRows'[r].task = run[r].task
  /\ \A c \in Callers : Stopping(c) /\ proc[c].run = r => runRows'[r].task = proc[c].task
  /\ runRows'[r].status = "RUNNING" => PutRun(r)

LEMMA RowChange ==
  ASSUME Types_, RowsOfRuns, Decided, Next, NEW r \in RunIds, runRows'[r] # runRows[r] PROVE Rewritten(r)
<1> USE DEF Types_
<1>0. runRows \in [RunIds -> RunRow \cup {NoRow}]
  BY DEF TableType
<1>1. \A v : v.task \in Tasks => v # NoRow
  BY TaskServiceAssumption DEF NoRow
<1>2. ASSUME NEW x \in RunIds, PutRun(x) \/ PutFinalRun(x), NEW s, Puts1(x, run[x].task, s), s = "RUNNING" => PutRun(x)
      PROVE  Rewritten(r)
  <2>1. x = r
    BY <1>0, <1>2 DEF Puts1
  <2>2. Live(r)
    BY <1>2, <2>1 DEF PutRun, PutFinalRun, Live
  <2>3. runRows'[r].task = run[r].task /\ runRows'[r].status = s
    BY <1>0, <1>2, <2>1 DEF Puts1
  <2>4. runRows'[r].task \in Tasks
    BY <2>2, <2>3, RunRecord DEF Live
  <2>5. QED  BY <1>1, <1>2, <2>1, <2>2, <2>3, <2>4 DEF Rewritten, RowsOfRuns, Live
<1>3. ASSUME NEW x \in RunIds, PutFinalRun(x) PROVE run[x].status # "RUNNING"
  BY <1>3 DEF PutFinalRun, Decided, Final
<1>4. ASSUME NEW c \in Callers, PutStopping(c), Puts1(proc[c].run, proc[c].task, "STOPPING") PROVE Rewritten(r)
  <2>1. Stopping(c) /\ c \in Procs /\ proc[c].run \in RunIds /\ proc[c].task \in Tasks
    BY <1>4, ProcRecord DEF PutStopping, Stopping, Procs, ProcOk, WithTask
  <2>2. r = proc[c].run /\ runRows'[r].task = proc[c].task /\ runRows'[r].status = "STOPPING"
    BY <1>0, <1>4, <2>1 DEF Puts1
  <2>3. QED  BY <1>1, <2>1, <2>2 DEF Rewritten, RowsOfRuns
<1>5. ASSUME NEW t \in Tasks, RowsOf(t) # {}, runRows' = [runRows EXCEPT ![LastRun(t)].status = "ABORTED"] PROVE Rewritten(r)
  <2>1. LastRun(t) \in RunIds /\ runRows[LastRun(t)].task = t
    BY <1>5, LastIsLast DEF LastIs, RowsOf
  <2>2. r = LastRun(t)
    BY <1>0, <1>5
  <2>3. runRows[r] \in RunRow
    BY <1>0, <2>1, <2>2, RowIs, TaskServiceAssumption
  <2>4. runRows'[r].task = t /\ runRows'[r].status = "ABORTED"
    BY <1>0, <1>5, <2>1, <2>2, <2>3 DEF RunRow
  <2>5. runRows[r] # NoRow /\ runRows'[r] # NoRow
    BY <1>1, <2>1, <2>2, <2>4
  <2>6. QED  BY <2>1, <2>2, <2>4, <2>5 DEF Rewritten, RowsOfRuns
<1>6. QED  BY <1>2, <1>3, <1>4, <1>5, RowsStep DEF RowsKind

LEMMA RowsOfRunsStep ==
  ASSUME Types_, RowsOfRuns, Decided, ListedRunIsOn, Next PROVE RowsOfRuns'
<1> USE DEF Types_
<1>1. ASSUME NEW r \in RunIds, run'[r].pc = "free" PROVE runRows'[r] = NoRow
  BY <1>1, RunsStep, RowChange DEF RowsOfRuns, Rewritten
<1>2. ASSUME NEW r \in RunIds, Live(r)', runRows'[r] # NoRow PROVE runRows'[r].task = run'[r].task
  <2>1. CASE Live(r) /\ run'[r].task = run[r].task
    BY <1>2, <2>1, RowChange DEF RowsOfRuns, Rewritten
  <2>2. CASE run[r].pc = "free"
    BY <1>2, <2>2, RowChange DEF RowsOfRuns, Rewritten
  <2>3. QED  BY <1>2, <2>1, <2>2, RunsStep
<1>3. ASSUME NEW c \in Callers, StopLookup(c), UNCHANGED <<runRows, run>>,
             proc[c].task \in Tasks, runs[proc[c].task] # NoRun
      PROVE  \E r \in RunIds :
             /\ r = runs[proc[c].task] /\ Live(r) /\ Live(r)' /\ run[r].task = proc[c].task /\ run'[r] = run[r]
             /\ runRows'[r] # NoRow => runRows'[r].task = proc[c].task
  <2>1. PICK r \in RunIds : r = runs[proc[c].task]
    BY <1>3 DEF ServiceType
  <2>2. run[r].task = proc[c].task /\ run[r].pc \in {"begun", "put", "updated", "runner", "ran", "decided", "out"}
    BY <1>3, <2>1 DEF ListedRunIsOn
  <2>3. QED  BY <1>3, <2>1, <2>2 DEF Live, RowsOfRuns
<1>4. ASSUME NEW c \in Callers, Stopping(c)'
      PROVE  /\ run'[proc'[c].run].pc # "free"
             /\ Live(proc[c].run)' => run'[proc'[c].run].task = proc'[c].task
             /\ runRows'[proc'[c].run] # NoRow => runRows'[proc'[c].run].task = proc'[c].task
  <2>1. CASE Stopping(c) /\ proc'[c] = proc[c]
    <3>1. PICK r \in RunIds : r = proc[c].run
      BY <2>1, ProcRecord DEF Stopping, ProcOk, Procs
    <3>2. run[r].pc # "free" /\ (Live(r) => run[r].task = proc[c].task) /\ (runRows[r] # NoRow => runRows[r].task = proc[c].task)
      BY <2>1, <3>1 DEF RowsOfRuns
    <3>3. run'[r].pc # "free" /\ (Live(r)' => Live(r) /\ run'[r].task = run[r].task)
      BY <3>1, <3>2, RunsStep
    <3>4. runRows'[r] = runRows[r] \/ runRows'[r].task = proc[c].task
      BY <2>1, <3>1, RowChange DEF Rewritten
    <3>5. run'[r].pc # "free" /\ (Live(r)' => run'[r].task = proc[c].task) /\ (runRows'[r] # NoRow => runRows'[r].task = proc[c].task)
      BY <3>2, <3>3, <3>4
    <3>6. proc'[c].run = r /\ proc'[c].task = proc[c].task
      BY <2>1, <3>1
    <3>7. QED  BY <3>5, <3>6 DEF Live
  <2>2. CASE /\ StopLookup(c) /\ UNCHANGED <<runRows, run>>
             /\ proc[c].task \in Tasks /\ runs[proc[c].task] # NoRun
             /\ proc'[c].run = runs[proc[c].task] /\ proc'[c].task = proc[c].task
    <3>1. PICK r \in RunIds :
             /\ r = runs[proc[c].task] /\ Live(r) /\ Live(r)' /\ run[r].task = proc[c].task /\ run'[r] = run[r]
             /\ runRows'[r] # NoRow => runRows'[r].task = proc[c].task
      BY <1>3, <2>2
    <3>2. proc'[c].run = r /\ proc'[c].task = proc[c].task
      BY <2>2, <3>1
    <3>3. QED  BY <3>1, <3>2 DEF Live
  <2>3. QED  BY <1>4, <2>1, <2>2, StoppingStep
<1>5. ASSUME NEW c \in Callers, NEW d \in Callers, Stopping(c)', Stopping(d)', proc'[c].run = proc'[d].run, c # d
      PROVE  proc'[c].task = proc'[d].task
  <2>0. c \in Procs /\ d \in Procs
    BY DEF Procs
  <2>1. ASSUME NEW x \in Callers, NEW y \in Callers, x # y, Stopping(y)', proc'[x].run = proc'[y].run,
               StopLookup(x), UNCHANGED <<runRows, run>>,
               proc[x].task \in Tasks, runs[proc[x].task] # NoRun,
               proc'[x].run = runs[proc[x].task], proc'[x].task = proc[x].task, proc'[y] = proc[y]
        PROVE  proc'[x].task = proc'[y].task
    <3>1. PICK r \in RunIds : r = runs[proc[x].task] /\ Live(r) /\ run[r].task = proc[x].task
      BY <1>3, <2>1
    <3>2. Stopping(y) /\ proc[y].run = r
      BY <2>1, <3>1 DEF Stopping
    <3>3. QED  BY <2>1, <3>1, <3>2 DEF RowsOfRuns
  <2>2. CASE Stopping(c) /\ proc'[c] = proc[c] /\ Stopping(d) /\ proc'[d] = proc[d]
    BY <1>5, <2>2 DEF RowsOfRuns
  <2>3. QED  BY <1>5, <2>0, <2>1, <2>2, StoppingStep
<1>6. QED  BY <1>1, <1>2, <1>4, <1>5 DEF RowsOfRuns

LEMMA FaultsStep ==
  ASSUME Types_, Next PROVE faults' = faults \/ faults' = faults + 1
<1>1. ASSUME NEW r \in RunIds, RunStep(r) PROVE faults' = faults \/ faults' = faults + 1
  BY <1>1 DEF RunStep, WindowEnds, Reschedule, RunBegin, PutRun, UpdateTask, PutFails, EnterRunner, DecorateFails,
      ReturnRunner, FinalStatus, LeaveRuns, PutFinalRun, UpdateFinalTask, PutFinalFails, LeaveRunsAgain, bounds, Fault
<1>2. ASSUME NEW c \in Callers, CallStep(c) PROVE faults' = faults \/ faults' = faults + 1
  BY <1>2 DEF CallStep, Call, shouldPutTask, InsertTask, StartLookup, Trigger, ScheduleOnce, StopLookup, PutStopping,
        UpdateStopping, PutStoppingFails, DropMutex, Stop, DeleteRow, RemoveTask, Unschedule, Resume,
        ResumeDrawerStays, ResumeDone, ResumeTask, WaitRuns, Return, bounds, Fault
<1>3. ASSUME NEW p \in Procs, ProcStep(p) PROVE faults' = faults \/ faults' = faults + 1
  BY <1>3 DEF ProcStep, ScheduleLookup, ScheduleApply, ListTasks, Suspend, PutDrawer, PutDrawerFails, StatementFails,
      SuspendTask, bounds, Fault
<1>4. CASE Close \/ Start \/ Loaded \/ Exit \/ Crash
  BY <1>4 DEF Close, Start, Loaded, Exit, Crash
<1>5. CASE (\E g \in Schedulers, t \in Tasks : Activate(g, t)) \/ \E t \in Tasks : LoadTask(t)
  BY <1>5 DEF Activate, LoadTask, bounds
<1>6. QED  BY <1>1, <1>2, <1>3, <1>4, <1>5 DEF Next

RunningPcs == {"put", "updated", "runner", "ran", "decided", "left", "done"}

(* Without a failing statement a run that put RUNNING goes on to its final status. *)
LEMMA RunningGoesOn ==
  ASSUME Types_, Next, faults = 0, faults' = 0, NEW r \in RunIds, run[r].pc \in RunningPcs, ~PutFinalRun(r)
  PROVE  run'[r].pc \in RunningPcs
<1> USE DEF Types_
<1>1. CASE NotARun
  <2>1. CASE SameRuns
    BY <2>1 DEF SameRuns
  <2>2. CASE \E g \in Schedulers, t \in Tasks : Registers(g, t)
    BY <2>2, RegistersIs DEF RunningPcs
  <2>3. CASE Lost
    BY <2>3 DEF Lost, FreeRun, RunningPcs
  <2>4. QED  BY <1>1, <2>1, <2>2, <2>3 DEF NotARun
<1>2. ASSUME NEW x \in RunIds, RunStep(x), x # r PROVE run'[r].pc \in RunningPcs
  BY <1>2, RunMoves
<1>3. CASE RunStep(r)
  <2>0. run \in [RunIds -> RunState] /\ run[r] \in RunState
    BY DEF RunType
  <2>1. CASE UpdateTask(r) \/ EnterRunner(r) \/ WindowEnds(r)
    BY <2>0, <2>1 DEF UpdateTask, EnterRunner, WindowEnds, Step, RunState, RunningPcs
  <2>2. CASE ReturnRunner(r) \/ FinalStatus(r) \/ LeaveRuns(r)
    BY <2>0, <2>2 DEF ReturnRunner, FinalStatus, LeaveRuns, RunState, RunningPcs
  <2>3. CASE PutFails(r) \/ DecorateFails(r) \/ PutFinalFails(r)
    BY <2>3 DEF PutFails, DecorateFails, PutFinalFails, Fault
  <2>4. CASE Reschedule(r) \/ RunBegin(r) \/ PutRun(r) \/ UpdateFinalTask(r) \/ LeaveRunsAgain(r)
    BY <2>4 DEF Reschedule, RunBegin, PutRun, UpdateFinalTask, LeaveRunsAgain, RunningPcs
  <2>5. QED  BY <1>3, <2>1, <2>2, <2>3, <2>4 DEF RunStep
<1>4. QED  BY <1>1, <1>2, <1>3, StepKinds

LEMMA FaultFree == ASSUME Types_, Next, faults' = 0 PROVE faults = 0
BY FaultsStep DEF Types_, ServiceType

LEMMA RunningStep ==
  ASSUME Types_, RowsOfRuns, Decided, RunningIsOn, Next PROVE RunningIsOn'
<1> USE DEF Types_
<1>1. SUFFICES ASSUME faults' = 0, NEW r \in RunIds, runRows'[r] # NoRow, runRows'[r].status = "RUNNING"
               PROVE  run'[r].pc \in RunningPcs
  BY DEF RunningIsOn, RunningPcs
<1>2. CASE PutRun(r)
  BY <1>2 DEF PutRun, Step, RunType, RunState, RunningPcs
<1>3. CASE ~PutRun(r)
  <2>1. runRows'[r] = runRows[r] /\ faults = 0
    BY <1>1, <1>3, RowChange, FaultFree DEF Rewritten
  <2>2. run[r].pc \in RunningPcs
    BY <1>1, <2>1 DEF RunningIsOn, RunningPcs
  <2>3. CASE PutFinalRun(r)
    <3>1. runRows'[r].status = run[r].status /\ run[r].status \in Final
      BY <2>3 DEF PutFinalRun, Row, TableType, Decided
    <3>2. QED  BY <1>1, <3>1 DEF Final
  <2>4. QED  BY <1>1, <2>1, <2>2, <2>3, RunningGoesOn
<1>4. QED  BY <1>2, <1>3

(* A task that is settled stays so: only a starting run puts RUNNING, and  *)
(* a run does not end before it put its final status.                      *)
LEMMA LastRunStep ==
  ASSUME Types_, RowsOfRuns, Decided, Next, NEW t \in Tasks, NEW l \in RunIds, RowsOf(t)' # {}, l = LastRun(t)',
         runRows'[l] = runRows[l]
  PROVE  RowsOf(t) # {} /\ l = LastRun(t)
<1> USE DEF Types_
<1>1. \E r \in RowsOf(t)' : \A x \in RowsOf(t)' : x <= r
  <2>1. RowsOf(t)' \in SUBSET (1..MaxRuns)
    BY DEF RowsOf, RunIds
  <2>2. QED  BY <2>1, GreatestExists, TaskServiceAssumption
<1>2. l \in RowsOf(t)' /\ \A x \in RowsOf(t)' : x <= l
  BY <1>1 DEF LastRun
<1>3. l \in RowsOf(t)
  BY <1>2 DEF RowsOf
<1>4. ASSUME NEW x \in RowsOf(t) PROVE x \in RowsOf(t)'
  <2>1. x \in RunIds /\ runRows[x].task = t /\ runRows[x] # NoRow
    BY RowIs, TaskServiceAssumption DEF RowsOf
  <2>2. runRows'[x].task = t
    BY <2>1, RowChange DEF Rewritten
  <2>3. QED  BY <2>1, <2>2 DEF RowsOf
<1>5. LastRun(t) \in RowsOf(t) /\ \A x \in RowsOf(t) : x <= LastRun(t)
  BY <1>3, LastIsLast DEF LastIs
<1>6. RowsOf(t) \subseteq Nat
  BY TaskServiceAssumption DEF RowsOf, RunIds
<1>7. QED  BY <1>2, <1>3, <1>4, <1>5, <1>6

LEMMA SettledStep ==
  ASSUME Types_, RowsOfRuns, Decided, RunningIsOn, Next, ~Lost, faults' = 0, NEW t \in Tasks,
         Settled(t) \/ LoadTask(t)
  PROVE  Settled(t)'
<1> USE DEF Types_
<1>1. SUFFICES ASSUME RowsOf(t)' # {}, NEW l \in RunIds, l = LastRun(t)', runRows'[l].status = "RUNNING" PROVE Live(l)'
  <2>1. ASSUME RowsOf(t)' # {} PROVE LastRun(t)' \in RunIds
    <3>1. RowsOf(t)' \in SUBSET (1..MaxRuns)
      BY DEF RowsOf, RunIds
    <3>2. \E r \in RowsOf(t)' : \A x \in RowsOf(t)' : x <= r
      BY <2>1, <3>1, GreatestExists, TaskServiceAssumption
    <3>3. QED  BY <3>2 DEF LastRun, RowsOf
  <2>2. QED  BY <2>1 DEF Settled, Live
<1>2. CASE PutRun(l)
  BY <1>2 DEF PutRun, Step, RunType, RunState, Live
<1>3. CASE ~PutRun(l)
  <2>1. runRows'[l] = runRows[l] /\ faults = 0
    BY <1>1, <1>3, RowChange, FaultFree DEF Rewritten
  <2>2. RowsOf(t) # {} /\ l = LastRun(t)
    BY <1>1, <2>1, LastRunStep
  <2>3. runRows[l].task = t
    BY <2>2, LastIsLast DEF LastIs, RowsOf
  <2>4. runRows[l] # NoRow /\ runRows[l] \in RunRow
    BY <2>3, TaskServiceAssumption DEF NoRow, TableType
  <2>5. ~LoadTask(t)
    <3>1. ASSUME LoadTask(t) PROVE FALSE
      <4>1. runRows' = [runRows EXCEPT ![l].status = "ABORTED"]
        BY <1>1, <2>1, <2>2, <3>1 DEF LoadTask
      <4>2. runRows'[l].status = "ABORTED"
        BY <2>4, <4>1 DEF TableType, RunRow
      <4>3. QED  BY <1>1, <4>2
    <3>2. QED  BY <3>1
  <2>6. Live(l)
    BY <1>1, <2>1, <2>2, <2>5 DEF Settled
  <2>7. run[l].pc \in RunningPcs
    BY <1>1, <2>1, <2>4 DEF RunningIsOn, RunningPcs
  <2>8. QED  BY <2>6, <2>7, RunsStep DEF RunningPcs
<1>4. QED  BY <1>2, <1>3

LEMMA LoadedStep ==
  ASSUME Types_, DownIsEmpty, RowsOfRuns, TabledOnly, Decided, RunningIsOn, MainInv, LoadedIsSettled, Next
  PROVE  LoadedIsSettled'
<1> USE DEF Types_
<1>0. SUFFICES ASSUME faults' = 0 PROVE LoadedIsSettled'
  BY DEF LoadedIsSettled
<1>1. faults = 0 /\ proc \in [Procs -> ProcState] /\ Main \in Procs
  BY <1>0, FaultFree DEF ProcType, Procs
<1>2. CASE Lost
  BY <1>2 DEF Lost, LoadedIsSettled
<1>3. CASE Start
  <2>1. state' = "loading" /\ UNCHANGED runRows /\ proc'[Main].todo = Tabled
    BY <1>1, <1>3 DEF Start, IdleProc, tables
  <2>2. ASSUME NEW t \in Tasks \ Tabled PROVE RowsOf(t)' = {}
    BY <2>1, <2>2, TaskServiceAssumption DEF RowsOf, TabledOnly, Tabled, NoRow
  <2>3. \A t \in Tasks \ Tabled : Settled(t)'
    BY <2>2 DEF Settled
  <2>4. QED  BY <2>1, <2>3 DEF LoadedIsSettled
<1>4. ASSUME ~Lost, ~Start PROVE LoadedIsSettled'
  <2>1. \A t \in Tasks : Settled(t) \/ LoadTask(t) => Settled(t)'
    BY <1>0, <1>4, SettledStep
  <2>2. CASE Loaded /\ state = "loading"
    <3>1. state' = "up" /\ proc[Main].todo = {}
      BY <2>2 DEF Loaded
    <3>2. QED  BY <1>1, <2>1, <2>2, <3>1 DEF LoadedIsSettled
  <2>3. ASSUME NEW t \in Tasks, LoadTask(t), state' = state, state = "loading" PROVE LoadedIsSettled'
    <3>1. proc'[Main].todo = proc[Main].todo \ {t}
      BY <1>1, <2>3 DEF LoadTask, To, ProcState
    <3>2. \A u \in Tasks \ proc'[Main].todo : Settled(u)'
      BY <1>1, <2>1, <2>3, <3>1 DEF LoadedIsSettled
    <3>3. QED  BY <2>3, <3>2 DEF LoadedIsSettled
  <2>4. CASE state' = state /\ proc'[Main].todo = proc[Main].todo
    BY <1>1, <2>1, <2>4 DEF LoadedIsSettled
  <2>5. QED  BY <1>4, <2>2, <2>3, <2>4, MainStep
<1>5. QED  BY <1>2, <1>3, <1>4

LEMMA SettledInit == Init => SettledInv
<1> SUFFICES ASSUME Init PROVE SettledInv
  OBVIOUS
<1>2. /\ state = "down" /\ Main \in Procs /\ Callers \subseteq Procs
      /\ \A p \in Procs : proc[p].pc = "idle" /\ proc[p].todo = {}
      /\ \A r \in RunIds : run[r].pc = "free" /\ runRows[r] = NoRow
      /\ \A g \in Schedulers : sched[g].queue = {} /\ \A t \in Tasks : sched[g].details[t] = "none"
  <2>1. state = "down" /\ Main \in Procs /\ Callers \subseteq Procs
    BY DEF Init, Procs
  <2>2. \A p \in Procs : proc[p].pc = "idle" /\ proc[p].todo = {}
    BY DEF Init, IdleProc
  <2>3. \A r \in RunIds : run[r].pc = "free" /\ runRows[r] = NoRow
    BY DEF Init, FreeRun
  <2>4. \A g \in Schedulers : sched[g] = NewScheduler
    BY DEF Init
  <2>5. NewScheduler.queue = {} /\ \A t \in Tasks : NewScheduler.details[t] = "none"
    BY DEF NewScheduler
  <2>6. QED  BY <2>1, <2>2, <2>3, <2>4, <2>5
<1>3. MainInv /\ Decided /\ RunningIsOn /\ LoadedIsSettled
  BY <1>2 DEF MainInv, Decided, RunningIsOn, LoadedIsSettled
<1>4. RowsOfRuns
  BY <1>2 DEF RowsOfRuns, Stopping
<1>5. TabledOnly
  BY <1>2 DEF TabledOnly, Live, WithTask
<1>6. QED  BY <1>3, <1>4, <1>5 DEF SettledInv

LEMMA SettledCorrect == Spec => []SettledInv
<1>1. Types_ /\ SuspendInv /\ ListedRunIsOn /\ SettledInv /\ [Next]_vars => SettledInv'
  <2>1. CASE UNCHANGED vars
    BY <2>1 DEF vars, tables, service, bounds, SettledInv, RowsOfRuns, TabledOnly, Decided, RunningIsOn, MainInv, LoadedIsSettled,
      Settled, RowsOf, LastRun, Live, Stopping, Req
  <2>2. ASSUME Types_, SuspendInv, ListedRunIsOn, SettledInv, Next PROVE SettledInv'
    BY <2>2, RowsOfRunsStep, TabledStep, DecidedStep, RunningStep, MainInvStep, LoadedStep DEF SettledInv, SuspendInv
  <2>3. QED  BY <2>1, <2>2
<1>2. QED  BY <1>1, SettledInit, TypesCorrect, SuspendCorrect, ListedRunIsOnCorrect, PTL DEF Spec

(* No run is left RUNNING for good by crashes and restarts, as long as no  *)
(* statement fails.                                                        *)
THEOREM LastRunIsSettledCorrect == Spec => []LastRunIsSettled
<1>1. SettledInv => LastRunIsSettled
  BY DEF SettledInv, LoadedIsSettled, LastRunIsSettled, Settled
<1>2. QED  BY <1>1, SettledCorrect, PTL

-----------------------------------------------------------------------------
(* The final status of a run.  The steps of a process that have nothing to *)
(* do with the mutex of a StopTask.                                        *)
Neutral(p) ==
  /\ UNCHANGED <<held, taskLWTMu>>
  /\ \A x \in Procs : x # p => proc'[x] = proc[x]
  /\ proc[p].pc \notin WithMutex /\ proc'[p].pc \notin WithMutex
  /\ proc[p].pc \in AfterPuts => proc'[p].pc \in AfterPuts
WithMutexStep(c) ==
  \/ StopLookup(c) /\ ~Done(c)
  \/ PutStopping(c) \/ UpdateStopping(c) \/ PutStoppingFails(c) \/ DropMutex(c)

LEMMA DoneIsNeutral ==
  ASSUME ProcType, NEW p \in Procs, Done(p), UNCHANGED <<held, taskLWTMu>>, proc[p].pc \notin WithMutex PROVE Neutral(p)
BY DoneMoves DEF Neutral, WithMutex, Puts, AfterPuts

LEMMA IsNeutral ==
  ASSUME NEW p \in Procs, UNCHANGED <<held, taskLWTMu>>, \A x \in Procs : x # p => proc'[x] = proc[x],
         proc[p].pc \notin WithMutex \cup AfterPuts, proc'[p].pc \notin WithMutex
  PROVE  Neutral(p)
BY DEF Neutral

LEMMA GotoIsNeutral ==
  ASSUME ProcType, NEW p \in Procs, NEW pc, Goto(p, pc), pc \notin WithMutex, UNCHANGED <<held, taskLWTMu>>,
         proc[p].pc \notin WithMutex \cup AfterPuts
  PROVE  Neutral(p)
BY GotoMoves, IsNeutral

LEMMA CallNeutral ==
  ASSUME Types_, NEW c \in Callers, CallStep(c) PROVE WithMutexStep(c) \/ Neutral(c)
<1> USE DEF Types_
<1>0. c \in Procs /\ proc \in [Procs -> ProcState] /\ proc[c] \in ProcState
  BY DEF Procs, ProcType
<1>1. ASSUME NEW q \in Requests, Call(c, q) PROVE Neutral(c)
  <2>1. /\ proc[c].pc = "idle" /\ proc'[c].pc = First(q) /\ UNCHANGED <<held, taskLWTMu>>
        /\ \A x \in Procs : x # c => proc'[x] = proc[x]
    BY <1>0, <1>1 DEF Call, IdleProc, service
  <2>2. QED  BY <1>0, <2>1, FirstIs, IsNeutral DEF WithMutex, Puts, AfterPuts
<1>2. CASE shouldPutTask(c) \/ InsertTask(c)
  BY <1>0, <1>2, DoneIsNeutral, GotoIsNeutral DEF shouldPutTask, InsertTask, WithMutex, Puts, AfterPuts, service
<1>3. CASE StartLookup(c)
  <2>1. proc[c].pc = "start" /\ UNCHANGED <<held, taskLWTMu>>
    BY <1>3 DEF StartLookup
  <2>2. CASE Done(c)
    BY <1>0, <2>1, <2>2, DoneIsNeutral DEF WithMutex, Puts
  <2>3. CASE ~Done(c)
    <3>1. proc'[c].pc = "trigger" /\ \A x \in Procs : x # c => proc'[x] = proc[x]
      BY <1>0, <1>3, <2>3 DEF StartLookup, ProcState
    <3>2. QED  BY <1>0, <2>1, <3>1, IsNeutral DEF WithMutex, Puts, AfterPuts
  <2>4. QED  BY <2>2, <2>3
<1>4. CASE Trigger(c)
  BY <1>0, <1>4, DoneIsNeutral, GotoIsNeutral DEF Trigger, WithMutex, Puts, AfterPuts, service
<1>5. CASE ScheduleOnce(c) \/ Stop(c) \/ Unschedule(c) \/ Return(c) \/ ResumeDone(c)
  BY <1>0, <1>5, DoneIsNeutral DEF ScheduleOnce, Stop, Unschedule, Return, ResumeDone, WithMutex, Puts, service
<1>6. CASE DeleteRow(c) \/ WaitRuns(c)
  BY <1>0, <1>6, GotoIsNeutral DEF DeleteRow, WaitRuns, WithMutex, Puts, AfterPuts, service
<1>7. CASE StopLookup(c) /\ Done(c)
  <2>1. proc[c].pc = "stop" /\ UNCHANGED <<held, taskLWTMu>>
    <3>1. ASSUME proc' = [proc EXCEPT ![c].pc = "stopping", ![c].l = scheduler, ![c].run = runs[proc[c].task]] PROVE FALSE
      <4>1. proc'[c].pc = "stopping"
        BY <1>0, <3>1 DEF ProcState
      <4>2. QED  BY <1>0, <1>7, <4>1, DoneMoves
    <3>2. QED  BY <1>7, <3>1 DEF StopLookup
  <2>2. QED  BY <1>0, <1>7, <2>1, DoneIsNeutral DEF WithMutex, Puts
<1>10. CASE RemoveTask(c)
  <2>1. /\ proc[c].pc = "remove" /\ proc'[c].pc \in {"return", "unschedule"} /\ UNCHANGED <<held, taskLWTMu>>
        /\ \A x \in Procs : x # c => proc'[x] = proc[x]
    BY <1>0, <1>10 DEF RemoveTask, ProcState
  <2>2. QED  BY <1>0, <2>1, IsNeutral DEF WithMutex, Puts, AfterPuts
<1>11. CASE Resume(c) \/ ResumeDrawerStays(c)
  <2>1. proc[c].pc = "resume" /\ UNCHANGED <<held, taskLWTMu>>
    BY <1>11 DEF Resume, ResumeDrawerStays
  <2>2. CASE Done(c)
    BY <1>0, <2>1, <2>2, DoneIsNeutral DEF WithMutex, Puts
  <2>3. CASE ~Done(c)
    <3>1. proc'[c].pc = "list" /\ \A x \in Procs : x # c => proc'[x] = proc[x]
      BY <1>0, <1>11, <2>3 DEF Resume, ResumeDrawerStays, ProcState
    <3>2. QED  BY <1>0, <2>1, <3>1, IsNeutral DEF WithMutex, Puts, AfterPuts
  <2>4. QED  BY <2>2, <2>3
<1>12. ASSUME NEW t \in Tasks, ResumeTask(c, t) PROVE Neutral(c)
  <2>1. proc[c].pc = "next" /\ UNCHANGED <<held, taskLWTMu>>
    BY <1>12 DEF ResumeTask, NextTask
  <2>2. proc'[c].pc \in {"next", "schedule"} /\ \A x \in Procs : x # c => proc'[x] = proc[x]
    <3>1. CASE To(c, t, "next", FALSE)
      BY <1>0, <3>1 DEF To, ProcState
    <3>2. CASE \E missed \in BOOLEAN : To(c, t, "schedule", shouldStartTaskOnResume(c, t, missed))
      BY <1>0, <3>2 DEF To, ProcState
    <3>3. QED  BY <1>12, <3>1, <3>2 DEF ResumeTask
  <2>3. QED  BY <1>0, <2>1, <2>2, IsNeutral DEF WithMutex, Puts, AfterPuts
<1>13. QED
  BY <1>1, <1>2, <1>3, <1>4, <1>5, <1>6, <1>7, <1>10, <1>11, <1>12 DEF CallStep, WithMutexStep

LEMMA ProcNeutral ==
  ASSUME Types_, NEW p \in Procs, ProcStep(p) PROVE Neutral(p)
<1> USE DEF Types_
<1>0. proc \in [Procs -> ProcState] /\ proc[p] \in ProcState
  BY DEF ProcType
<1>1. Returned(p) \notin WithMutex
  BY DEF Returned, WithMutex, Puts
<1>2. CASE ScheduleLookup(p)
  <2>1. /\ proc[p].pc = "schedule" /\ proc'[p].pc \in {"apply", Returned(p)} /\ UNCHANGED <<held, taskLWTMu>>
        /\ \A x \in Procs : x # p => proc'[x] = proc[x]
    BY <1>0, <1>2 DEF ScheduleLookup, Goto, ProcState
  <2>2. QED  BY <1>1, <2>1, IsNeutral DEF WithMutex, Puts, AfterPuts
<1>3. CASE ScheduleApply(p)
  BY <1>1, <1>3, GotoIsNeutral DEF ScheduleApply, WithMutex, Puts, AfterPuts, service
<1>4. CASE ListTasks(p)
  <2>1. /\ proc[p].pc = "list" /\ proc'[p].pc \in {"next", "suspend"} /\ UNCHANGED <<held, taskLWTMu>>
        /\ \A x \in Procs : x # p => proc'[x] = proc[x]
    BY <1>0, <1>4 DEF ListTasks, ProcState, service
  <2>2. QED  BY <2>1, IsNeutral DEF WithMutex, Puts, AfterPuts
<1>5. CASE Suspend(p)
  <2>1. proc[p].pc = "suspend" /\ UNCHANGED <<held, taskLWTMu>>
    BY <1>5 DEF Suspend
  <2>2. CASE Done(p)
    BY <2>1, <2>2, DoneIsNeutral DEF WithMutex, Puts
  <2>3. CASE ~Done(p)
    <3>1. proc'[p].pc \in {"wait", "next"} /\ \A x \in Procs : x # p => proc'[x] = proc[x]
      BY <1>0, <1>5, <2>3 DEF Suspend, ProcState
    <3>2. QED  BY <2>1, <3>1, IsNeutral DEF WithMutex, Puts, AfterPuts
  <2>4. QED  BY <2>2, <2>3
<1>6. CASE PutDrawer(p) \/ PutDrawerFails(p) \/ StatementFails(p)
  BY <1>6, DoneIsNeutral DEF PutDrawer, PutDrawerFails, StatementFails, WithMutex, Puts, service
<1>7. ASSUME NEW t \in Tasks, SuspendTask(p, t) PROVE Neutral(p)
  <2>1. proc[p].pc = "next" /\ UNCHANGED <<held, taskLWTMu>>
    BY <1>7 DEF SuspendTask, NextTask
  <2>2. proc'[p].pc \in {"next", "schedule"} /\ \A x \in Procs : x # p => proc'[x] = proc[x]
    BY <1>0, <1>7 DEF SuspendTask, To, ProcState
  <2>3. QED  BY <2>1, <2>2, IsNeutral DEF WithMutex, Puts, AfterPuts
<1>8. QED  BY <1>2, <1>3, <1>4, <1>5, <1>6, <1>7 DEF ProcStep

(* A run gets the mutex of its task when it leaves runs, and keeps it until it is over. *)
LEMMA MuStep ==
  ASSUME RunType, NEW r \in RunIds, RunStep(r)
  PROVE  /\ run'[r].mu \in {None, run[r].mu} \/ (LeaveRuns(r) /\ run'[r].mu = taskLWTMu[run[r].task])
         /\ run'[r].pc = "final" => (PutFinalRun(r) \/ run[r].pc = "final") /\ run'[r].mu = run[r].mu
         /\ UNCHANGED taskLWTMu
         /\ held' = held \/ PutFinalRun(r) \/ (run[r].pc = "final" /\ run'[r].pc = "out" /\ held' = held \ {run[r].mu})
<1>0. run \in [RunIds -> RunState] /\ run[r] \in RunState
  BY DEF RunType
<1>1. CASE WindowEnds(r) \/ RunBegin(r) \/ PutRun(r) \/ UpdateTask(r) \/ LeaveRunsAgain(r)
  BY <1>0, <1>1 DEF WindowEnds, RunBegin, PutRun, UpdateTask, LeaveRunsAgain, Step, RunState, service
<1>2. CASE EnterRunner(r) \/ ReturnRunner(r)
  BY <1>0, <1>2 DEF EnterRunner, ReturnRunner, Step, RunState, service
<1>3. CASE PutFails(r) \/ DecorateFails(r) \/ FinalStatus(r)
  BY <1>0, <1>3 DEF PutFails, DecorateFails, FinalStatus, RunState, service
<1>4. CASE LeaveRuns(r)
  BY <1>0, <1>4 DEF LeaveRuns, RunState
<1>5. CASE PutFinalRun(r)
  BY <1>0, <1>5 DEF PutFinalRun, Step, RunState, service
<1>6. CASE UpdateFinalTask(r) \/ PutFinalFails(r)
  <2>1. /\ StepOut(r) /\ UNCHANGED taskLWTMu
        /\ held' = held \/ (run[r].pc = "final" /\ held' = held \ {run[r].mu})
    BY <1>6 DEF UpdateFinalTask, PutFinalFails, service
  <2>2. run'[r].pc = "out" /\ run'[r].mu = None
    BY <1>0, <2>1 DEF StepOut, FreeRun
  <2>3. QED  BY <2>1, <2>2
<1>7. CASE Reschedule(r)
  BY <1>0, <1>7 DEF Reschedule, FreeRun, service
<1>8. QED  BY <1>1, <1>2, <1>3, <1>4, <1>5, <1>6, <1>7 DEF RunStep

LEMMA CallerIsProc == Callers \subseteq Procs /\ RunIds \cap Callers = {} /\ Main \notin Callers /\ None \notin Callers
BY TaskServiceAssumption DEF Procs

LEMMA MutexRunStep ==
  ASSUME Types_, MutexInv, NEW r \in RunIds, RunStep(r) PROVE MutexInv'
<1> USE DEF Types_
<1>0. \A x \in RunIds : x # r => run'[x] = run[x]
  BY RunMoves
<1>1. \A c \in Callers : proc'[c] = proc[c]
  BY CallerIsProc DEF RunStep, WindowEnds, Reschedule, RunBegin, PutRun, UpdateTask, PutFails, EnterRunner,
    DecorateFails, ReturnRunner, FinalStatus, LeaveRuns, PutFinalRun, UpdateFinalTask, PutFinalFails, LeaveRunsAgain, ProcType
<1>2. UNCHANGED taskLWTMu
  BY MuStep
<1>3. \A t \in Tasks : taskLWTMu[t] # None => taskLWTMu[t] \in Callers
  BY DEF ServiceType
<1>4. \A x \in RunIds : run[x].mu # None => run[x].mu \in Callers
  BY RunRecord
<1>5. ASSUME NEW c \in Callers, proc[c].pc \in Puts PROVE c \in held'
  <2>1. c \in held
    BY <1>5 DEF MutexInv
  <2>2. CASE PutFinalRun(r)
    BY <2>1, <2>2 DEF PutFinalRun
  <2>3. CASE run[r].pc = "final" /\ held' = held \ {run[r].mu}
    BY <1>5, <2>1, <2>3, CallerIsProc DEF MutexInv
  <2>4. QED  BY <2>1, <2>2, <2>3, MuStep
<1>6. ASSUME NEW x \in RunIds, run'[x].mu # None PROVE run'[x].mu \in Callers /\ proc[run'[x].mu].pc \in Puts \cup AfterPuts
  <2>1. CASE run'[x].mu = run[x].mu
    BY <1>4, <1>6, <2>1 DEF MutexInv
  <2>2. CASE x = r /\ LeaveRuns(r) /\ run'[x].mu = taskLWTMu[run[r].task]
    <3>1. run[r].task \in Tasks
      BY <2>2, RunRecord DEF LeaveRuns
    <3>2. QED  BY <1>3, <1>6, <2>2, <3>1 DEF MutexInv, WithMutex, AfterPuts
  <2>3. QED  BY <1>0, <1>6, <2>1, <2>2, MuStep
<1>7. ASSUME NEW x \in RunIds, run'[x].pc = "final", run'[x].mu # None PROVE proc[run'[x].mu].pc \notin Puts
  <2>1. CASE run'[x].mu = run[x].mu /\ run[x].pc = "final"
    BY <1>7, <2>1 DEF MutexInv
  <2>2. CASE x = r /\ PutFinalRun(r) /\ run'[r].mu = run[r].mu
    BY <1>4, <1>7, <2>2 DEF MutexInv, PutFinalRun
  <2>3. QED  BY <1>0, <1>7, <2>1, <2>2, MuStep
<1>8. \A c \in Callers : proc'[c].pc \in Puts => c \in held'
  BY <1>1, <1>5
<1>9. \A c \in Callers : proc'[c].pc \in WithMutex => taskLWTMu'[proc'[c].task] = c
  BY <1>1, <1>2 DEF MutexInv
<1>10. \A t \in Tasks : taskLWTMu'[t] # None => proc'[taskLWTMu'[t]].pc \in WithMutex /\ proc'[taskLWTMu'[t]].task = t
  BY <1>1, <1>2, <1>3 DEF MutexInv
<1>11. \A x \in RunIds : run'[x].mu # None => proc'[run'[x].mu].pc \in Puts \cup AfterPuts
  BY <1>1, <1>6
<1>12. \A x \in RunIds : run'[x].pc = "final" /\ run'[x].mu # None => proc'[run'[x].mu].pc \notin Puts
  BY <1>1, <1>6, <1>7
<1>13. QED  BY <1>8, <1>9, <1>10, <1>11, <1>12 DEF MutexInv

(* Other steps than those of runs take no mutex and put no final status. *)
RunsKeep ==
  \A x \in RunIds : /\ run'[x].mu # None => run'[x].mu = run[x].mu
                    /\ run'[x].pc = "final" => run[x].pc = "final" /\ run'[x].mu = run[x].mu

(* The invariant follows from what a step does to the calls and their mutexes. *)
LEMMA MutexKept ==
  ASSUME Types_, MutexInv, RunsKeep,
         \A d \in Callers : proc'[d].pc \in Puts => d \in held',
         \A d \in Callers : proc'[d].pc \in WithMutex => taskLWTMu'[proc'[d].task] = d,
         \A t \in Tasks : taskLWTMu'[t] # None => proc'[taskLWTMu'[t]].pc \in WithMutex /\ proc'[taskLWTMu'[t]].task = t,
         \A d \in Callers : proc[d].pc \in Puts \cup AfterPuts => proc'[d].pc \in Puts \cup AfterPuts,
         \A d \in Callers : proc'[d].pc \in Puts /\ proc[d].pc \notin Puts => proc[d].pc \notin Puts \cup AfterPuts
  PROVE  MutexInv'
<1>1. ASSUME NEW x \in RunIds, run'[x].mu # None
      PROVE  /\ run'[x].mu = run[x].mu /\ run[x].mu \in Callers
             /\ proc[run[x].mu].pc \in Puts \cup AfterPuts
             /\ run'[x].pc = "final" => proc[run[x].mu].pc \notin Puts
  BY <1>1, RunRecord DEF Types_, MutexInv, RunsKeep
<1>2. \A x \in RunIds : run'[x].mu # None => proc'[run'[x].mu].pc \in Puts \cup AfterPuts
  BY <1>1
<1>3. \A x \in RunIds : run'[x].pc = "final" /\ run'[x].mu # None => proc'[run'[x].mu].pc \notin Puts
  BY <1>1
<1>4. QED  BY <1>2, <1>3 DEF MutexInv

(* The steps of the call that holds a mutex. *)
LEMMA MutexCallStep ==
  ASSUME Types_, MutexInv, NEW c \in Callers, WithMutexStep(c), RunsKeep
  PROVE  MutexInv'
<1> USE DEF Types_
<1>0. c \in Procs /\ proc \in [Procs -> ProcState] /\ proc[c] \in ProcState
  BY DEF Procs, ProcType
<1>1. \A d \in Callers : d # c => proc'[d] = proc[d]
  BY <1>0, CallerIsProc DEF WithMutexStep, StopLookup, PutStopping, UpdateStopping, PutStoppingFails, DropMutex, Goto
<1>2. \A t \in Tasks : taskLWTMu[t] # None => taskLWTMu[t] \in Callers
  BY DEF ServiceType
<1>4. \A d \in Callers : proc[d].pc \in WithMutex => proc[d].task \in Tasks
  BY CallerIsProc, ProcRecord DEF ProcOk, WithMutex, Puts, WithTask
<1>5. proc[c].task \in Tasks
  BY <1>0, ProcRecord DEF WithMutexStep, StopLookup, PutStopping, UpdateStopping, PutStoppingFails, DropMutex, ProcOk, WithTask
<1> DEFINE t == proc[c].task
<1>6. CASE StopLookup(c) /\ ~Done(c)
  <2>1. /\ proc[c].pc = "stop" /\ taskLWTMu[t] = None /\ taskLWTMu' = [taskLWTMu EXCEPT ![t] = c] /\ held' = held \cup {c}
        /\ proc'[c].pc = "stopping" /\ proc'[c].task = t
    BY <1>0, <1>6 DEF StopLookup, ProcState
  <2>2. proc[c].pc \notin Puts \cup AfterPuts \cup WithMutex /\ proc'[c].pc \in WithMutex /\ proc'[c].pc \in Puts
    BY <2>1 DEF Puts, AfterPuts, WithMutex
  <2>3. \A u \in Tasks : taskLWTMu[u] # c
    BY <1>0, <2>2, CallerIsProc DEF MutexInv
  <2>4. \A d \in Callers : d # c /\ proc[d].pc \in WithMutex => proc[d].task # t
    BY <2>1, CallerIsProc DEF MutexInv
  <2>5. \A d \in Callers : proc'[d].pc \in Puts => d \in held'
    BY <1>1, <2>1 DEF MutexInv
  <2>6. \A d \in Callers : proc'[d].pc \in WithMutex => taskLWTMu'[proc'[d].task] = d
    BY <1>1, <1>4, <1>5, <2>1, <2>4 DEF MutexInv, ServiceType
  <2>7. \A u \in Tasks : taskLWTMu'[u] # None => proc'[taskLWTMu'[u]].pc \in WithMutex /\ proc'[taskLWTMu'[u]].task = u
    BY <1>1, <1>2, <1>5, <2>1, <2>2, <2>3 DEF MutexInv, ServiceType
  <2>8. \A d \in Callers : proc[d].pc \in Puts \cup AfterPuts => proc'[d].pc \in Puts \cup AfterPuts
    BY <1>1, <2>2
  <2>9. \A d \in Callers : proc'[d].pc \in Puts /\ proc[d].pc \notin Puts => proc[d].pc \notin Puts \cup AfterPuts
    BY <1>1, <2>2
  <2>10. QED  BY <2>5, <2>6, <2>7, <2>8, <2>9, MutexKept
<1>7. CASE PutStopping(c)
  <2>1. /\ proc[c].pc = "stopping" /\ UNCHANGED <<taskLWTMu, held>>
        /\ proc'[c].pc = "stopping task" /\ proc'[c].task = t
    BY <1>0, <1>7 DEF PutStopping, Goto, ProcState, service
  <2>2. proc[c].pc \in Puts /\ proc'[c].pc \in Puts
    BY <2>1 DEF Puts
  <2>3. \A d \in Callers : (proc'[d].pc \in Puts <=> proc[d].pc \in Puts) /\ (proc'[d].pc \in WithMutex <=> proc[d].pc \in WithMutex)
                            /\ (proc[d].pc \in Puts \cup AfterPuts => proc'[d].pc \in Puts \cup AfterPuts)
                            /\ proc'[d].task = proc[d].task
    BY <1>1, <2>1, <2>2 DEF WithMutex
  <2>4. \A d \in Callers : proc'[d].pc \in Puts => d \in held'
    BY <2>1, <2>3 DEF MutexInv
  <2>5. \A d \in Callers : proc'[d].pc \in WithMutex => taskLWTMu'[proc'[d].task] = d
    BY <2>1, <2>3 DEF MutexInv
  <2>6. \A u \in Tasks : taskLWTMu'[u] # None => proc'[taskLWTMu'[u]].pc \in WithMutex /\ proc'[taskLWTMu'[u]].task = u
    <3>1. ASSUME NEW u \in Tasks, taskLWTMu'[u] # None
          PROVE  proc'[taskLWTMu'[u]].pc \in WithMutex /\ proc'[taskLWTMu'[u]].task = u
      <4>1. PICK d \in Callers : d = taskLWTMu[u] /\ d = taskLWTMu'[u]
        BY <1>2, <2>1, <3>1
      <4>2. proc[d].pc \in WithMutex /\ proc[d].task = u
        BY <2>1, <3>1, <4>1 DEF MutexInv
      <4>3. QED  BY <2>3, <4>1, <4>2
    <3>2. QED  BY <3>1
  <2>7. QED  BY <2>3, <2>4, <2>5, <2>6, MutexKept
<1>8. CASE UpdateStopping(c) \/ PutStoppingFails(c)
  <2>1. /\ proc[c].pc \in Puts /\ UNCHANGED taskLWTMu /\ held' = held \ {c}
        /\ proc'[c].pc = "unlocked" /\ proc'[c].task = t
    <3>1. CASE UpdateStopping(c)
      BY <1>0, <3>1 DEF UpdateStopping, Goto, ProcState, service, Puts
    <3>2. CASE PutStoppingFails(c)
      <4>1. proc'[c].pc = "unlocked" /\ proc'[c].task = t
        BY <1>0, <3>2 DEF PutStoppingFails, ProcState
      <4>2. QED  BY <3>2, <4>1 DEF PutStoppingFails, service, Puts
    <3>3. QED  BY <1>8, <3>1, <3>2
  <2>2. \A d \in Callers : (proc'[d].pc \in WithMutex <=> proc[d].pc \in WithMutex)
                            /\ (proc[d].pc \in Puts \cup AfterPuts => proc'[d].pc \in Puts \cup AfterPuts)
                            /\ (proc'[d].pc \in Puts => d # c /\ proc[d].pc \in Puts)
                            /\ proc'[d].task = proc[d].task
    BY <1>1, <2>1 DEF WithMutex, Puts, AfterPuts
  <2>3. \A d \in Callers : proc'[d].pc \in Puts => d \in held'
    BY <2>1, <2>2 DEF MutexInv
  <2>4. \A d \in Callers : proc'[d].pc \in WithMutex => taskLWTMu'[proc'[d].task] = d
    BY <2>1, <2>2 DEF MutexInv
  <2>5. \A u \in Tasks : taskLWTMu'[u] # None => proc'[taskLWTMu'[u]].pc \in WithMutex /\ proc'[taskLWTMu'[u]].task = u
    BY <1>2, <2>1, <2>2 DEF MutexInv
  <2>6. QED  BY <2>2, <2>3, <2>4, <2>5, MutexKept
<1>9. CASE DropMutex(c)
  <2>1. /\ proc[c].pc = "unlocked" /\ UNCHANGED held /\ taskLWTMu' = [taskLWTMu EXCEPT ![t] = None]
        /\ proc'[c].pc \in {"return", "cancel"} /\ proc'[c].task = t
    BY <1>0, <1>9 DEF DropMutex, Goto, ProcState
  <2>2. taskLWTMu[t] = c
    BY <2>1 DEF MutexInv, WithMutex
  <2>3. \A u \in Tasks : u # t => taskLWTMu[u] # c
    BY CallerIsProc DEF MutexInv
  <2>4. \A d \in Callers : d # c /\ proc[d].pc \in WithMutex => proc[d].task # t
    BY <2>2 DEF MutexInv
  <2>5. proc'[c].pc \notin WithMutex /\ proc'[c].pc \notin Puts /\ proc'[c].pc \in AfterPuts
    BY <2>1 DEF WithMutex, Puts, AfterPuts
  <2>6. \A d \in Callers : proc'[d].pc \in Puts => d \in held'
    BY <1>1, <2>1, <2>5 DEF MutexInv
  <2>7. \A d \in Callers : proc'[d].pc \in WithMutex => taskLWTMu'[proc'[d].task] = d
    BY <1>1, <1>4, <1>5, <2>1, <2>4, <2>5 DEF MutexInv, ServiceType
  <2>8. \A u \in Tasks : taskLWTMu'[u] # None => proc'[taskLWTMu'[u]].pc \in WithMutex /\ proc'[taskLWTMu'[u]].task = u
    BY <1>1, <1>2, <1>5, <2>1, <2>3 DEF MutexInv, ServiceType
  <2>9. \A d \in Callers : /\ proc[d].pc \in Puts \cup AfterPuts => proc'[d].pc \in Puts \cup AfterPuts
                           /\ proc'[d].pc \in Puts => proc[d].pc \in Puts
    BY <1>1, <2>5
  <2>10. QED  BY <2>6, <2>7, <2>8, <2>9, MutexKept
<1>10. QED  BY <1>6, <1>7, <1>8, <1>9 DEF WithMutexStep

(* The other steps of a process. *)
LEMMA MutexNeutralStep ==
  ASSUME Types_, MutexInv, NEW p \in Procs, Neutral(p), RunsKeep
  PROVE  MutexInv'
<1> USE DEF Types_
<1>1. \A t \in Tasks : taskLWTMu[t] # None => taskLWTMu[t] \in Callers
  BY DEF ServiceType
<1>3. /\ UNCHANGED <<held, taskLWTMu>> /\ \A x \in Callers : x # p => proc'[x] = proc[x]
      /\ proc[p].pc \notin WithMutex /\ proc'[p].pc \notin WithMutex /\ proc'[p].pc \notin Puts
      /\ proc[p].pc \in Puts \cup AfterPuts => proc'[p].pc \in AfterPuts
  BY CallerIsProc DEF Neutral, WithMutex
<1>4. \A c \in Callers : proc'[c].pc \in WithMutex => proc'[c] = proc[c]
  BY <1>3
<1>5. \A c \in Callers : proc'[c].pc \in Puts => proc'[c].pc \in WithMutex
  BY DEF WithMutex
<1>6. \A c \in Callers : proc[c].pc \in WithMutex => proc'[c] = proc[c]
  BY <1>3
<1>7. \A c \in Callers : proc[c].pc \in Puts \cup AfterPuts => proc'[c].pc \in Puts \cup AfterPuts
  BY <1>3
<1>8. \A c \in Callers : proc'[c].pc \in Puts => proc[c].pc \in Puts /\ c \in held'
  BY <1>3, <1>4, <1>5 DEF MutexInv
<1>9. \A c \in Callers : proc'[c].pc \in WithMutex => taskLWTMu'[proc'[c].task] = c
  BY <1>3, <1>4 DEF MutexInv
<1>10. \A u \in Tasks : taskLWTMu'[u] # None => proc'[taskLWTMu'[u]].pc \in WithMutex /\ proc'[taskLWTMu'[u]].task = u
  BY <1>1, <1>3, <1>6 DEF MutexInv
<1>11. QED  BY <1>7, <1>8, <1>9, <1>10, MutexKept

LEMMA RunsKeepStep == ASSUME RunType, NotARun, ~Lost PROVE RunsKeep
<1>1. CASE SameRuns
  BY <1>1 DEF SameRuns, RunsKeep
<1>2. ASSUME NEW g \in Schedulers, NEW t \in Tasks, Registers(g, t) PROVE RunsKeep
  BY <1>2, RegistersIs DEF RunsKeep
<1>3. QED  BY <1>1, <1>2 DEF NotARun

LEMMA MutexStep ==
  ASSUME Types_, MutexInv, Next PROVE MutexInv'
<1> USE DEF Types_
<1>0. proc \in [Procs -> ProcState] /\ Main \in Procs
  BY DEF ProcType, Procs
<1>1. CASE \E r \in RunIds : RunStep(r)
  BY <1>1, MutexRunStep
<1>2. CASE Lost
  <2>1. /\ \A t \in Tasks : taskLWTMu'[t] = None
        /\ \A c \in Callers : proc'[c].pc \in {"idle", "done"}
        /\ \A r \in RunIds : run'[r].mu = None
    BY <1>2, CallerIsProc DEF Lost, IdleProc, FreeRun
  <2>2. QED  BY <2>1 DEF MutexInv, Puts, WithMutex
<1>3. CASE NotARun /\ ~Lost
  <2>0. RunsKeep
    BY <1>3, RunsKeepStep
  <2>1. ASSUME NEW c \in Callers, CallStep(c) PROVE MutexInv'
    BY <2>0, <2>1, CallNeutral, MutexCallStep, MutexNeutralStep, CallerIsProc
  <2>2. ASSUME NEW p \in Procs, ProcStep(p) PROVE MutexInv'
    BY <2>0, <2>2, ProcNeutral, MutexNeutralStep
  <2>3. ASSUME \A c \in Callers : proc'[c] = proc[c], UNCHANGED <<held, taskLWTMu>> PROVE MutexInv'
    <3>1. \A t \in Tasks : taskLWTMu[t] # None => taskLWTMu[t] \in Callers
      BY DEF ServiceType
    <3>2. \A u \in Tasks : taskLWTMu'[u] # None => proc'[taskLWTMu'[u]].pc \in WithMutex /\ proc'[taskLWTMu'[u]].task = u
      BY <2>3, <3>1 DEF MutexInv
    <3>3. \A c \in Callers : proc'[c].pc \in Puts => c \in held'
      BY <2>3 DEF MutexInv
    <3>4. \A c \in Callers : proc'[c].pc \in WithMutex => taskLWTMu'[proc'[c].task] = c
      BY <2>3 DEF MutexInv
    <3>5. QED  BY <2>0, <2>3, <3>2, <3>3, <3>4, MutexKept
  <2>4. CASE Start \/ Loaded \/ \E t \in Tasks : LoadTask(t)
    <3>1. \A c \in Callers : proc'[c] = proc[c]
      BY <1>0, <2>4, CallerIsProc DEF Start, Loaded, LoadTask, To
    <3>2. UNCHANGED <<held, taskLWTMu>>
      BY <2>4 DEF Start, Loaded, LoadTask, service
    <3>3. QED  BY <2>3, <3>1, <3>2
  <2>5. CASE Close \/ \E g \in Schedulers, t \in Tasks : Activate(g, t)
    <3>1. UNCHANGED <<proc, held, taskLWTMu>>
      BY <2>5 DEF Close, Activate, service
    <3>2. QED  BY <2>3, <3>1
  <2>6. QED  BY <1>1, <1>2, <2>1, <2>2, <2>4, <2>5 DEF Next, Exit, Crash
<1>4. QED  BY <1>1, <1>2, <1>3, StepKinds

(* While the tasks are loaded no call and no runner of a suspend task is there to interfere. *)
LEMMA LoadingStep ==
  ASSUME Types_, DownIsEmpty, MainInv, LoadInv, Suspender \notin Types, Next, state = "loading", state' = "loading"
  PROVE  /\ \A p \in Procs \ {Main} : proc'[p].pc \in {"idle", "done"}
         /\ proc'[Main].todo \subseteq proc[Main].todo
         /\ proc'[Main].pc \in {"schedule", "apply"} => proc'[Main].task \notin proc'[Main].todo
<1> USE DEF Types_
<1> DEFINE Goal == /\ \A p \in Procs \ {Main} : proc'[p].pc \in {"idle", "done"}
                   /\ proc'[Main].todo \subseteq proc[Main].todo
                   /\ proc'[Main].pc \in {"schedule", "apply"} => proc'[Main].task \notin proc'[Main].todo
<1>0. proc \in [Procs -> ProcState] /\ Main \in Procs /\ Main \notin RunIds /\ Main \notin Callers
  BY TaskServiceAssumption DEF ProcType, Procs
<1>1. /\ \A p \in Procs \ {Main} : proc[p].pc \in {"idle", "done"}
      /\ proc[Main].pc \in {"schedule", "apply"} => proc[Main].task \notin proc[Main].todo
      /\ proc[Main].pc \in {"next", "schedule", "apply"} /\ Req(Main) = LoadRequest
  BY DEF LoadInv, MainInv
<1>2. CASE UNCHANGED proc
  BY <1>1, <1>2
<1>3. ASSUME NEW c \in Callers, CallStep(c) PROVE Goal
  <2>1. c \in Procs \ {Main}
    BY <1>0, CallerIsProc
  <2>2. proc[c].pc \in {"idle", "done"}
    BY <1>1, <2>1
  <2>3. QED
    BY <1>3, <2>2 DEF CallStep, Call, shouldPutTask, InsertTask, StartLookup, Trigger, ScheduleOnce, StopLookup, PutStopping,
        UpdateStopping, PutStoppingFails, DropMutex, Stop, DeleteRow, RemoveTask, Unschedule, Resume,
        ResumeDrawerStays, ResumeDone, ResumeTask, NextTask, WaitRuns, Return
<1>4. ASSUME NEW p \in Procs, ProcStep(p), ProcMoves(p) PROVE Goal
  <2>1. CASE p # Main
    <3>1. proc[p].pc \in {"idle", "done"}
      BY <1>1, <2>1
    <3>2. QED
      BY <1>4, <3>1 DEF ProcStep, ScheduleLookup, ScheduleApply, ListTasks, Suspend, PutDrawer, PutDrawerFails,
        StatementFails, SuspendTask, NextTask
  <2>2. CASE p = Main
    <3>1. /\ \A x \in Procs : x # Main => proc'[x] = proc[x]
          /\ proc'[Main].pc \in {"next", "apply"} /\ proc'[Main].todo = proc[Main].todo
      BY <1>1, <1>4, <2>2 DEF ProcMoves
    <3>2. ASSUME proc'[Main].pc = "apply" PROVE proc[Main].pc = "schedule" /\ proc'[Main].task = proc[Main].task
      <4>1. Returned(Main) = "next" /\ Req(Main).op = "load"
        BY <1>1 DEF Returned, LoadRequest
      <4>2. CASE ScheduleLookup(Main)
        BY <1>0, <4>2 DEF ScheduleLookup, Goto, ProcState
      <4>3. CASE ScheduleApply(Main)
        BY <1>0, <3>2, <4>1, <4>3, GotoMoves DEF ScheduleApply
      <4>4. QED
        BY <1>1, <1>4, <2>2, <4>1, <4>2, <4>3 DEF ProcStep, ListTasks, Suspend, PutDrawer, PutDrawerFails, StatementFails,
          SuspendTask, NextTask
    <3>3. QED  BY <1>1, <3>1, <3>2
  <2>3. QED  BY <2>1, <2>2
<1>5. ASSUME NEW r \in RunIds, EnterRunner(r) PROVE Goal
  <2>1. run[r].task \in Tasks
    BY <1>5, RunRecord DEF EnterRunner
  <2>2. TypeOf[run[r].task] # Suspender
    BY <2>1 DEF Types
  <2>3. UNCHANGED proc
    BY <1>5, <2>2 DEF EnterRunner
  <2>4. QED  BY <1>2, <2>3
<1>6. ASSUME NEW t \in Tasks, LoadTask(t) PROVE Goal
  BY <1>0, <1>1, <1>6, ToMoves DEF LoadTask
<1>7. CASE Start \/ Loaded \/ Lost
  BY <1>7 DEF Start, Loaded, Lost
<1>8. QED  BY <1>2, <1>3, <1>4, <1>5, <1>6, <1>7, OtherProcs

LEMMA LoadStep ==
  ASSUME Types_, DownIsEmpty, MainInv, LoadInv, Suspender \notin Types, Next PROVE LoadInv'
<1> USE DEF Types_
<1>0. proc \in [Procs -> ProcState] /\ Main \in Procs
  BY DEF ProcType, Procs
<1>1. ASSUME state' = "down" PROVE \A g \in Schedulers : sched'[g] = NewScheduler
  <2>1. Lost
    BY <1>1, StateStep, DownStep DEF Start, Loaded
  <2>2. QED  BY <2>1 DEF Lost
<1>2. CASE state' # "loading"
  BY <1>1, <1>2 DEF LoadInv
<1>3. CASE state' = "loading" /\ state = "loading"
  <2>1. /\ \A p \in Procs \ {Main} : proc'[p].pc \in {"idle", "done"}
        /\ proc'[Main].todo \subseteq proc[Main].todo
        /\ proc'[Main].pc \in {"schedule", "apply"} => proc'[Main].task \notin proc'[Main].todo
    BY <1>3, LoadingStep
  <2>2. ASSUME NEW t \in proc[Main].todo, NEW p \in Procs, proc[p].pc \in {"apply", "once"} PROVE proc[p].task # t
    <3>1. p = Main
      BY <1>3, <2>2 DEF LoadInv
    <3>2. QED  BY <1>3, <2>2, <3>1 DEF LoadInv, MainInv
  <2>3. ASSUME NEW t \in proc'[Main].todo
        PROVE  /\ \A g \in Schedulers : t \notin sched'[g].queue /\ sched'[g].details[t] = "none"
               /\ \A r \in RunIds : Live(r)' => run'[r].task # t
    <3>1. t \in proc[Main].todo /\ t \in Tasks
      BY <1>0, <2>1, ProcRecord
    <3>2. ASSUME NEW g \in Schedulers PROVE t \notin sched[g].queue /\ sched[g].details[t] = "none"
      BY <1>3, <3>1 DEF LoadInv
    <3>3. ASSUME NEW g \in Schedulers PROVE t \notin sched'[g].queue /\ sched'[g].details[t] = "none"
      BY <2>2, <3>1, <3>2, SchedStep, NewKeys, NewQueued
    <3>4. ASSUME NEW r \in RunIds, Live(r)', run'[r].task = t PROVE FALSE
      BY <1>3, <3>1, <3>2, <3>4, RunsStep DEF LoadInv
    <3>5. QED  BY <3>3, <3>4
  <2>4. QED  BY <1>3, <2>1, <2>3 DEF LoadInv, Live
<1>4. CASE state' = "loading" /\ state # "loading"
  <2>1. Start
    BY <1>4, StateStep DEF Loaded, Lost
  <2>2. /\ state = "down" /\ UNCHANGED <<sched, run>> /\ proc'[Main].pc = "next"
        /\ \A x \in Procs : x # Main => proc'[x] = proc[x]
    BY <1>0, <2>1 DEF Start, IdleProc
  <2>3. /\ \A p \in Procs \ {Main} : proc'[p].pc \in {"idle", "done"}
        /\ \A r \in RunIds : ~Live(r)'
    BY <2>2 DEF DownIsEmpty, Live
  <2>4. \A g \in Schedulers : \A t \in Tasks : t \notin sched'[g].queue /\ sched'[g].details[t] = "none"
    <3>1. \A g \in Schedulers : sched'[g] = NewScheduler
      BY <2>2 DEF LoadInv
    <3>2. NewScheduler.queue = {} /\ \A t \in Tasks : NewScheduler.details[t] = "none"
      BY DEF NewScheduler
    <3>3. QED  BY <3>1, <3>2
  <2>5. proc'[Main].todo \subseteq Tasks
    BY <1>0, <2>1 DEF Start, IdleProc, Tabled
  <2>6. QED  BY <1>4, <2>2, <2>3, <2>4, <2>5 DEF LoadInv, Live
<1>5. QED  BY <1>2, <1>3, <1>4

(* How a run gets to its final status. *)
OnRun == {"begun", "put", "updated", "runner", "ran", "decided"}
PastRun == {"out", "ended", "done"}

LEMMA RunPcMoves ==
  ASSUME RunType, NEW r \in RunIds, RunStep(r)
  PROVE  /\ run[r].pc \in OnRun =>
              \/ run'[r].pc \in OnRun /\ run'[r].task = run[r].task
              \/ PutFails(r) /\ run'[r].pc = "out"
              \/ LeaveRuns(r) /\ run'[r].pc = "left" /\ run'[r].mu = taskLWTMu[run[r].task]
         /\ run[r].pc = "left" => run[r].mu \notin held \/ (run'[r].pc = "left" /\ run'[r].mu = run[r].mu)
         /\ run[r].pc \in PastRun => run'[r].pc \in PastRun
         /\ run[r].pc = "final" => run'[r].pc \in PastRun \cup {"final"}
<1>0. run \in [RunIds -> RunState] /\ run[r] \in RunState
  BY DEF RunType
<1>1. CASE WindowEnds(r) \/ RunBegin(r) \/ PutRun(r) \/ UpdateTask(r) \/ LeaveRunsAgain(r)
  <2>1. CASE WindowEnds(r)
    BY <1>0, <2>1, WindowEndsIs DEF RunState, OnRun, PastRun
  <2>2. CASE RunBegin(r) \/ PutRun(r) \/ UpdateTask(r) \/ LeaveRunsAgain(r)
    BY <1>0, <2>2 DEF RunBegin, PutRun, UpdateTask, LeaveRunsAgain, Step, RunState, OnRun, PastRun
  <2>3. QED  BY <1>1, <2>1, <2>2
<1>2. CASE EnterRunner(r) \/ ReturnRunner(r) \/ DecorateFails(r) \/ FinalStatus(r)
  BY <1>0, <1>2 DEF EnterRunner, ReturnRunner, DecorateFails, FinalStatus, Step, RunState, OnRun, PastRun
<1>3. CASE PutFails(r)
  BY <1>0, <1>3 DEF PutFails, RunState, OnRun, PastRun
<1>4. CASE LeaveRuns(r)
  BY <1>0, <1>4 DEF LeaveRuns, RunState, OnRun, PastRun
<1>5. CASE PutFinalRun(r)
  BY <1>5 DEF PutFinalRun, OnRun, PastRun
<1>6. CASE UpdateFinalTask(r) \/ PutFinalFails(r)
  <2>1. StepOut(r) /\ run[r].pc \in {"left", "final"} /\ (run[r].pc = "left" => run[r].mu \notin held)
    BY <1>6 DEF UpdateFinalTask, PutFinalFails
  <2>2. run'[r].pc = "out"
    BY <1>0, <2>1 DEF StepOut, FreeRun
  <2>3. QED  BY <2>1, <2>2 DEF OnRun, PastRun
<1>7. CASE Reschedule(r)
  BY <1>0, <1>7 DEF Reschedule, FreeRun, OnRun, PastRun
<1>8. QED  BY <1>1, <1>2, <1>3, <1>4, <1>5, <1>6, <1>7 DEF RunStep

LEMMA RunSame ==
  ASSUME Types_, Next, NEW r \in RunIds
  PROVE  \/ run'[r].pc = run[r].pc /\ run'[r].task = run[r].task /\ run'[r].mu = run[r].mu
         \/ run[r].pc = "free" /\ run'[r].pc = "new"
         \/ Lost /\ run'[r].pc \in {"free", "done"} /\ (run'[r].pc = "free" => run[r].pc = "free")
         \/ RunStep(r)
<1> USE DEF Types_
<1>1. CASE SameRuns
  BY <1>1 DEF SameRuns
<1>2. ASSUME NEW g \in Schedulers, NEW t \in Tasks, Registers(g, t)
      PROVE  run'[r] = run[r] \/ (run[r].pc = "free" /\ run'[r].pc = "new")
  BY <1>2, RegistersIs
<1>3. CASE Lost
  BY <1>3 DEF Lost, FreeRun
<1>4. ASSUME NEW x \in RunIds, RunStep(x), x # r PROVE run'[r] = run[r]
  BY <1>4, RunMoves
<1>5. QED  BY <1>1, <1>2, <1>3, <1>4, StepKinds DEF NotARun

(* LoadTasks marks runs of an earlier process only. *)
LEMMA LoadTaskMarks ==
  ASSUME Types_, RowsOfRuns, MainInv, LoadInv, NEW t \in Tasks, LoadTask(t), RowsOf(t) # {}
  PROVE  LastRun(t) \in RunIds /\ run[LastRun(t)].pc = "done" /\ state = "loading"
<1>1. LastRun(t) \in RunIds /\ runRows[LastRun(t)].task = t
  BY LastIsLast DEF LastIs, RowsOf
<1>2. runRows[LastRun(t)] # NoRow
  BY <1>1, TaskServiceAssumption DEF NoRow
<1>3. state = "loading" /\ t \in proc[Main].todo
  BY DEF LoadTask, NextTask, MainInv
<1>4. ~Live(LastRun(t))
  BY <1>1, <1>2, <1>3 DEF LoadInv, RowsOfRuns
<1>5. QED  BY <1>1, <1>2, <1>3, <1>4 DEF RowsOfRuns, Live

(* How the row of a run gets a final status. *)
LEMMA RowFinal ==
  ASSUME Types_, RowsOfRuns, MainInv, LoadInv, Next, NEW r \in RunIds, runRows'[r] # runRows[r]
  PROVE  \/ runRows'[r].status \notin Final
         \/ PutFinalRun(r)
         \/ run[r].pc = "done" /\ state = "loading"
<1> USE DEF Types_
<1>0. runRows \in [RunIds -> RunRow \cup {NoRow}]
  BY DEF TableType
<1>1. ASSUME NEW x \in RunIds, NEW t, NEW s, Puts1(x, t, s) PROVE x = r /\ runRows'[r].status = s
  BY <1>0, <1>1 DEF Puts1
<1>2. "RUNNING" \notin Final /\ "STOPPING" \notin Final
  BY DEF Final
<1>3. ASSUME NEW c \in Callers, PutStopping(c), Puts1(proc[c].run, proc[c].task, "STOPPING") PROVE runRows'[r].status = "STOPPING"
  <2>1. proc[c].run \in RunIds
    BY <1>3, ProcRecord DEF PutStopping, Procs, ProcOk
  <2>2. QED  BY <1>0, <1>3, <2>1 DEF Puts1
<1>4. ASSUME NEW t \in Tasks, LoadTask(t), RowsOf(t) # {}, runRows' = [runRows EXCEPT ![LastRun(t)].status = "ABORTED"]
      PROVE  run[r].pc = "done" /\ state = "loading"
  <2>1. LastRun(t) \in RunIds /\ run[LastRun(t)].pc = "done" /\ state = "loading"
    BY <1>4, LoadTaskMarks
  <2>2. r = LastRun(t)
    BY <1>0, <1>4, <2>1
  <2>3. QED  BY <2>1, <2>2
<1>5. QED  BY <1>1, <1>2, <1>3, <1>4, RowsStep DEF RowsKind

LEMMA StopStep ==
  ASSUME Types_, ListedRunIsOn, RowsOfRuns, MainInv, LoadInv, MutexInv, StopInv, Next PROVE StopInv'
<1> USE DEF Types_
<1>1. ASSUME NEW r \in RunIds, run'[r].pc \in BeforeFinal PROVE runRows'[r].status \notin Final
  <2>1. run[r].pc \in BeforeFinal
    <3>1. CASE RunStep(r)
      <4>1. run[r].pc \notin PastRun \cup {"final"}
        BY <1>1, <3>1, RunPcMoves DEF PastRun, BeforeFinal
      <4>2. QED  BY <4>1, RunRecord DEF RunPcs, PastRun, BeforeFinal
    <3>2. QED  BY <1>1, <3>1, RunSame DEF BeforeFinal
  <2>2. ~PutFinalRun(r)
    BY <1>1 DEF PutFinalRun, Step, RunType, RunState, BeforeFinal
  <2>3. QED  BY <2>1, <2>2, RowFinal DEF StopInv, BeforeFinal
<1>2. ASSUME NEW t \in Tasks, runs'[t] # NoRun PROVE runRows'[runs'[t]].status \notin Final
  <2>1. PICK r \in RunIds : r = runs'[t]
    BY <1>2, ServiceTypeStep DEF ServiceType
  <2>2. r = runs[t] \/ (RunBegin(r) /\ run[r].pc = "new")
    <3>1. ASSUME NEW x \in RunIds, RunStep(x) PROVE UNCHANGED runs \/ RunBegin(x) \/ runs' = [runs EXCEPT ![run[x].task] = NoRun]
      BY <3>1 DEF RunStep, WindowEnds, Reschedule, RunBegin, PutRun, UpdateTask, PutFails, EnterRunner, DecorateFails,
        ReturnRunner, FinalStatus, LeaveRuns, PutFinalRun, UpdateFinalTask, PutFinalFails, LeaveRunsAgain, service
    <3>2. ASSUME NEW x \in RunIds, RunBegin(x) PROVE r = runs[t] \/ (x = r /\ run[r].pc = "new")
      BY <2>1, <3>2 DEF RunBegin, ServiceType
    <3>3. CASE NotARun
      BY <1>2, <2>1, <3>3 DEF NotARun, Lost
    <3>4. QED  BY <1>2, <2>1, <3>1, <3>2, <3>3, StepKinds DEF ServiceType
  <2>3. CASE RunBegin(r) /\ run[r].pc = "new"
    BY <2>1, <2>3 DEF RunBegin, StopInv, BeforeFinal, tables
  <2>4. CASE r = runs[t]
    <3>1. run[r].pc \in {"begun", "put", "updated", "runner", "ran", "decided", "out"}
      BY <1>2, <2>1, <2>4 DEF ListedRunIsOn
    <3>2. ~PutFinalRun(r)
      BY <3>1 DEF PutFinalRun
    <3>3. QED  BY <1>2, <2>1, <2>4, <3>1, <3>2, RowFinal DEF StopInv
  <2>5. QED  BY <2>2, <2>3, <2>4
<1>3. ASSUME NEW c \in Callers, Stopping(c)' PROVE StopTarget(c)'
  <2>1. CASE /\ StopLookup(c) /\ UNCHANGED <<runRows, run>>
             /\ proc[c].task \in Tasks /\ runs[proc[c].task] # NoRun
             /\ proc'[c].run = runs[proc[c].task] /\ proc'[c].task = proc[c].task
    BY <2>1 DEF ListedRunIsOn, StopInv, StopTarget
  <2>2. CASE Stopping(c) /\ proc'[c] = proc[c]
    <3>0. c \in Procs \ {Main} /\ state # "loading" /\ ~Lost
      <4>1. c \in Procs \ {Main}
        BY CallerIsProc
      <4>2. QED  BY <1>3, <2>2, <4>1 DEF LoadInv, Stopping, Lost, IdleProc
    <3>1. PICK r \in RunIds : r = proc[c].run
      BY <2>2, <3>0, ProcRecord DEF Stopping, ProcOk
    <3>2. c \in held /\ taskLWTMu[proc[c].task] = c
      BY <2>2 DEF MutexInv, Stopping, Puts, WithMutex
    <3>3. StopTarget(c)
      BY <2>2 DEF StopInv
    <3>4. proc'[c].run = r /\ proc'[c].task = proc[c].task
      BY <2>2, <3>1
    <3>5. CASE run[r].pc \in OnRun /\ run[r].task = proc[c].task
      <4>1. CASE run'[r].pc \in OnRun /\ run'[r].task = run[r].task
        BY <3>4, <3>5, <4>1 DEF StopTarget, OnRun
      <4>2. CASE LeaveRuns(r) /\ run'[r].pc = "left" /\ run'[r].mu = taskLWTMu[run[r].task]
        BY <3>2, <3>4, <3>5, <4>2 DEF StopTarget
      <4>3. CASE PutFails(r) /\ run'[r].pc = "out"
        <5>1. runRows'[r] = runRows[r] /\ runRows[r].status \notin Final
          BY <3>5, <4>3 DEF PutFails, tables, StopInv, OnRun, BeforeFinal
        <5>2. QED  BY <3>4, <4>3, <5>1 DEF StopTarget
      <4>4. QED  BY <3>0, <3>5, <4>1, <4>2, <4>3, RunSame, RunPcMoves DEF OnRun
    <3>6. CASE run[r].pc = "left" /\ run[r].mu = c
      <4>1. RunStep(r) => run'[r].pc = "left" /\ run'[r].mu = c
        BY <3>2, <3>6, RunPcMoves
      <4>2. run'[r].pc = "left" /\ run'[r].mu = c
        BY <3>0, <3>6, <4>1, RunSame
      <4>3. QED  BY <3>4, <4>2 DEF StopTarget
    <3>7. CASE run[r].pc \in PastRun /\ runRows[r].status \notin Final
      <4>1. run'[r].pc \in PastRun
        BY <3>0, <3>7, RunSame, RunPcMoves DEF PastRun
      <4>2. ~PutFinalRun(r)
        BY <3>7 DEF PutFinalRun, PastRun
      <4>3. runRows'[r].status \notin Final
        BY <3>0, <3>7, <4>2, RowFinal
      <4>4. QED  BY <3>4, <4>1, <4>3 DEF StopTarget, PastRun
    <3>8. QED  BY <3>1, <3>3, <3>5, <3>6, <3>7 DEF StopTarget, OnRun, PastRun
  <2>3. QED  BY <1>3, <2>1, <2>2, StoppingStep
<1>4. QED  BY <1>1, <1>2, <1>3 DEF StopInv

LEMMA FinalInit == Init => FinalInv
<1> SUFFICES ASSUME Init PROVE FinalInv
  OBVIOUS
<1>1. /\ \A p \in Procs : proc[p].pc = "idle"
      /\ \A r \in RunIds : run[r].pc = "free" /\ run[r].mu = None /\ runRows[r].status = "none"
      /\ \A t \in Tasks : taskLWTMu[t] = None /\ runs[t] = NoRun
      /\ \A g \in Schedulers : sched[g] = NewScheduler
      /\ state = "down"
  BY DEF Init, IdleProc, FreeRun, NoRow
<1>2. MutexInv
  BY <1>1, CallerIsProc DEF MutexInv, Puts, WithMutex
<1>3. StopInv
  BY <1>1, CallerIsProc DEF StopInv, Stopping, Final
<1>4. LoadInv
  BY <1>1 DEF LoadInv
<1>5. QED  BY <1>2, <1>3, <1>4 DEF FinalInv

LEMMA FinalCorrect == Spec => []FinalInv
<1>1. Types_ /\ SuspendInv /\ ListedRunIsOn /\ SettledInv /\ FinalInv /\ [Next]_vars => FinalInv'
  <2>1. CASE UNCHANGED vars
    BY <2>1 DEF vars, tables, service, bounds, FinalInv, MutexInv, StopInv, LoadInv, StopTarget, Stopping, Live
  <2>2. ASSUME Types_, SuspendInv, ListedRunIsOn, SettledInv, FinalInv, Next PROVE FinalInv'
    BY <2>2, MutexStep, StopStep, LoadStep DEF FinalInv, SettledInv, SuspendInv
  <2>3. QED  BY <2>1, <2>2
<1>2. QED  BY <1>1, FinalInit, TypesCorrect, SuspendCorrect, ListedRunIsOnCorrect, SettledCorrect, PTL DEF Spec

(* The final status that a run put stands, whatever calls of StopTask race *)
(* the end of the run and whichever statements fail, in a cluster without  *)
(* suspend tasks.  With one it does not hold: suspendRunner, started while *)
(* LoadTasks is still going on, starts a task before its turn comes,       *)
(* LoadTask marks ABORTED the run that is on, and when a statement of that *)
(* run failed a StopTask still finds it in runs and puts STOPPING.         *)
THEOREM FinalStatusStandsCorrect ==
  ASSUME Suspender \notin Types PROVE Spec => FinalStatusStands
<1> DEFINE Stands == \A r \in RunIds : run[r].pc \in {"final", "out", "ended", "done"} /\ runRows[r].status \in Final
                                          => runRows'[r] = runRows[r]
<1>1. Types_ /\ SettledInv /\ FinalInv /\ [Next]_vars => [Stands]_vars
  <2>1. ASSUME Types_, FinalInv, Next, NEW r \in RunIds, run[r].pc \in {"final", "out", "ended", "done"},
               runRows[r].status \in Final
        PROVE  runRows'[r] = runRows[r]
    <3>0. runRows \in [RunIds -> RunRow \cup {NoRow}]
      BY <2>1 DEF Types_, TableType
    <3>1. ASSUME NEW x \in RunIds, PutRun(x) \/ PutFinalRun(x), NEW t, NEW s, Puts1(x, t, s) PROVE runRows'[r] = runRows[r]
      BY <2>1, <3>0, <3>1 DEF Puts1, PutRun, PutFinalRun
    <3>2. ASSUME NEW c \in Callers, PutStopping(c), Puts1(proc[c].run, proc[c].task, "STOPPING") PROVE runRows'[r] = runRows[r]
      <4>1. StopTarget(c)
        BY <2>1, <3>2 DEF FinalInv, StopInv, Stopping, PutStopping
      <4>2. proc[c].run # r
        BY <2>1, <4>1 DEF StopTarget
      <4>3. QED  BY <3>0, <3>2, <4>2 DEF Puts1
    <3>3. ASSUME NEW t \in Tasks, runRows[LastRun(t)].status = "RUNNING",
                 runRows' = [runRows EXCEPT ![LastRun(t)].status = "ABORTED"]
          PROVE  runRows'[r] = runRows[r]
      <4>1. LastRun(t) # r
        BY <2>1, <3>3 DEF Final
      <4>2. QED  BY <3>0, <3>3, <4>1
    <3>4. QED  BY <2>1, <3>1, <3>2, <3>3, RowsStep DEF RowsKind
  <2>2. QED  BY <2>1
<1>2. QED  BY <1>1, TypesCorrect, SettledCorrect, FinalCorrect, PTL DEF Spec, FinalStatusStands

-----------------------------------------------------------------------------
(***************************************************************************)
(* Every scheduler of the service behaves as SchedulerPromise says.  What  *)
(* makes it so: a key is queued or running but not both, and it runs once  *)
(* at a time in a scheduler.                                               *)
(***************************************************************************)
Apart ==
  \A r \in RunIds : Live(r) =>
    /\ run[r].task \notin sched[run[r].sched].queue
    /\ \A x \in RunIds : Live(x) /\ run[x].sched = run[r].sched /\ run[x].task = run[r].task => x = r

(* Scheduler g of s becomes one with these fields in z, the others stay. *)
Becomes(s, z, g, ds, q, c, l) ==
  /\ z \in [Schedulers -> SchedulerState]
  /\ \A x \in Schedulers : x # g => z[x] = s[x]
  /\ z[g].details = ds /\ z[g].queue = q /\ z[g].closed = c /\ z[g].late = l

LEMMA QueuedBecomes ==
  ASSUME NEW s \in [Schedulers -> SchedulerState], NEW g \in Schedulers, NEW t \in Tasks
  PROVE  Becomes(s, Queued(s, g, t), g, [s[g].details EXCEPT ![t] = Asked(s[g].details[t])], s[g].queue \cup {t},
                 s[g].closed, s[g].late)
<1> DEFINE d == Asked(s[g].details[t])
<1>1. d \in Details
  BY AskedIs DEF SchedulerState
<1> DEFINE v == [s[g] EXCEPT !.queue = @ \cup {t}, !.details = [@ EXCEPT ![t] = d]]
<1>2. /\ v \in SchedulerState /\ v.queue = s[g].queue \cup {t} /\ v.details = [s[g].details EXCEPT ![t] = d]
      /\ v.closed = s[g].closed /\ v.late = s[g].late
  BY <1>1 DEF SchedulerState
<1>3. Queued(s, g, t) = [s EXCEPT ![g] = v]
  BY DEF Queued, SchedulerState
<1> HIDE DEF v
<1>4. QED  BY <1>2, <1>3 DEF Becomes

LEMMA DequeuedBecomes ==
  ASSUME NEW s \in [Schedulers -> SchedulerState], NEW g \in Schedulers, NEW t \in Tasks
  PROVE  /\ Becomes(s, Dequeued(s, g, t), g, s[g].details, s[g].queue \ {t}, s[g].closed, s[g].late)
         /\ Becomes(s, [Dequeued(s, g, t) EXCEPT ![g].late = FALSE], g, s[g].details, s[g].queue \ {t}, s[g].closed, FALSE)
<1> DEFINE v == [s[g] EXCEPT !.queue = @ \ {t}]
           w == [v EXCEPT !.late = FALSE]
<1>1. /\ v \in SchedulerState /\ v.queue = s[g].queue \ {t} /\ v.details = s[g].details
      /\ v.closed = s[g].closed /\ v.late = s[g].late
  BY DEF SchedulerState
<1>2. Dequeued(s, g, t) = [s EXCEPT ![g] = v]
  BY DEF Dequeued, SchedulerState
<1>3. [Dequeued(s, g, t) EXCEPT ![g].late = FALSE] = [s EXCEPT ![g] = w]
  BY <1>2
<1> HIDE DEF v
<1>4. w \in SchedulerState /\ w.queue = v.queue /\ w.details = v.details /\ w.closed = v.closed /\ w.late = FALSE
  BY <1>1 DEF SchedulerState
<1> HIDE DEF w
<1>5. QED  BY <1>1, <1>2, <1>3, <1>4 DEF Becomes

LEMMA UnscheduledBecomes ==
  ASSUME SchedType, NEW g \in Schedulers, NEW t \in Tasks
  PROVE  Becomes(sched, Unscheduled(g, t), g, [sched[g].details EXCEPT ![t] = "none"], sched[g].queue \ {t},
                 sched[g].closed, sched[g].late)
<1> DEFINE z == Dequeued(sched, g, t)
<1>1. Becomes(sched, z, g, sched[g].details, sched[g].queue \ {t}, sched[g].closed, sched[g].late)
  BY DequeuedBecomes DEF SchedType
<1>2. Unscheduled(g, t) = [z EXCEPT ![g].details[t] = "none"]
  BY DEF Unscheduled
<1>3. z \in [Schedulers -> SchedulerState]
  BY <1>1 DEF Becomes
<1> HIDE DEF z
<1> DEFINE v == [z[g] EXCEPT !.details = [@ EXCEPT ![t] = "none"]]
<1>4. /\ v \in SchedulerState /\ v.queue = z[g].queue /\ v.details = [z[g].details EXCEPT ![t] = "none"]
      /\ v.closed = z[g].closed /\ v.late = z[g].late
  BY <1>3 DEF SchedulerState, Details
<1>5. Unscheduled(g, t) = [z EXCEPT ![g] = v]
  BY <1>2, <1>3 DEF SchedulerState
<1> HIDE DEF v
<1>6. QED  BY <1>1, <1>4, <1>5 DEF Becomes

LEMMA ScheduleBecomes ==
  ASSUME SchedType, NEW g \in Schedulers, NEW t \in Tasks, NEW d \in Details, SchedulerSchedule(g, t, d)
  PROVE  /\ t \in Running(g) =>
              Becomes(sched, sched', g, [sched[g].details EXCEPT ![t] = d], sched[g].queue, sched[g].closed, sched[g].late)
         /\ t \notin Running(g) =>
              Becomes(sched, sched', g, [sched[g].details EXCEPT ![t] = Asked(d)], sched[g].queue \cup {t},
                      sched[g].closed, sched[g].late)
<1> DEFINE z == [sched EXCEPT ![g].details[t] = d]
<1>1. sched' = IF t \in Running(g) THEN z ELSE Queued(z, g, t)
  BY DEF SchedulerSchedule
<1>2. Becomes(sched, z, g, [sched[g].details EXCEPT ![t] = d], sched[g].queue, sched[g].closed, sched[g].late)
  <2> DEFINE v == [sched[g] EXCEPT !.details = [@ EXCEPT ![t] = d]]
  <2>1. /\ v \in SchedulerState /\ v.queue = sched[g].queue /\ v.details = [sched[g].details EXCEPT ![t] = d]
        /\ v.closed = sched[g].closed /\ v.late = sched[g].late
    BY DEF SchedType, SchedulerState
  <2>2. z = [sched EXCEPT ![g] = v]
    BY DEF SchedType, SchedulerState
  <2> HIDE DEF v, z
  <2>3. QED  BY <2>1, <2>2 DEF Becomes, SchedType
<1> HIDE DEF z
<1>3. sched[g].details \in [Tasks -> Details]
  BY DEF SchedType, SchedulerState
<1>4. /\ z \in [Schedulers -> SchedulerState] /\ z[g].queue = sched[g].queue /\ z[g].closed = sched[g].closed
      /\ z[g].late = sched[g].late /\ z[g].details = [sched[g].details EXCEPT ![t] = d]
      /\ \A x \in Schedulers : x # g => z[x] = sched[x]
  BY <1>2, Zenon DEF Becomes
<1>5. z[g].details[t] = d /\ [z[g].details EXCEPT ![t] = Asked(d)] = [sched[g].details EXCEPT ![t] = Asked(d)]
  BY <1>3, <1>4
<1>6. Becomes(z, Queued(z, g, t), g, [z[g].details EXCEPT ![t] = Asked(d)], z[g].queue \cup {t}, z[g].closed, z[g].late)
  BY <1>4, <1>5, QueuedBecomes
<1>7. Becomes(sched, Queued(z, g, t), g, [sched[g].details EXCEPT ![t] = Asked(d)], sched[g].queue \cup {t},
              sched[g].closed, sched[g].late)
  BY <1>4, <1>5, <1>6 DEF Becomes
<1>8. QED  BY <1>1, <1>2, <1>7

LEMMA ClosedBecomes ==
  ASSUME SchedType, NEW g \in Schedulers
  PROVE  /\ Becomes(sched, Closed(sched, g), g, sched[g].details, sched[g].queue, TRUE, Closed(sched, g)[g].late)
         /\ sched[g].closed => Closed(sched, g)[g].late = sched[g].late
<1> DEFINE v == [sched[g] EXCEPT !.closed = TRUE, !.late = @ \/ ~sched[g].closed]
<1>1. /\ v \in SchedulerState /\ v.queue = sched[g].queue /\ v.details = sched[g].details
      /\ v.closed = TRUE /\ (sched[g].closed => v.late = sched[g].late)
  BY DEF SchedType, SchedulerState
<1>2. Closed(sched, g) = [sched EXCEPT ![g] = v]
  BY DEF Closed, SchedType, SchedulerState
<1> HIDE DEF v
<1>3. QED  BY <1>1, <1>2 DEF Becomes, SchedType

(* What a trigger will still yield, through the mapping. *)
LEMMA LeftIs ==
  ASSUME NEW g \in Schedulers, NEW d \in Details
  PROVE  /\ TriggerLeft["none"] = None
         /\ d # "none" => /\ TriggerLeft[d] \in Promise(g)!Trigger /\ TriggerLeft[d] # None
                          /\ TriggerLeft[Asked(d)] = Promise(g)!Asked(TriggerLeft[d])
         /\ d \in {"cron", "multi", "once"} => Promise(g)!MayActivate(TriggerLeft[d])
         /\ d = "fired" => Promise(g)!MayExpire(TriggerLeft[d])
<1>1. TriggerLeft["none"] = None
  BY DEF TriggerLeft
<1>2. /\ TriggerLeft["cron"] = [once |-> FALSE, rest |-> "always"] /\ TriggerLeft["multi"] = [once |-> TRUE, rest |-> "always"]
      /\ TriggerLeft["once"] = [once |-> TRUE, rest |-> "never"] /\ TriggerLeft["fired"] = [once |-> FALSE, rest |-> "never"]
  BY DEF TriggerLeft
<1>a. \A o, x, f : [[once |-> o, rest |-> x] EXCEPT !.once = f] = [once |-> f, rest |-> x]
  OBVIOUS
<1>b. \A o, x : Promise(g)!Asked([once |-> o, rest |-> x]) = [once |-> FALSE, rest |-> x]
  BY <1>a DEF Promise!Asked
<1>c. \A o \in BOOLEAN, x \in {"always", "sometimes", "never"} : [once |-> o, rest |-> x] \in Promise(g)!Trigger
  BY DEF Promise!Trigger
<1>d. Asked("cron") = "cron" /\ Asked("multi") = "cron" /\ Asked("once") = "fired" /\ Asked("fired") = "fired"
  BY DEF Asked
<1>e. d # "none" => d \in {"cron", "multi", "once", "fired"}
  BY DEF Details
<1>f. /\ Promise(g)!Asked(TriggerLeft["cron"]) = TriggerLeft["cron"]
      /\ Promise(g)!Asked(TriggerLeft["multi"]) = TriggerLeft["cron"]
      /\ Promise(g)!Asked(TriggerLeft["once"]) = TriggerLeft["fired"]
      /\ Promise(g)!Asked(TriggerLeft["fired"]) = TriggerLeft["fired"]
  BY <1>2, <1>b
<1>3. ASSUME d # "none" PROVE TriggerLeft[d] \in Promise(g)!Trigger
  BY <1>2, <1>3, <1>c, <1>e, Zenon
<1>4. ASSUME d # "none" PROVE TriggerLeft[Asked(d)] = Promise(g)!Asked(TriggerLeft[d])
  <2>1. CASE d = "cron"
    BY <1>f, <1>d, <2>1
  <2>2. CASE d = "multi"
    BY <1>f, <1>d, <2>2
  <2>3. CASE d = "once"
    BY <1>f, <1>d, <2>3
  <2>4. CASE d = "fired"
    BY <1>f, <1>d, <2>4
  <2>5. QED  BY <1>4, <1>e, <2>1, <2>2, <2>3, <2>4
<1>5. d \in {"cron", "multi", "once"} => Promise(g)!MayActivate(TriggerLeft[d])
  BY <1>2 DEF Promise!MayActivate
<1>6. d = "fired" => Promise(g)!MayExpire(TriggerLeft[d])
  BY <1>2 DEF Promise!MayExpire
<1>7. d # "none" => TriggerLeft[d] # None
  BY <1>3, PromiseAssumption
<1>8. QED  BY <1>1, <1>3, <1>4, <1>5, <1>6, <1>7

(* A run of a scheduler, and what the promise sees of it. *)
On(r, g) == Live(r) /\ run[r].sched = g
Seen(g) == [r \in RunIds |-> IF Live(r) /\ run[r].sched = g THEN Context(r) ELSE None]

LEMMA ContextIs ==
  ASSUME RunType, NEW g \in Schedulers, NEW r \in RunIds, On(r, g)
  PROVE  /\ Context(r) \in Promise(g)!Run /\ Context(r) # None /\ Context(r).key = run[r].task
         /\ Context(r).window = run[r].window /\ Context(r).cause = run[r].cause
         /\ Context(r).result = IF run[r].pc # "ended" THEN "none" ELSE IF run[r].err THEN "failed" ELSE "done"
<1>1. run[r].task \in Tasks /\ run[r].window \in BOOLEAN /\ run[r].cause \in Causes
  BY DEF On, RunType, RunState
<1>2. PICK e \in {"none", "done", "failed"} :
        e = IF run[r].pc # "ended" THEN "none" ELSE IF run[r].err THEN "failed" ELSE "done"
  OBVIOUS
<1>3. Context(r) = [key |-> run[r].task, window |-> run[r].window, cause |-> run[r].cause, result |-> e]
  BY <1>2 DEF Context
<1>4. Context(r) \in Promise(g)!Run
  BY <1>1, <1>3 DEF Causes, Promise!Run, Promise!Cause
<1>5. QED  BY <1>2, <1>3, <1>4, PromiseAssumption

LEMMA IsRunningIs ==
  ASSUME RunType, NEW g \in Schedulers, NEW t
  PROVE  Promise(g)!IsRunning(t) <=> t \in Running(g)
<1>1. \A r \in RunIds : Live(r) /\ run[r].sched = g => Context(r) # None /\ Context(r).key = run[r].task
  BY ContextIs DEF On
<1>2. t \in Running(g) <=> \E r \in RunIds : Live(r) /\ run[r].sched = g /\ run[r].task = t
  BY DEF Running
<1>3. QED  BY <1>1, <1>2 DEF Promise!IsRunning

(* A run whose state the promise sees is left alone. *)
Same(r) ==
  /\ Live(r)' <=> Live(r)
  /\ Live(r) => /\ run'[r].task = run[r].task /\ run'[r].sched = run[r].sched /\ run'[r].window = run[r].window
                /\ run'[r].cause = run[r].cause /\ (run'[r].pc = "ended" <=> run[r].pc = "ended")
                /\ run[r].pc = "ended" => run'[r].err = run[r].err

LEMMA SameIsSeen ==
  ASSUME NEW r \in RunIds, Same(r), NEW g
  PROVE  (Live(r)' /\ run'[r].sched = g <=> Live(r) /\ run[r].sched = g) /\ (Live(r) => Context(r)' = Context(r))
<1>1. PICK e : e = IF run[r].pc # "ended" THEN "none" ELSE IF run[r].err THEN "failed" ELSE "done"
  OBVIOUS
<1>2. ASSUME Live(r) PROVE Context(r)' = Context(r)
  <2>1. e = IF run'[r].pc # "ended" THEN "none" ELSE IF run'[r].err THEN "failed" ELSE "done"
    BY <1>1, <1>2 DEF Same
  <2>2. QED  BY <1>1, <1>2, <2>1 DEF Same, Context
<1>3. Live(r)' /\ run'[r].sched = g <=> Live(r) /\ run[r].sched = g
  BY DEF Same
<1>4. QED  BY <1>2, <1>3

LEMMA UnmovedIsSame == \A r \in RunIds : run'[r] = run[r] => Same(r)
BY DEF Same, Live

(* A scheduler that a step leaves alone. *)
LEMMA Elsewhere ==
  ASSUME NEW g \in Schedulers, sched'[g] = sched[g],
         \A r \in RunIds : Same(r) \/ (~(Live(r) /\ run[r].sched = g) /\ ~(Live(r)' /\ run'[r].sched = g))
  PROVE  Promise(g)!vars' = Promise(g)!vars
<1>1. \A r \in RunIds : /\ Live(r)' /\ run'[r].sched = g <=> Live(r) /\ run[r].sched = g
                        /\ Live(r) /\ run[r].sched = g => Context(r)' = Context(r)
  BY SameIsSeen
<1>2. [r \in RunIds |-> IF Live(r) /\ run[r].sched = g THEN Context(r) ELSE None]'
        = [r \in RunIds |-> IF Live(r) /\ run[r].sched = g THEN Context(r) ELSE None]
  BY <1>1
<1>3. QED  BY <1>2 DEF Promise!vars

(* The RunFunc of r returns. *)
Ends(r) ==
  /\ Live(r) /\ run[r].pc # "ended" /\ run'[r].pc = "ended"
  /\ run'[r].task = run[r].task /\ run'[r].sched = run[r].sched
  /\ run'[r].window = run[r].window /\ run'[r].cause = run[r].cause

(* What a step does as the promises see it. *)
Unmoved == UNCHANGED sched /\ \A r \in RunIds : Same(r)
Scheduled(g, t) ==
  /\ \/ \E d \in {"cron", "multi", "once"} : SchedulerSchedule(g, t, d)
     \/ sched' = Unscheduled(g, t)
  /\ UNCHANGED run
Stopped(g, t) == run' = Cancelled(g, {t}, "stopped") /\ UNCHANGED sched
Closes(g) == sched' = Closed(sched, g) /\ run' = Cancelled(g, Running(g), "closed")
Triggered(g, t) ==
  /\ t \notin Running(g) /\ sched[g].details[t] # "none" /\ FreeRuns # {}
  /\ sched' = Dequeued(sched, g, t) /\ run' = Registered(g, t, FALSE)

Kind ==
  \/ Unmoved \/ Lost
  \/ \E g \in Schedulers, t \in Tasks : Activate(g, t) \/ Triggered(g, t) \/ Scheduled(g, t) \/ Stopped(g, t)
  \/ \E g \in Schedulers : Closes(g)
  \/ \E r \in RunIds : \/ WindowEnds(r) \/ Reschedule(r)
                       \/ /\ Ends(r) /\ UNCHANGED sched
                          /\ \A x \in RunIds : x # r => run'[x] = run[x]

LEMMA UnmovedIs == ASSUME UNCHANGED <<sched, run>> PROVE Unmoved
BY UnmovedIsSame DEF Unmoved

LEMMA RunKinds ==
  ASSUME RunType, NEW r \in RunIds, RunStep(r), ~WindowEnds(r), ~Reschedule(r)
  PROVE  UNCHANGED sched /\ (\A x \in RunIds : x # r => run'[x] = run[x]) /\ (Same(r) \/ Ends(r))
<1>0. run \in [RunIds -> RunState] /\ run[r] \in RunState
  BY DEF RunType
<1>1. \A x \in RunIds : x # r => run'[x] = run[x]
  BY RunMoves
<1>2. UNCHANGED sched
  BY DEF RunStep, RunBegin, PutRun, UpdateTask, PutFails, EnterRunner, DecorateFails,
    ReturnRunner, FinalStatus, LeaveRuns, PutFinalRun, UpdateFinalTask, PutFinalFails, LeaveRunsAgain
<1>3. CASE PutRun(r) \/ UpdateTask(r) \/ EnterRunner(r) \/ ReturnRunner(r)
  BY <1>0, <1>1, <1>2, <1>3 DEF PutRun, UpdateTask, EnterRunner, ReturnRunner, Step, RunState, Same, Live
<1>4. CASE RunBegin(r) \/ LeaveRunsAgain(r)
  BY <1>0, <1>1, <1>2, <1>4 DEF RunBegin, LeaveRunsAgain, Step, RunState, Same, Ends, Live
<1>5. CASE PutFails(r) \/ DecorateFails(r) \/ FinalStatus(r) \/ LeaveRuns(r)
  BY <1>0, <1>1, <1>2, <1>5 DEF PutFails, DecorateFails, FinalStatus, LeaveRuns, RunState, Same, Live
<1>6. CASE PutFinalRun(r)
  BY <1>0, <1>1, <1>2, <1>6 DEF PutFinalRun, Step, RunState, Same, Live
<1>7. CASE UpdateFinalTask(r) \/ PutFinalFails(r)
  <2>1. StepOut(r) /\ run[r].pc \in {"left", "final"}
    BY <1>7 DEF UpdateFinalTask, PutFinalFails
  <2>2. /\ run'[r].pc = "out" /\ run'[r].task = run[r].task /\ run'[r].sched = run[r].sched
        /\ run'[r].window = run[r].window /\ run'[r].cause = run[r].cause /\ run'[r].err = run[r].err
    BY <1>0, <2>1 DEF StepOut, FreeRun
  <2>3. QED  BY <1>1, <1>2, <2>1, <2>2 DEF Same, Live
<1>8. QED  BY <1>3, <1>4, <1>5, <1>6, <1>7 DEF RunStep

LEMMA PromiseKinds == ASSUME Types_, Next PROVE Kind
<1> USE DEF Types_
<1>1. ASSUME NEW c \in Callers, CallStep(c) PROVE Kind
  <2>0. c \in Procs /\ ProcOk(proc[c])
    BY <1>1 DEF Procs, ProcType
  <2>1. CASE UNCHANGED <<sched, run>>
    BY <2>1, UnmovedIs DEF Kind
  <2>2. CASE Stop(c)
    <3>1. proc[c].l \in Schedulers /\ proc[c].task \in Tasks
      BY <2>0, <2>2 DEF Stop, ProcOk, WithTask, WithScheduler
    <3>2. QED  BY <2>2, <3>1 DEF Stop, Stopped, Kind
  <2>3. CASE Trigger(c) /\ ~UNCHANGED <<sched, run>>
    <3>1. proc[c].l \in Schedulers /\ proc[c].task \in Tasks
      BY <2>0, <2>3 DEF Trigger, ProcOk, WithTask, WithScheduler
    <3>2. Triggered(proc[c].l, proc[c].task)
      BY <2>3 DEF Trigger, Triggered
    <3>3. QED  BY <3>1, <3>2 DEF Kind
  <2>4. CASE ScheduleOnce(c) \/ Unschedule(c)
    <3>1. proc[c].l \in Schedulers /\ proc[c].task \in Tasks
      BY <2>0, <2>4 DEF ScheduleOnce, Unschedule, ProcOk, WithTask, WithScheduler
    <3>2. Scheduled(proc[c].l, proc[c].task)
      BY <2>4 DEF ScheduleOnce, Unschedule, Scheduled
    <3>3. QED  BY <3>1, <3>2 DEF Kind
  <2>5. QED
    BY <1>1, <2>1, <2>2, <2>3, <2>4 DEF CallStep, Call, shouldPutTask, InsertTask, StartLookup, StopLookup,
      PutStopping, UpdateStopping, PutStoppingFails, DropMutex, DeleteRow, RemoveTask, Resume,
      ResumeDrawerStays, ResumeDone, ResumeTask, WaitRuns, Return
<1>2. ASSUME NEW p \in Procs, ProcStep(p) PROVE Kind
  <2>1. CASE UNCHANGED <<sched, run>>
    BY <2>1, UnmovedIs DEF Kind
  <2>2. CASE Suspend(p) /\ ~UNCHANGED <<sched, run>>
    <3>1. scheduler # 0 /\ Closes(scheduler)
      BY <2>2 DEF Suspend, Closes
    <3>2. scheduler \in Schedulers
      BY <3>1 DEF ServiceType
    <3>3. QED  BY <3>1, <3>2 DEF Kind
  <2>3. CASE ScheduleApply(p)
    <3>1. proc[p].l \in Schedulers /\ proc[p].task \in Tasks
      BY <2>3 DEF ScheduleApply, ProcType, ProcOk, WithTask, WithScheduler
    <3>2. Scheduled(proc[p].l, proc[p].task)
      BY <2>3 DEF ScheduleApply, Scheduled
    <3>3. QED  BY <3>1, <3>2 DEF Kind
  <2>4. QED
    BY <1>2, <2>1, <2>2, <2>3 DEF ProcStep, ScheduleLookup, ListTasks, PutDrawer, PutDrawerFails, StatementFails, SuspendTask
<1>3. ASSUME NEW r \in RunIds, RunStep(r) PROVE Kind
  <2>1. CASE WindowEnds(r) \/ Reschedule(r)
    BY <2>1 DEF Kind
  <2>2. CASE ~WindowEnds(r) /\ ~Reschedule(r)
    <3>1. UNCHANGED sched /\ (\A x \in RunIds : x # r => run'[x] = run[x]) /\ (Same(r) \/ Ends(r))
      BY <1>3, <2>2, RunKinds
    <3>2. CASE Ends(r)
      BY <3>1, <3>2 DEF Kind
    <3>3. CASE Same(r)
      <4>1. Unmoved
        BY <3>1, <3>3, UnmovedIsSame DEF Unmoved
      <4>2. QED  BY <4>1 DEF Kind
    <3>4. QED  BY <3>1, <3>2, <3>3
  <2>3. QED  BY <2>1, <2>2
<1>4. CASE Close
  <2>1. CASE scheduler = 0
    BY <1>4, <2>1, UnmovedIs DEF Close, Kind
  <2>2. CASE scheduler # 0
    <3>1. Closes(scheduler) /\ scheduler \in Schedulers
      BY <1>4, <2>2 DEF Close, Closes, ServiceType
    <3>2. QED  BY <3>1 DEF Kind
  <2>3. QED  BY <2>1, <2>2
<1>5. CASE Start \/ Loaded \/ \E t \in Tasks : LoadTask(t)
  <2>1. UNCHANGED <<sched, run>>
    BY <1>5 DEF Start, Loaded, LoadTask
  <2>2. QED  BY <2>1, UnmovedIs DEF Kind
<1>6. CASE Exit \/ Crash
  BY <1>6 DEF Exit, Crash, Kind
<1>7. CASE \E g \in Schedulers, t \in Tasks : Activate(g, t)
  BY <1>7 DEF Kind
<1>8. QED  BY <1>1, <1>2, <1>3, <1>4, <1>5, <1>6, <1>7 DEF Next

-----------------------------------------------------------------------------
(* Apart is inductive. *)
LEMMA RegisteredIs ==
  ASSUME RunType, NEW g, NEW t, NEW w \in BOOLEAN, FreeRuns # {}, run' = Registered(g, t, w)
  PROVE  \E n \in RunIds :
           /\ run[n].pc = "free" /\ \A x \in RunIds : x # n => run'[x] = run[x]
           /\ run'[n].pc = "new" /\ run'[n].task = t /\ run'[n].sched = g /\ run'[n].window = w /\ run'[n].cause = "none"
<1>1. NextRun \in RunIds /\ run[NextRun].pc = "free"
  BY NextRunIsFree
<1>2. run' = [run EXCEPT ![NextRun] = [FreeRun EXCEPT !.pc = "new", !.task = t, !.sched = g, !.window = w]]
  BY DEF Registered
<1>3. /\ run'[NextRun].pc = "new" /\ run'[NextRun].task = t /\ run'[NextRun].sched = g /\ run'[NextRun].cause = "none"
      /\ run'[NextRun].window = w /\ \A x \in RunIds : x # NextRun => run'[x] = run[x]
  BY <1>1, <1>2 DEF RunType, FreeRun
<1>4. QED  BY <1>1, <1>3

LEMMA CancelledIs ==
  ASSUME RunType, NEW g, NEW ts, NEW cause \in Causes, run' = Cancelled(g, ts, cause), NEW r \in RunIds
  PROVE  /\ run'[r].pc = run[r].pc /\ run'[r].task = run[r].task /\ run'[r].sched = run[r].sched
         /\ run'[r].window = run[r].window /\ run'[r].err = run[r].err
         /\ run'[r].cause = IF Live(r) /\ run[r].sched = g /\ run[r].task \in ts /\ run[r].cause = "none"
                            THEN cause ELSE run[r].cause
<1>1. run[r] \in RunState
  BY DEF RunType
<1>2. run'[r] = IF Live(r) /\ run[r].sched = g /\ run[r].task \in ts /\ run[r].cause = "none"
                THEN [run[r] EXCEPT !.cause = cause] ELSE run[r]
  BY DEF Cancelled
<1>3. CASE Live(r) /\ run[r].sched = g /\ run[r].task \in ts /\ run[r].cause = "none"
  BY <1>1, <1>2, <1>3 DEF RunState
<1>4. CASE ~(Live(r) /\ run[r].sched = g /\ run[r].task \in ts /\ run[r].cause = "none")
  BY <1>2, <1>4
<1>5. QED  BY <1>3, <1>4

(* The runs that are live stay what they were, and no key of theirs is queued. *)
LEMMA ApartKept ==
  ASSUME RunType, Apart,
         \A r \in RunIds : Live(r)' => Live(r) /\ run'[r].task = run[r].task /\ run'[r].sched = run[r].sched,
         \A g \in Schedulers : \A t \in sched'[g].queue :
           t \in sched[g].queue \/ \A r \in RunIds : ~(Live(r)' /\ run'[r].sched = g /\ run'[r].task = t)
  PROVE  Apart'
<1>1. SUFFICES ASSUME NEW r \in RunIds, Live(r)'
               PROVE  /\ run'[r].task \notin sched'[run'[r].sched].queue
                      /\ \A x \in RunIds : Live(x)' /\ run'[x].sched = run'[r].sched /\ run'[x].task = run'[r].task => x = r
  BY DEF Apart
<1>2. Live(r) /\ run'[r].task = run[r].task /\ run'[r].sched = run[r].sched /\ run[r].sched \in Schedulers
  BY <1>1 DEF RunType
<1>3. run[r].task \notin sched[run[r].sched].queue
  BY <1>2 DEF Apart
<1>4. run'[r].task \notin sched'[run'[r].sched].queue
  BY <1>1, <1>2, <1>3
<1>5. ASSUME NEW x \in RunIds, Live(x)', run'[x].sched = run'[r].sched, run'[x].task = run'[r].task PROVE x = r
  BY <1>2, <1>5 DEF Apart
<1>6. QED  BY <1>4, <1>5

(* A key leaves the queue for a run. *)
LEMMA ApartStarts ==
  ASSUME RunType, Apart, NEW g \in Schedulers, NEW t \in Tasks, t \notin Running(g),
         t \notin sched'[g].queue, \A h \in Schedulers : sched'[h].queue \subseteq sched[h].queue,
         NEW n \in RunIds, run[n].pc = "free", run'[n].task = t, run'[n].sched = g,
         \A x \in RunIds : x # n => run'[x] = run[x]
  PROVE  Apart'
<1>1. SUFFICES ASSUME NEW r \in RunIds, Live(r)'
               PROVE  /\ run'[r].task \notin sched'[run'[r].sched].queue
                      /\ \A x \in RunIds : Live(x)' /\ run'[x].sched = run'[r].sched /\ run'[x].task = run'[r].task => x = r
  BY DEF Apart
<1>2. \A x \in RunIds : Live(x) /\ run[x].sched = g => run[x].task # t
  BY DEF Running
<1>3. \A x \in RunIds : x # n => (Live(x)' <=> Live(x)) /\ run'[x].task = run[x].task /\ run'[x].sched = run[x].sched
  BY DEF Live
<1>4. CASE r = n
  BY <1>1, <1>2, <1>3, <1>4
<1>5. CASE r # n
  <2>1. Live(r) /\ run[r].sched \in Schedulers /\ run[r].task \notin sched[run[r].sched].queue
    BY <1>1, <1>3, <1>5 DEF Apart, RunType
  <2>2. run'[r].task \notin sched'[run'[r].sched].queue
    BY <1>3, <1>5, <2>1
  <2>3. ASSUME NEW x \in RunIds, Live(x)', run'[x].sched = run'[r].sched, run'[x].task = run'[r].task PROVE x = r
    <3>1. x # n
      BY <1>2, <1>3, <1>5, <2>1, <2>3
    <3>2. QED  BY <1>3, <1>5, <2>1, <2>3, <3>1 DEF Apart
  <2>4. QED  BY <2>2, <2>3
<1>6. QED  BY <1>4, <1>5

LEMMA QueuedApart ==
  ASSUME Apart, NEW g, NEW t, t \in sched[g].queue PROVE t \notin Running(g)
BY DEF Apart, Running

-----------------------------------------------------------------------------
(* The steps of the promises. *)
KeepsTo(g) == Promise(g)!vars' = Promise(g)!vars \/ state' = "down" \/ Promise(g)!Next

LEMMA CancelSeen ==
  ASSUME RunType, NEW g \in Schedulers, NEW r \in RunIds, On(r, g), NEW c \in Causes,
         run'[r].pc = run[r].pc, run'[r].task = run[r].task, run'[r].sched = run[r].sched,
         run'[r].window = run[r].window, run'[r].err = run[r].err,
         run'[r].cause = IF run[r].cause = "none" THEN c ELSE run[r].cause
  PROVE  Live(r)' /\ run'[r].sched = g /\ Context(r)' = Promise(g)!Cancel(r, c)
<1>1. PICK e : e = IF run[r].pc # "ended" THEN "none" ELSE IF run[r].err THEN "failed" ELSE "done"
  OBVIOUS
<1>2. Context(r) = [key |-> run[r].task, window |-> run[r].window, cause |-> run[r].cause, result |-> e]
  BY <1>1 DEF Context
<1>3. Context(r)' = [key |-> run[r].task, window |-> run[r].window, cause |-> run'[r].cause, result |-> e]
  BY <1>1 DEF Context
<1>4. [q \in RunIds |-> IF Live(q) /\ run[q].sched = g THEN Context(q) ELSE None][r] = Context(r)
  BY DEF On
<1>5. Context(r).cause = run[r].cause
  BY <1>2
<1>6. Context(r)' = IF Context(r).cause = "none" THEN [Context(r) EXCEPT !.cause = c] ELSE Context(r)
  BY <1>2, <1>3, <1>5
<1>7. Context(r)' = Promise(g)!Cancel(r, c)
  BY <1>4, <1>6 DEF Promise!Cancel
<1>8. QED  BY <1>7 DEF On, Live

(* The contexts of some keys of g are cancelled: seen by its promise alone. *)
LEMMA CancelledSeen ==
  ASSUME RunType, NEW g \in Schedulers, NEW ts, NEW c \in Causes, run' = Cancelled(g, ts, c), NEW r \in RunIds
  PROVE  /\ On(r, g)' <=> On(r, g)
         /\ On(r, g) => Context(r)' = IF run[r].task \in ts THEN Promise(g)!Cancel(r, c) ELSE Context(r)
         /\ ~On(r, g) => Same(r)
<1>1. /\ run'[r].pc = run[r].pc /\ run'[r].task = run[r].task /\ run'[r].sched = run[r].sched
      /\ run'[r].window = run[r].window /\ run'[r].err = run[r].err
      /\ run'[r].cause = IF Live(r) /\ run[r].sched = g /\ run[r].task \in ts /\ run[r].cause = "none"
                         THEN c ELSE run[r].cause
  BY CancelledIs
<1>2. On(r, g)' <=> On(r, g)
  BY <1>1 DEF On, Live
<1>3. ASSUME ~On(r, g) \/ run[r].task \notin ts PROVE Same(r)
  BY <1>1, <1>3 DEF On, Same, Live
<1>4. ASSUME On(r, g), run[r].task \in ts PROVE Context(r)' = Promise(g)!Cancel(r, c)
  <2>1. run'[r].cause = IF run[r].cause = "none" THEN c ELSE run[r].cause
    BY <1>1, <1>4 DEF On
  <2>2. QED  BY <1>1, <1>4, <2>1, CancelSeen
<1>5. ASSUME On(r, g), run[r].task \notin ts PROVE Context(r)' = Context(r)
  <2>1. Same(r)
    BY <1>3, <1>5
  <2>2. QED  BY <1>5, <2>1, SameIsSeen DEF On
<1>6. QED  BY <1>2, <1>3, <1>4, <1>5

LEMMA StoppedKeeps ==
  ASSUME RunType, Apart, NEW g \in Schedulers, NEW t \in Tasks, Stopped(g, t), NEW h \in Schedulers
  PROVE  Apart' /\ KeepsTo(h)
<1>1. run' = Cancelled(g, {t}, "stopped") /\ UNCHANGED sched /\ "stopped" \in Causes
  BY DEF Stopped, Causes
<1>2. Apart'
  <2>1. \A r \in RunIds : Live(r)' => Live(r) /\ run'[r].task = run[r].task /\ run'[r].sched = run[r].sched
    BY <1>1, CancelledIs DEF Live
  <2>2. QED  BY <1>1, <2>1, ApartKept
<1>3. CASE h # g
  <2>1. \A r \in RunIds : Same(r) \/ (~(Live(r) /\ run[r].sched = h) /\ ~(Live(r)' /\ run'[r].sched = h))
    <3>1. SUFFICES ASSUME NEW r \in RunIds, On(r, g)
                   PROVE  ~(Live(r) /\ run[r].sched = h) /\ ~(Live(r)' /\ run'[r].sched = h)
      BY <1>1, CancelledSeen
    <3>2. On(r, g)'
      BY <1>1, <3>1, CancelledSeen
    <3>3. QED  BY <1>3, <3>1, <3>2 DEF On
  <2>2. QED  BY <1>1, <1>2, <2>1, Elsewhere DEF KeepsTo
<1>4. CASE h = g
  <2>1. \A r \in RunIds : On(r, g) => Context(r) # None /\ Context(r).key = run[r].task
    BY ContextIs
  <2>2. \A r \in RunIds : /\ On(r, g)' <=> On(r, g)
                          /\ On(r, g) => Context(r)' = IF Context(r).key = t THEN Promise(g)!Cancel(r, "stopped") ELSE Context(r)
    BY <1>1, <2>1, CancelledSeen
  <2>3. Promise(g)!Stop(t)
    BY <1>1, <2>1, <2>2 DEF Promise!Stop, On
  <2>4. QED  BY <1>2, <1>4, <2>3 DEF KeepsTo, Promise!Next
<1>5. QED  BY <1>3, <1>4

LEMMA ClosesKeeps ==
  ASSUME RunType, SchedType, Apart, NEW g \in Schedulers, Closes(g), NEW h \in Schedulers
  PROVE  Apart' /\ KeepsTo(h)
<1>1. run' = Cancelled(g, Running(g), "closed") /\ sched' = Closed(sched, g) /\ "closed" \in Causes
  BY DEF Closes, Causes
<1>2. Becomes(sched, sched', g, sched[g].details, sched[g].queue, TRUE, sched'[g].late)
      /\ (sched[g].closed => sched'[g].late = sched[g].late)
  BY <1>1, ClosedBecomes
<1>3. /\ sched'[g].details = sched[g].details /\ sched'[g].queue = sched[g].queue /\ sched'[g].closed = TRUE
      /\ sched'[g].late \in BOOLEAN /\ \A x \in Schedulers : x # g => sched'[x] = sched[x]
  BY <1>2 DEF Becomes, SchedulerState
<1>4. Apart'
  <2>1. \A r \in RunIds : Live(r)' => Live(r) /\ run'[r].task = run[r].task /\ run'[r].sched = run[r].sched
    BY <1>1, CancelledIs DEF Live
  <2>2. \A x \in Schedulers : sched'[x].queue = sched[x].queue
    BY <1>3
  <2>3. QED  BY <2>1, <2>2, ApartKept
<1>5. CASE h # g
  <2>1. \A r \in RunIds : Same(r) \/ (~(Live(r) /\ run[r].sched = h) /\ ~(Live(r)' /\ run'[r].sched = h))
    <3>1. SUFFICES ASSUME NEW r \in RunIds, On(r, g)
                   PROVE  ~(Live(r) /\ run[r].sched = h) /\ ~(Live(r)' /\ run'[r].sched = h)
      BY <1>1, CancelledSeen
    <3>2. On(r, g)'
      BY <1>1, <3>1, CancelledSeen
    <3>3. QED  BY <1>5, <3>1, <3>2 DEF On
  <2>2. QED  BY <1>3, <1>4, <1>5, <2>1, Elsewhere DEF KeepsTo
<1>6. CASE h = g
  <2>1. \A r \in RunIds : On(r, g) => Context(r) # None /\ run[r].task \in Running(g)
    BY ContextIs DEF On, Running
  <2>2. \A r \in RunIds : On(r, g)' <=> On(r, g)
    BY <1>1, CancelledSeen
  <2>3. \A r \in RunIds : On(r, g) => Context(r)' = Promise(g)!Cancel(r, "closed")
    BY <1>1, <2>1, CancelledSeen
  <2>4. Promise(g)!Close
    BY <1>2, <1>3, <2>1, <2>2, <2>3 DEF Promise!Close, On
  <2>5. QED  BY <1>4, <1>6, <2>4 DEF KeepsTo, Promise!Next
<1>7. QED  BY <1>5, <1>6

LEMMA WindowEndsKeeps ==
  ASSUME RunType, Apart, NEW r \in RunIds, WindowEnds(r), NEW h \in Schedulers
  PROVE  Apart' /\ KeepsTo(h)
<1>0. PICK g \in Schedulers : g = run[r].sched
  BY WindowEndsIs, RunRecord
<1>1. Live(r) /\ run[r].window /\ run[r].cause = "none"
  BY Zenon DEF WindowEnds
<1>2. run' = [run EXCEPT ![r].cause = "window"] /\ UNCHANGED sched
  BY WindowEndsIs
<1>3. run \in [RunIds -> RunState] /\ run[r] \in RunState /\ "window" \in Causes
  BY DEF RunType, Causes
<1>4. /\ run'[r].pc = run[r].pc /\ run'[r].task = run[r].task /\ run'[r].sched = run[r].sched
      /\ run'[r].window = run[r].window /\ run'[r].err = run[r].err /\ run'[r].cause = "window"
      /\ \A x \in RunIds : x # r => run'[x] = run[x]
  BY <1>2, <1>3 DEF RunState
<1>5. \A x \in RunIds : x # r => Same(x)
  BY <1>4, UnmovedIsSame
<1>6. Apart'
  <2>1. \A x \in RunIds : Live(x)' => Live(x) /\ run'[x].task = run[x].task /\ run'[x].sched = run[x].sched
    BY <1>4 DEF Live
  <2>2. QED  BY <1>2, <2>1, ApartKept
<1>7. CASE h # g
  <2>1. ~(Live(r) /\ run[r].sched = h) /\ ~(Live(r)' /\ run'[r].sched = h)
    BY <1>0, <1>4, <1>7
  <2>2. QED  BY <1>2, <1>5, <1>6, <1>7, <2>1, Elsewhere DEF KeepsTo
<1>8. CASE h = g
  <2>1. On(r, g)
    BY <1>0, <1>1 DEF On
  <2>2. Live(r)' /\ run'[r].sched = g /\ Context(r)' = Promise(g)!Cancel(r, "window")
    BY <1>1, <1>3, <1>4, <2>1, CancelSeen
  <2>3. Context(r) # None /\ Context(r).window
    BY <1>1, <2>1, ContextIs
  <2>4. \A x \in RunIds \ {r} : (Live(x)' /\ run'[x].sched = g <=> Live(x) /\ run[x].sched = g) /\ (Live(x) => Context(x)' = Context(x))
    BY <1>5, SameIsSeen
  <2>5. [x \in RunIds |-> IF Live(x) /\ run[x].sched = g THEN Context(x) ELSE None]'
          = [[x \in RunIds |-> IF Live(x) /\ run[x].sched = g THEN Context(x) ELSE None] EXCEPT ![r] = Promise(g)!Cancel(r, "window")]
    BY <2>2, <2>4
  <2>6. [x \in RunIds |-> IF Live(x) /\ run[x].sched = g THEN Context(x) ELSE None][r] = Context(r)
    BY <2>1 DEF On
  <2>7. Promise(g)!WindowEnds(r)
    BY <1>2, <2>3, <2>5, <2>6 DEF Promise!WindowEnds
  <2>8. QED  BY <1>6, <1>8, <2>7 DEF KeepsTo, Promise!Next
<1>9. QED  BY <1>7, <1>8

LEMMA EndsKeeps ==
  ASSUME RunType, RunType', Apart, NEW r \in RunIds, Ends(r), UNCHANGED sched, \A x \in RunIds : x # r => run'[x] = run[x],
         NEW h \in Schedulers
  PROVE  Apart' /\ KeepsTo(h)
<1>0. PICK g \in Schedulers : g = run[r].sched
  BY RunRecord DEF Ends, Live
<1>1. Live(r) /\ Live(r)' /\ run'[r].task = run[r].task /\ run'[r].sched = run[r].sched
  BY DEF Ends, Live
<1>5. \A x \in RunIds : x # r => Same(x)
  BY UnmovedIsSame
<1>6. Apart'
  <2>1. \A x \in RunIds : Live(x)' => Live(x) /\ run'[x].task = run[x].task /\ run'[x].sched = run[x].sched
    BY <1>1 DEF Live
  <2>2. QED  BY <2>1, ApartKept
<1>7. CASE h # g
  <2>1. ~(Live(r) /\ run[r].sched = h) /\ ~(Live(r)' /\ run'[r].sched = h)
    BY <1>0, <1>1, <1>7
  <2>2. QED  BY <1>5, <1>6, <1>7, <2>1, Elsewhere DEF KeepsTo
<1>8. CASE h = g
  <2>1. On(r, g)
    BY <1>0, <1>1 DEF On
  <2>2. PICK e \in {"done", "failed"} : e = IF run'[r].err THEN "failed" ELSE "done"
    OBVIOUS
  <2>3. Context(r) = [key |-> run[r].task, window |-> run[r].window, cause |-> run[r].cause, result |-> "none"]
    BY DEF Ends, Context
  <2>4. Context(r)' = [key |-> run[r].task, window |-> run[r].window, cause |-> run[r].cause, result |-> e]
    BY <2>2 DEF Ends, Context
  <2>5. Context(r)' = [Context(r) EXCEPT !.result = e]
    BY <2>3, <2>4
  <2>6. Context(r) # None /\ Context(r).result = "none"
    BY <2>1, <2>3, ContextIs
  <2>7. \A x \in RunIds \ {r} : (Live(x)' /\ run'[x].sched = g <=> Live(x) /\ run[x].sched = g) /\ (Live(x) => Context(x)' = Context(x))
    BY <1>5, SameIsSeen
  <2>8. [x \in RunIds |-> IF Live(x) /\ run[x].sched = g THEN Context(x) ELSE None][r] = Context(r)
    BY <2>1 DEF On
  <2>9. [x \in RunIds |-> IF Live(x) /\ run[x].sched = g THEN Context(x) ELSE None]'
          = [[x \in RunIds |-> IF Live(x) /\ run[x].sched = g THEN Context(x) ELSE None] EXCEPT ![r].result = e]
    BY <1>0, <1>1, <2>5, <2>7, <2>8
  <2>10. Promise(g)!Return(r)
    BY <2>6, <2>8, <2>9 DEF Promise!Return
  <2>11. QED  BY <1>6, <1>8, <2>10 DEF KeepsTo, Promise!Next
<1>9. QED  BY <1>7, <1>8

(* A scheduler whose runs are left alone. *)
LEMMA RunsStay ==
  ASSUME NEW g, \A x \in RunIds : Same(x) \/ (~(Live(x) /\ run[x].sched = g) /\ ~(Live(x)' /\ run'[x].sched = g))
  PROVE  [x \in RunIds |-> IF Live(x) /\ run[x].sched = g THEN Context(x) ELSE None]'
           = [x \in RunIds |-> IF Live(x) /\ run[x].sched = g THEN Context(x) ELSE None]
<1>1. \A x \in RunIds : /\ Live(x)' /\ run'[x].sched = g <=> Live(x) /\ run[x].sched = g
                        /\ Live(x) /\ run[x].sched = g => Context(x)' = Context(x)
  BY SameIsSeen
<1>2. QED  BY <1>1

(* The details of one key change. *)
LEMMA LeftExcept ==
  ASSUME NEW D \in [Tasks -> Details], NEW t \in Tasks, NEW e, NEW E, E = [D EXCEPT ![t] = e]
  PROVE  [x \in Tasks |-> TriggerLeft[E[x]]] = [[x \in Tasks |-> TriggerLeft[D[x]]] EXCEPT ![t] = TriggerLeft[e]]
OBVIOUS

LEMMA ScheduledKeeps ==
  ASSUME RunType, SchedType, Apart, NEW g \in Schedulers, NEW t \in Tasks, Scheduled(g, t), NEW h \in Schedulers
  PROVE  Apart' /\ KeepsTo(h)
<1>0. UNCHANGED run /\ sched[g].details \in [Tasks -> Details] /\ sched[g].closed \in BOOLEAN
  BY DEF Scheduled, SchedType, SchedulerState
<1>1. \A x \in RunIds : Same(x)
  BY <1>0, UnmovedIsSame
<1>2. [x \in RunIds |-> IF Live(x) /\ run[x].sched = g THEN Context(x) ELSE None]'
        = [x \in RunIds |-> IF Live(x) /\ run[x].sched = g THEN Context(x) ELSE None]
  BY <1>1, RunsStay
<1>3. \A r \in RunIds : Live(r)' => Live(r) /\ run'[r].task = run[r].task /\ run'[r].sched = run[r].sched
  BY <1>0 DEF Live
<1>4. ASSUME \A x \in Schedulers : x # g => sched'[x] = sched[x],
             \A x \in sched'[g].queue : x \in sched[g].queue \/ x \notin Running(g)
      PROVE  Apart' /\ (h # g => KeepsTo(h))
  <2>1. \A r \in RunIds : Live(r)' => Live(r) /\ run'[r] = run[r]
    BY <1>0 DEF Live
  <2>2. \A f \in Schedulers : \A x \in sched'[f].queue :
          x \in sched[f].queue \/ \A r \in RunIds : ~(Live(r)' /\ run'[r].sched = f /\ run'[r].task = x)
    BY <1>4, <2>1 DEF Running
  <2>3. Apart'
    BY <1>3, <2>2, ApartKept
  <2>4. QED  BY <1>1, <1>4, <2>3, Elsewhere DEF KeepsTo
<1>5. CASE sched' = Unscheduled(g, t)
  <2>1. Becomes(sched, sched', g, [sched[g].details EXCEPT ![t] = "none"], sched[g].queue \ {t}, sched[g].closed, sched[g].late)
    BY <1>5, UnscheduledBecomes
  <2>2. Apart' /\ (h # g => KeepsTo(h))
    BY <1>4, <2>1 DEF Becomes
  <2>3. [x \in Tasks |-> TriggerLeft[sched'[g].details[x]]] = [[x \in Tasks |-> TriggerLeft[sched[g].details[x]]] EXCEPT ![t] = TriggerLeft["none"]]
    BY <1>0, <2>1, LeftExcept DEF Becomes
  <2>4. TriggerLeft["none"] = None
    BY DEF TriggerLeft
  <2>5. Promise(g)!Unschedule(t)
    BY <1>2, <2>1, <2>3, <2>4 DEF Becomes, Promise!Unschedule, Promise!Forget
  <2>6. QED  BY <2>2, <2>5 DEF KeepsTo, Promise!Next
<1>6. ASSUME NEW d \in {"cron", "multi", "once"}, SchedulerSchedule(g, t, d)
      PROVE  Apart' /\ KeepsTo(h)
  <2>0. d \in Details
    BY DEF Details
  <2>1. TriggerLeft[d] \in Promise(g)!Trigger /\ TriggerLeft[Asked(d)] = Promise(g)!Asked(TriggerLeft[d]) /\ Promise(g)!MayActivate(TriggerLeft[d])
    BY <2>0, LeftIs
  <2>2. CASE t \in Running(g)
    <3>1. Becomes(sched, sched', g, [sched[g].details EXCEPT ![t] = d], sched[g].queue, sched[g].closed, sched[g].late)
      BY <1>6, <2>0, <2>2, ScheduleBecomes
    <3>2. Apart' /\ (h # g => KeepsTo(h))
      BY <1>4, <3>1 DEF Becomes
    <3>3. [x \in Tasks |-> TriggerLeft[sched'[g].details[x]]] = [[x \in Tasks |-> TriggerLeft[sched[g].details[x]]] EXCEPT ![t] = TriggerLeft[d]]
      BY <1>0, <3>1, LeftExcept DEF Becomes
    <3>4. Promise(g)!Schedule(t, TriggerLeft[d])
      BY <1>2, <2>2, <3>1, <3>3, IsRunningIs DEF Becomes, Promise!Schedule
    <3>5. QED  BY <2>1, <3>2, <3>4 DEF KeepsTo, Promise!Next
  <2>3. CASE t \notin Running(g)
    <3>1. Becomes(sched, sched', g, [sched[g].details EXCEPT ![t] = Asked(d)], sched[g].queue \cup {t}, sched[g].closed, sched[g].late)
      BY <1>6, <2>0, <2>3, ScheduleBecomes
    <3>2. Apart' /\ (h # g => KeepsTo(h))
      BY <1>4, <2>3, <3>1 DEF Becomes
    <3>3. [x \in Tasks |-> TriggerLeft[sched'[g].details[x]]] = [[x \in Tasks |-> TriggerLeft[sched[g].details[x]]] EXCEPT ![t] = TriggerLeft[Asked(d)]]
      BY <1>0, <3>1, LeftExcept DEF Becomes
    <3>4. Promise(g)!Enqueue(t, TriggerLeft[d])
      BY <2>1, <3>1, <3>3 DEF Becomes, Promise!Enqueue
    <3>5. Promise(g)!Schedule(t, TriggerLeft[d])
      BY <1>2, <2>1, <2>3, <3>1, <3>4, IsRunningIs DEF Becomes, Promise!Schedule
    <3>6. QED  BY <2>1, <3>2, <3>5 DEF KeepsTo, Promise!Next
  <2>4. QED  BY <2>2, <2>3
<1>7. QED  BY <1>5, <1>6 DEF Scheduled

(* A run of g starts, and its key leaves the queue. *)
LEMMA StartsKeeps ==
  ASSUME RunType, SchedType, Apart, NEW g \in Schedulers, NEW t \in Tasks, t \notin Running(g), FreeRuns # {},
         NEW w \in BOOLEAN, run' = Registered(g, t, w), NEW l \in BOOLEAN,
         Becomes(sched, sched', g, sched[g].details, sched[g].queue \ {t}, sched[g].closed, l)
  PROVE  /\ Apart' /\ \A h \in Schedulers : h # g => KeepsTo(h)
         /\ \E r \in RunIds : Promise(g)!NewRun(r, t, w)
         /\ [x \in Tasks |-> TriggerLeft[sched'[g].details[x]]] = [x \in Tasks |-> TriggerLeft[sched[g].details[x]]]
<1>1. PICK n \in RunIds :
           /\ run[n].pc = "free" /\ \A x \in RunIds : x # n => run'[x] = run[x]
           /\ run'[n].pc = "new" /\ run'[n].task = t /\ run'[n].sched = g /\ run'[n].window = w /\ run'[n].cause = "none"
  BY RegisteredIs
<1>2. ~Live(n) /\ Live(n)'
  BY <1>1 DEF Live
<1>3. \A x \in RunIds : x # n => Same(x)
  BY <1>1, UnmovedIsSame
<1>4. Apart'
  <2>1. t \notin sched'[g].queue /\ \A h \in Schedulers : sched'[h].queue \subseteq sched[h].queue
    BY DEF Becomes
  <2>2. QED  BY <1>1, <2>1, ApartStarts
<1>5. ASSUME NEW h \in Schedulers, h # g PROVE KeepsTo(h)
  <2>1. ~(Live(n) /\ run[n].sched = h) /\ ~(Live(n)' /\ run'[n].sched = h) /\ sched'[h] = sched[h]
    BY <1>1, <1>2, <1>5 DEF Becomes
  <2>2. QED  BY <1>3, <2>1, Elsewhere DEF KeepsTo
<1>6. Promise(g)!NewRun(n, t, w)
  <2>1. Context(n)' = [key |-> t, window |-> w, cause |-> "none", result |-> "none"]
    BY <1>1 DEF Context
  <2>2. \A x \in RunIds \ {n} : (Live(x)' /\ run'[x].sched = g <=> Live(x) /\ run[x].sched = g) /\ (Live(x) => Context(x)' = Context(x))
    BY <1>3, SameIsSeen
  <2>3. [x \in RunIds |-> IF Live(x) /\ run[x].sched = g THEN Context(x) ELSE None]'
          = [[x \in RunIds |-> IF Live(x) /\ run[x].sched = g THEN Context(x) ELSE None]
               EXCEPT ![n] = [key |-> t, window |-> w, cause |-> "none", result |-> "none"]]
    BY <1>1, <1>2, <2>1, <2>2
  <2>4. [x \in RunIds |-> IF Live(x) /\ run[x].sched = g THEN Context(x) ELSE None][n] = None
    BY <1>2
  <2>5. QED  BY <2>3, <2>4 DEF Promise!NewRun
<1>7. QED  BY <1>4, <1>5, <1>6 DEF Becomes

LEMMA TriggeredKeeps ==
  ASSUME RunType, SchedType, Apart, NEW g \in Schedulers, NEW t \in Tasks, Triggered(g, t), NEW h \in Schedulers
  PROVE  Apart' /\ KeepsTo(h)
<1>1. /\ t \notin Running(g) /\ sched[g].details[t] # "none" /\ FreeRuns # {}
      /\ sched' = Dequeued(sched, g, t) /\ run' = Registered(g, t, FALSE)
      /\ sched[g].details[t] \in Details /\ sched[g].late \in BOOLEAN
  BY DEF Triggered, SchedType, SchedulerState
<1>2. Becomes(sched, sched', g, sched[g].details, sched[g].queue \ {t}, sched[g].closed, sched[g].late)
  BY <1>1, DequeuedBecomes DEF SchedType
<1>3. /\ Apart' /\ \A x \in Schedulers : x # g => KeepsTo(x)
      /\ \E r \in RunIds : Promise(g)!NewRun(r, t, FALSE)
      /\ [x \in Tasks |-> TriggerLeft[sched'[g].details[x]]] = [x \in Tasks |-> TriggerLeft[sched[g].details[x]]]
  BY <1>1, <1>2, StartsKeeps
<1>4. [x \in Tasks |-> TriggerLeft[sched[g].details[x]]][t] # None
  BY <1>1, LeftIs
<1>5. ~Promise(g)!IsRunning(t)
  BY <1>1, IsRunningIs
<1>6. \E r \in RunIds : Promise(g)!TriggerRuns(t, r)
  BY <1>2, <1>3, <1>4, <1>5 DEF Becomes, Promise!TriggerRuns
<1>7. Promise(g)!Next
  BY <1>6 DEF Promise!Next
<1>8. QED  BY <1>3, <1>7 DEF KeepsTo

LEMMA ActivateKeeps ==
  ASSUME RunType, SchedType, Apart, NEW g \in Schedulers, NEW t \in Tasks, Activate(g, t), NEW h \in Schedulers
  PROVE  Apart' /\ KeepsTo(h)
<1>0. PICK w \in BOOLEAN : w = (t \in Windowed)
  BY Flag
<1>1. /\ t \in sched[g].queue /\ FreeRuns # {} /\ (sched[g].closed => sched[g].late)
      /\ sched' = [Dequeued(sched, g, t) EXCEPT ![g].late = FALSE] /\ run' = Registered(g, t, w)
  BY <1>0 DEF Activate
<1>2. t \notin Running(g)
  BY <1>1, QueuedApart
<1>3. Becomes(sched, sched', g, sched[g].details, sched[g].queue \ {t}, sched[g].closed, FALSE)
  BY <1>1, DequeuedBecomes DEF SchedType
<1>4. /\ Apart' /\ \A x \in Schedulers : x # g => KeepsTo(x)
      /\ \E r \in RunIds : Promise(g)!NewRun(r, t, w)
      /\ [x \in Tasks |-> TriggerLeft[sched'[g].details[x]]] = [x \in Tasks |-> TriggerLeft[sched[g].details[x]]]
  BY <1>1, <1>2, <1>3, StartsKeeps
<1>5. ~Promise(g)!IsRunning(t)
  BY <1>2, IsRunningIs
<1>6. \E r \in RunIds : Promise(g)!Activate(t, r)
  BY <1>1, <1>3, <1>4, <1>5 DEF Becomes, Promise!Activate
<1>7. Promise(g)!Next
  BY <1>6 DEF Promise!Next
<1>8. QED  BY <1>4, <1>7 DEF KeepsTo

LEMMA RescheduledKeeps ==
  ASSUME RunType, SchedType, Apart, NEW r \in RunIds, Reschedule(r), NEW h \in Schedulers
  PROVE  Apart' /\ KeepsTo(h)
<1>0. run[r].pc = "ended" /\ run' = [run EXCEPT ![r] = [FreeRun EXCEPT !.pc = "done"]]
  BY DEF Reschedule
<1>1. Live(r) /\ run[r].task \in Tasks /\ run[r].sched \in Schedulers
  BY <1>0, RunRecord DEF Live
<1>2. PICK g \in Schedulers : g = run[r].sched
  BY <1>1
<1>3. PICK t \in Tasks : t = run[r].task
  BY <1>1
<1>4. PICK d \in Details : d = sched[g].details[t]
  BY DEF SchedType, SchedulerState
<1>5. ~Live(r)' /\ \A x \in RunIds : x # r => run'[x] = run[x]
  BY <1>0 DEF Live, FreeRun, RunType
<1>6. On(r, g)
  BY <1>1, <1>2 DEF On
<1>7. Context(r) # None /\ Context(r).key = t /\ Context(r).cause = run[r].cause
      /\ Context(r).result = IF run[r].err THEN "failed" ELSE "done"
  BY <1>0, <1>3, <1>6, ContextIs
<1>8. \A x \in RunIds : x # r => Same(x)
  BY <1>5, UnmovedIsSame
<1>9. \A x \in RunIds : Live(x)' => x # r /\ Live(x) /\ run'[x].task = run[x].task /\ run'[x].sched = run[x].sched
  BY <1>5 DEF Live
<1>10. \A x \in RunIds : ~(Live(x)' /\ run'[x].sched = g /\ run'[x].task = t)
  BY <1>1, <1>2, <1>3, <1>9 DEF Apart
<1>11. ASSUME \A x \in Schedulers : x # g => sched'[x] = sched[x],
              \A x \in sched'[g].queue : x \in sched[g].queue \/ x = t
       PROVE  Apart' /\ (h # g => KeepsTo(h))
  <2>1. \A f \in Schedulers : \A x \in sched'[f].queue :
          x \in sched[f].queue \/ \A q \in RunIds : ~(Live(q)' /\ run'[q].sched = f /\ run'[q].task = x)
    BY <1>10, <1>11
  <2>2. Apart'
    BY <1>9, <2>1, ApartKept
  <2>3. h # g => ~(Live(r) /\ run[r].sched = h) /\ ~(Live(r)' /\ run'[r].sched = h)
    BY <1>2, <1>5
  <2>4. QED  BY <1>8, <1>11, <2>2, <2>3, Elsewhere DEF KeepsTo
<1> DEFINE R == [x \in RunIds |-> IF Live(x) /\ run[x].sched = g THEN Context(x) ELSE None]
           D == [x \in Tasks |-> TriggerLeft[sched[g].details[x]]]
<1>12. R' = [R EXCEPT ![r] = None] /\ R[r] = Context(r)
  <2>1. \A x \in RunIds \ {r} : (Live(x)' /\ run'[x].sched = g <=> Live(x) /\ run[x].sched = g) /\ (Live(x) => Context(x)' = Context(x))
    BY <1>8, SameIsSeen
  <2>2. QED  BY <1>5, <1>6, <2>1 DEF On
<1>13. D[t] = TriggerLeft[d]
  BY <1>4
<1>14. sched[g].details \in [Tasks -> Details] /\ TriggerLeft["none"] = None
  BY DEF SchedType, SchedulerState, TriggerLeft
<1>15. PICK e : e = TriggerLeft[d]
  OBVIOUS
<1>16. CASE sched[g].closed \/ d = "none"
  <2>1. UNCHANGED sched
    BY <1>2, <1>3, <1>4, <1>16 DEF Reschedule
  <2>2. sched[g].closed \/ e = None
    BY <1>14, <1>15, <1>16
  <2>3. Promise(g)!End(r)
    BY <1>7, <1>12, <1>13, <1>15, <2>1, <2>2 DEF Promise!End
  <2>4. QED  BY <1>11, <2>1, <2>3 DEF KeepsTo, Promise!Next
<1>17. CASE ~sched[g].closed /\ d # "none"
  <2>0. e # None /\ e \in Promise(g)!Trigger /\ TriggerLeft[Asked(d)] = Promise(g)!Asked(e)
        /\ (d \in {"cron", "multi", "once"} => Promise(g)!MayActivate(e)) /\ (d = "fired" => Promise(g)!MayExpire(e))
    BY <1>15, <1>17, LeftIs
  <2>1. \/ /\ d = "fired" => run[r].cause = "window" \/ (run[r].err /\ run[r].cause # "stopped")
           /\ sched' = Queued(sched, g, t)
        \/ d = "fired" /\ run[r].cause # "window" /\ sched' = Unscheduled(g, t)
    BY <1>2, <1>3, <1>4, <1>17 DEF Reschedule
  <2>2. CASE /\ d = "fired" => run[r].cause = "window" \/ (run[r].err /\ run[r].cause # "stopped")
             /\ sched' = Queued(sched, g, t)
    <3>1. Becomes(sched, sched', g, [sched[g].details EXCEPT ![t] = Asked(d)], sched[g].queue \cup {t}, sched[g].closed, sched[g].late)
      BY <1>4, <2>2, QueuedBecomes DEF SchedType
    <3>2. Apart' /\ (h # g => KeepsTo(h))
      BY <1>11, <3>1 DEF Becomes
    <3>3. D' = [D EXCEPT ![t] = Promise(g)!Asked(e)]
      BY <1>14, <2>0, <3>1, LeftExcept DEF Becomes
    <3>4. Promise(g)!Continues(r) \/ Promise(g)!MayRetry(r) \/ Promise(g)!MayActivate(e)
      <4>1. CASE d = "fired"
        BY <1>7, <1>12, <2>2, <4>1 DEF Promise!Continues, Promise!MayRetry
      <4>2. CASE d # "fired"
        BY <1>17, <2>0, <4>2 DEF Details
      <4>3. QED  BY <4>1, <4>2
    <3>5. Promise(g)!End(r)
      BY <1>7, <1>12, <1>13, <1>15, <1>17, <2>0, <3>1, <3>3, <3>4
      DEF Becomes, Promise!End, Promise!Enqueue, Promise!MayActivate, Promise!Asked
    <3>6. QED  BY <3>2, <3>5 DEF KeepsTo, Promise!Next
  <2>3. CASE d = "fired" /\ run[r].cause # "window" /\ sched' = Unscheduled(g, t)
    <3>1. Becomes(sched, sched', g, [sched[g].details EXCEPT ![t] = "none"], sched[g].queue \ {t}, sched[g].closed, sched[g].late)
      BY <2>3, UnscheduledBecomes
    <3>2. Apart' /\ (h # g => KeepsTo(h))
      BY <1>11, <3>1 DEF Becomes
    <3>3. D' = [D EXCEPT ![t] = None]
      BY <1>14, <3>1, LeftExcept DEF Becomes
    <3>4. ~Promise(g)!Continues(r) /\ Promise(g)!MayExpire(e)
      BY <1>7, <1>12, <2>0, <2>3 DEF Promise!Continues
    <3>5. Promise(g)!End(r)
      BY <1>7, <1>12, <1>13, <1>15, <1>17, <2>0, <3>1, <3>3, <3>4
      DEF Becomes, Promise!End, Promise!Forget, Promise!MayExpire
    <3>6. QED  BY <3>2, <3>5 DEF KeepsTo, Promise!Next
  <2>4. QED  BY <2>1, <2>2, <2>3
<1>18. QED  BY <1>16, <1>17

LEMMA PromisesStep ==
  ASSUME Types_, Types_', Apart, Next PROVE Apart' /\ \A h \in Schedulers : KeepsTo(h)
<1> USE DEF Types_
<1>1. SUFFICES ASSUME NEW h \in Schedulers PROVE Apart' /\ KeepsTo(h)
  BY TaskServiceAssumption DEF Schedulers
<1>2. CASE Unmoved
  <2>1. Apart'
    <3>1. \A r \in RunIds : Live(r)' => Live(r) /\ run'[r].task = run[r].task /\ run'[r].sched = run[r].sched
      BY <1>2 DEF Unmoved, Same
    <3>2. QED  BY <1>2, <3>1, ApartKept DEF Unmoved
  <2>2. QED  BY <1>2, <2>1, Elsewhere DEF Unmoved, KeepsTo
<1>3. CASE Lost
  <2>1. state' = "down" /\ \A r \in RunIds : ~Live(r)'
    BY <1>3 DEF Lost, Live, FreeRun
  <2>2. QED  BY <2>1 DEF Apart, KeepsTo
<1>4. ASSUME NEW g \in Schedulers, NEW t \in Tasks, Activate(g, t) \/ Triggered(g, t) \/ Scheduled(g, t) \/ Stopped(g, t)
      PROVE  Apart' /\ KeepsTo(h)
  BY <1>4, ActivateKeeps, TriggeredKeeps, ScheduledKeeps, StoppedKeeps
<1>5. ASSUME NEW g \in Schedulers, Closes(g) PROVE Apart' /\ KeepsTo(h)
  BY <1>5, ClosesKeeps
<1>6. ASSUME NEW r \in RunIds,
             WindowEnds(r) \/ Reschedule(r) \/ (Ends(r) /\ UNCHANGED sched /\ \A x \in RunIds : x # r => run'[x] = run[x])
      PROVE  Apart' /\ KeepsTo(h)
  BY <1>6, WindowEndsKeeps, RescheduledKeeps, EndsKeeps
<1>7. QED  BY PromiseKinds, <1>2, <1>3, <1>4, <1>5, <1>6 DEF Kind

LEMMA PromisesInit == Init => Apart /\ \A g \in Schedulers : Promise(g)!Init
<1> SUFFICES ASSUME Init PROVE Apart /\ \A g \in Schedulers : Promise(g)!Init
  OBVIOUS
<1>1. \A r \in RunIds : ~Live(r)
  BY DEF Init, Live, FreeRun
<1>2. ASSUME NEW g \in Schedulers PROVE Promise(g)!Init
  <2>1. /\ sched[g].queue = {} /\ sched[g].closed = FALSE /\ sched[g].late = FALSE
        /\ \A t \in Tasks : sched[g].details[t] = "none"
    BY DEF Init, NewScheduler
  <2>2. TriggerLeft["none"] = None
    BY DEF TriggerLeft
  <2>3. QED  BY <1>1, <2>1, <2>2 DEF Promise!Init
<1>3. QED  BY <1>1, <1>2 DEF Apart

(* THEOREM: the schedulers keep the promise of pkg/scheduler, whatever the *)
(* calls of the service do with the ones that suspend closed.              *)
THEOREM SchedulersKeepPromiseCorrect == Spec => SchedulersKeepPromise
<1>1. Init => Apart /\ PromisesBegin
  BY PromisesInit DEF PromisesBegin
<1>2. Types_ /\ Types_' /\ Apart /\ [Next]_vars => Apart' /\ [PromisesGoOn]_vars
  <2>1. CASE Next
    BY <2>1, PromisesStep DEF PromisesGoOn, KeepsTo
  <2>2. CASE UNCHANGED vars
    <3>1. UNCHANGED <<sched, run>>
      BY <2>2 DEF vars
    <3>2. QED  BY <2>2, <3>1 DEF Apart, Live
  <2>3. QED  BY <2>1, <2>2
<1>3. QED  BY <1>1, <1>2, TypesCorrect, PTL DEF Spec, SchedulersKeepPromise
=============================================================================
