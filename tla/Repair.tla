------------------------------- MODULE Repair -------------------------------
(***************************************************************************)
(* The repair task of pkg/service/repair: Service.Repair with its          *)
(* generator, table generator, controller, worker pool and progress        *)
(* manager, over several runs of one task that stop, fail or crash and are *)
(* continued by the next one.                                              *)
(*                                                                         *)
(* The generator walks over the tables of the plan; for each it hands jobs *)
(* (some ranges of one replica set) to the workers as far as the           *)
(* controller allows, and takes their results.  Workers record the ranges  *)
(* of successful jobs in the database, which is where the next run goes    *)
(* on.                                                                     *)
(*                                                                         *)
(* The channels of the pool are the stages of a job: their order is        *)
(* dropped, several workers mix it up anyway.  Workers have no identity.   *)
(* Batching of ranges and the intensity only decide how many ranges a job  *)
(* gets: any number of Intensities.  The counters of RunProgress, which    *)
(* are displayed only, are left out.                                       *)
(***************************************************************************)
EXTENDS Integers, Sequences, FiniteSets

CONSTANTS
  Tables,           \* the tables of the plan, in their order
  Tablet,           \* those of tablet keyspaces
  SmallSets,        \* sets of small tables that a plan may find
  Nodes,
  ReplicaSets,
  Replicas,         \* [ReplicaSets -> SUBSET Nodes], what filterReplicaSet leaves
  RangesOf,         \* [ReplicaSets -> sets of token ranges], numbered in token order
  Intensities,      \* numbers of ranges a normal job may get
  Parallels,        \* values of --parallel, 0 is the default
  Controls,         \* values given to SetParallel
  MaxParallel,      \* plan.MaxParallel
  FailFasts,        \* values of --fail-fast
  Continues,        \* FALSE for runs that start from scratch: by --continue, by age,
                    \* or because the previous run could not be queried
  MayDelete,        \* tables that may be dropped meanwhile
  MaxRuns,
  MaxCompleted,     \* bound on completed runs
  MaxEvents         \* bound on what disturbs the runs

Ranges == UNION {RangesOf[rs] : rs \in ReplicaSets}
RunIds == 1..MaxRuns
TableSet == {Tables[i] : i \in DOMAIN Tables}

ASSUME RepairAssumption ==
  /\ Tables \in Seq(TableSet)
  /\ Replicas \in [ReplicaSets -> SUBSET Nodes]
  /\ Ranges \subseteq Nat
  /\ \A a, b \in ReplicaSets : a # b => RangesOf[a] \cap RangesOf[b] = {}
  /\ Intensities \subseteq Nat \ {0}
  /\ Parallels \cup Controls \subseteq Nat
  /\ MaxParallel \in Nat \ {0}
  /\ MaxRuns \in Nat

VARIABLES
  rows,        \* tables repair_run, repair_run_progress and repair_run_state, per run
  mem,         \* state of the progress manager of each run
  cur,         \* the last run started
  pc,          \* of Service.Repair and generator.Run
  target,      \* Target.FailFast, and the small tables of the plan
  tg,          \* the tableGenerator, and the index of its table
  err,         \* an error of a job or of the generator
  stop, grace, \* generator's stop; the goroutine that ends the run gracefully
  ctx,         \* the context given by the scheduler is cancelled
  jobs,        \* jobs submitted and not processed
  jobsCnt, nodeJobs,           \* controller
  parallel, size, idle, kills, \* intensity handler; the pool, its idle workers, kill tokens
  deleted,     \* tables dropped
  since,       \* history: the first of the runs that a run continues
  repaired,    \* history: ranges repaired by a run and those that continue it
  scratch,     \* history: runs that were to start from scratch
  leaked,      \* history: a worker outlived its run
  events       \* failures, crashes, stops, calls and dropped tables so far

database == <<rows, deleted>>
history == <<repaired, since, scratch, leaked>>
controller == <<jobsCnt, nodeJobs>>
pool == <<parallel, size, idle, kills>>
vars == <<database, mem, cur, pc, target, tg, err, stop, grace, ctx, jobs,
          controller, pool, history, events>>

NoRanges == [t \in TableSet |-> {}]
NoRow == [put |-> FALSE, parallel |-> 0, initialized |-> FALSE, ended |-> FALSE, state |-> NoRanges]
NoTarget == [failFast |-> FALSE, small |-> {}]
NoTable == [i |-> 1, todo |-> {}, type |-> "normal"]

Init ==
  /\ rows = [r \in RunIds |-> NoRow] /\ deleted = {}
  /\ mem = [r \in RunIds |-> NoRanges]
  /\ cur = 0 /\ pc = "idle"
  /\ target = NoTarget
  /\ tg = NoTable /\ err = FALSE /\ stop = FALSE /\ grace = "none" /\ ctx = "live"
  /\ jobs = {} /\ jobsCnt = 0 /\ nodeJobs = [n \in Nodes |-> 0]
  /\ parallel = 0 /\ size = 0 /\ idle = 0 /\ kills = 0
  /\ repaired = [r \in RunIds |-> NoRanges]
  /\ since = [r \in RunIds |-> r] /\ scratch = {} /\ leaked = FALSE
  /\ events = 0

(* A statement or call fails, or something else disturbs the run. *)
Fault == events < MaxEvents /\ events' = events + 1

-----------------------------------------------------------------------------
(* Service.Repair up to the generator. *)

(* putRun, newPlan *)
Start ==
  /\ pc = "idle" /\ cur < MaxRuns
  /\ Cardinality({r \in RunIds : rows[r].ended}) < MaxCompleted
  /\ cur' = cur + 1
  /\ \E p \in Parallels : rows' = [rows EXCEPT ![cur + 1].put = TRUE, ![cur + 1].parallel = p]
  /\ \E f \in FailFasts, s \in SmallSets : target' = [failFast |-> f, small |-> s]
  /\ pc' = "plan"
  /\ UNCHANGED <<deleted, mem, tg, err, stop, grace, ctx, jobs, controller, pool, history, events>>

(* A plausible bug: the newest run is taken, initialized or not. *)
NewestRun ==
  LET known == {r \in 1..(cur - 1) : rows[r].put}
      prev == CHOOSE r \in known : \A x \in known : x <= r
  IN IF known = {} \/ rows[prev].ended THEN 0 ELSE prev

(* The newest run with rows of progress, unless that one was completed. *)
GetPrevRun ==
  LET known == {r \in 1..(cur - 1) : rows[r].initialized}
      prev == CHOOSE r \in known : \A x \in known : x <= r
  IN IF known = {} \/ rows[prev].ended THEN 0 ELSE prev

(* The state of the run is written before its progress.  A continued run   *)
(* keeps the parallel that was set.                                        *)
InitState ==
  /\ pc = "plan"
  /\ \E continue \in Continues :
       LET prev == IF continue THEN GetPrevRun ELSE 0
           state == IF prev = 0 THEN NoRanges ELSE rows[prev].state
       IN /\ mem' = [mem EXCEPT ![cur] = state]
          /\ rows' = [rows EXCEPT ![cur].state = state,
                                  ![cur].parallel = IF prev = 0 THEN @ ELSE rows[prev].parallel]
          /\ since' = [since EXCEPT ![cur] = IF prev = 0 THEN cur ELSE since[prev]]
          /\ scratch' = IF continue THEN scratch ELSE scratch \cup {cur}
  /\ pc' = "state"
  /\ UNCHANGED <<deleted, cur, target, tg, err, stop, grace, ctx, jobs, controller, pool,
                 repaired, leaked, events>>

InitProgress ==
  /\ pc = "state"
  /\ rows' = [rows EXCEPT ![cur].initialized = TRUE]
  /\ pc' = "progress"
  /\ UNCHANGED <<deleted, mem, cur, target, tg, err, stop, grace, ctx, jobs, controller, pool,
                 history, events>>

(* One of the steps before the generator fails, perhaps for the cancelled  *)
(* context, which the statements of pm.Init do not use; InitProgress may   *)
(* have written some rows by then.                                         *)
SetupFails ==
  /\ pc \in {"plan", "state", "progress"}
  /\ Fault \/ (ctx = "cancelled" /\ pc # "state" /\ UNCHANGED events)
  /\ \E b \in BOOLEAN : rows' = [rows EXCEPT ![cur].initialized = @ \/ (b /\ pc = "state")]
  /\ mem' = [mem EXCEPT ![cur] = NoRanges]
  /\ pc' = "idle" /\ target' = NoTarget /\ ctx' = "live"
  /\ UNCHANGED <<deleted, cur, tg, err, stop, grace, jobs, controller, pool,
                 history>>

PoolSize(p) == IF p = 0 THEN MaxParallel ELSE p

(* The pool, the intensity handler, the generator and its controller. *)
Setup ==
  /\ pc = "progress"
  /\ parallel' = rows[cur].parallel
  /\ size' = PoolSize(parallel') /\ idle' = size' /\ kills' = 0
  /\ jobsCnt' = 0 /\ nodeJobs' = [n \in Nodes |-> 0]
  /\ tg' = NoTable /\ err' = FALSE /\ stop' = FALSE /\ grace' = "none"
  /\ pc' = "tables"
  /\ UNCHANGED <<database, mem, cur, target, ctx, jobs, history, events>>

-----------------------------------------------------------------------------
(* generator.Run and tableGenerator.Run. *)

Running == pc \in {"tables", "generate", "wait", "closing"}

Planned(t) == UNION {RangesOf[rs] : rs \in {x \in ReplicaSets : Replicas[x] # {}}}

(* newTableGenerator: a tablet table that was not finished is repaired     *)
(* from scratch.                                                           *)
TodoRanges(t) ==
  IF t \notin Tablet \/ Cardinality(mem[cur][t]) = Cardinality(Planned(t))
  THEN Ranges \ mem[cur][t] ELSE Ranges

NewJobType(t) == IF t \in Tablet THEN "tablet" ELSE IF t \in target.small THEN "small" ELSE "normal"

NextTable ==
  /\ pc = "tables" /\ ~stop /\ tg.i \in DOMAIN Tables
  /\ LET t == Tables[tg.i] IN
     \/ /\ TodoRanges(t) = {}
        /\ tg' = [tg EXCEPT !.i = @ + 1]
        /\ UNCHANGED pc
     \/ /\ TodoRanges(t) # {}
        /\ tg' = [i |-> tg.i, todo |-> TodoRanges(t), type |-> NewJobType(t)]
        /\ pc' = "generate"
  /\ UNCHANGED <<database, mem, cur, target, err, stop, grace, ctx, jobs, controller, pool,
                 history, events>>

DescribeFails ==
  /\ pc = "tables" /\ ~stop /\ tg.i \in DOMAIN Tables /\ Fault
  /\ err' = TRUE /\ pc' = "closing"
  /\ UNCHANGED <<database, mem, cur, target, tg, stop, grace, ctx, jobs, controller, pool, history>>

(* The generator returned, the pool is closed. *)
Close ==
  /\ pc = "tables" /\ (stop \/ tg.i \notin DOMAIN Tables)
  /\ pc' = "closing"
  /\ UNCHANGED <<database, mem, cur, target, tg, err, stop, grace, ctx, jobs, controller, pool,
                 history, events>>

shouldGenerate == ~stop /\ tg.todo # {}
Busy == jobsCnt > 0
shouldExit == ~Busy /\ ~shouldGenerate

(* A plausible bug: only the number of jobs is limited. *)
BlockParallelOnly(ns) == jobsCnt < PoolSize(parallel)

(* At most one job on a node, at most parallel jobs. *)
shouldBlock(ns) ==
  /\ \A n \in ns : nodeJobs[n] = 0
  /\ jobsCnt < PoolSize(parallel)

block(ns) ==
  /\ jobsCnt' = jobsCnt + 1
  /\ nodeJobs' = [n \in Nodes |-> IF n \in ns THEN nodeJobs[n] + 1 ELSE nodeJobs[n]]
Unblock(ns) ==
  /\ jobsCnt' = jobsCnt - 1
  /\ nodeJobs' = [n \in Nodes |-> IF n \in ns THEN nodeJobs[n] - 1 ELSE nodeJobs[n]]

getRangesToRepair(rs, intensity) ==
  LET own == RangesOf[rs] \cap tg.todo
  IN IF tg.type # "normal" THEN own
     ELSE {x \in own : Cardinality({y \in own : y <= x}) <= intensity}

(* newJob takes a replica set that has ranges to repair and may be         *)
(* blocked; the ring comes out of a Go map, so any of them may be first.   *)
(* The ranges of replica sets that are filtered out are dropped on the way *)
(* and at the latest when no job is found.                                 *)
CanTake(rs) ==
  /\ Replicas[rs] # {} /\ RangesOf[rs] \cap tg.todo # {}
  /\ shouldBlock(Replicas[rs])
FilteredOut == UNION {RangesOf[rs] : rs \in {x \in ReplicaSets : Replicas[x] = {}}}

Generate ==
  /\ pc = "generate" /\ shouldGenerate
  /\ \E rs \in ReplicaSets, i \in Intensities :
       LET ranges == getRangesToRepair(rs, i)
       IN /\ CanTake(rs)
          /\ block(Replicas[rs])
          /\ jobs' = jobs \cup {[run |-> cur, table |-> Tables[tg.i], nodes |-> Replicas[rs],
                                 ranges |-> ranges, type |-> tg.type, stage |-> "queued", err |-> "nil"]}
          /\ tg' = [tg EXCEPT !.todo = @ \ ranges,
                              !.type = IF @ \in {"small", "tablet"} THEN "skip" ELSE @]
  /\ UNCHANGED <<database, mem, cur, pc, target, err, stop, grace, ctx, pool, history, events>>

GenerateNoMore ==
  /\ pc = "generate"
  /\ shouldGenerate => \A rs \in ReplicaSets : ~CanTake(rs)
  /\ tg' = [tg EXCEPT !.todo = IF stop THEN @ ELSE @ \ FilteredOut]
  /\ pc' = "wait"
  /\ UNCHANGED <<database, mem, cur, target, err, stop, grace, ctx, jobs, controller, pool,
                 history, events>>

(* Plausible bugs: a failed job leaves its nodes blocked; the nodes of a   *)
(* job of a dropped table are unblocked twice.                             *)
ProcessResultBlocked(j) ==
  /\ pc = "wait" /\ ~shouldExit /\ j.stage = "result"
  /\ jobs' = jobs \ {j}
  /\ IF j.err = "error" THEN UNCHANGED controller ELSE Unblock(j.nodes)
  /\ err' = (err \/ j.err = "error")
  /\ stop' = (stop \/ (j.err = "error" /\ target.failFast))
  /\ tg' = IF j.err = "deleted" THEN [tg EXCEPT !.type = "skip"] ELSE tg
  /\ pc' = "generate"
  /\ UNCHANGED <<database, mem, cur, target, grace, ctx, pool, history, events>>
ProcessResultTwice(j) ==
  /\ pc = "wait" /\ ~shouldExit /\ j.stage = "result"
  /\ jobs' = jobs \ {j}
  /\ jobsCnt' = jobsCnt - (IF j.err = "deleted" THEN 2 ELSE 1)
  /\ nodeJobs' = [n \in Nodes |-> IF n \in j.nodes THEN 0 ELSE nodeJobs[n]]
  /\ err' = (err \/ j.err = "error")
  /\ stop' = (stop \/ (j.err = "error" /\ target.failFast))
  /\ tg' = IF j.err = "deleted" THEN [tg EXCEPT !.type = "skip"] ELSE tg
  /\ pc' = "generate"
  /\ UNCHANGED <<database, mem, cur, target, grace, ctx, pool, history, events>>

(* processResult; the context it is given carries no cause of the          *)
(* scheduler, its early return is never taken.                             *)
ProcessResult(j) ==
  /\ pc = "wait" /\ ~shouldExit /\ j.stage = "result"
  /\ jobs' = jobs \ {j}
  /\ Unblock(j.nodes)
  /\ err' = (err \/ j.err = "error")
  /\ stop' = (stop \/ (j.err = "error" /\ target.failFast))
  /\ tg' = IF j.err = "deleted" THEN [tg EXCEPT !.type = "skip"] ELSE tg
  /\ pc' = "generate"
  /\ UNCHANGED <<database, mem, cur, target, grace, ctx, pool, history, events>>

TableDone ==
  /\ pc = "wait" /\ (shouldExit \/ grace = "over")
  /\ tg' = [NoTable EXCEPT !.i = tg.i + 1]
  /\ pc' = "tables"
  /\ UNCHANGED <<database, mem, cur, target, err, stop, grace, ctx, jobs, controller, pool,
                 history, events>>

-----------------------------------------------------------------------------
(* Workers. *)

Mine(j) == Running /\ j.run = cur
Moved(j, k) == jobs' = (jobs \ {j}) \cup {k}

Take(j) ==
  /\ Mine(j) /\ j.stage = "queued" /\ idle > 0
  /\ idle' = idle - 1
  /\ Moved(j, [j EXCEPT !.stage = "handled"])
  /\ UNCHANGED <<database, mem, cur, pc, target, tg, err, stop, grace, ctx, controller,
                 parallel, size, kills, history, events>>

(* runRepair: a small table and a tablet table are repaired as a whole by  *)
(* one call; the jobs that follow it repair nothing.                       *)
Effect(j) == IF j.type = "normal" THEN j.ranges ELSE Ranges
RepairOk(j) ==
  /\ j.stage = "handled" /\ (j.type = "skip" \/ j.table \notin deleted)
  /\ Moved(j, [j EXCEPT !.stage = "answered"])
  /\ repaired' = IF j.type = "skip" THEN repaired
                 ELSE [repaired EXCEPT ![since[j.run]][j.table] = @ \cup Effect(j)]
  /\ UNCHANGED <<database, mem, cur, pc, target, tg, err, stop, grace, ctx, controller, pool,
                 since, scratch, leaked, events>>
RepairFails(j) ==
  /\ j.stage = "handled" /\ j.type # "skip"
  /\ \/ /\ j.table \in deleted /\ UNCHANGED events
        /\ Moved(j, [j EXCEPT !.stage = "answered", !.err = "deleted"])
     \/ /\ IF grace = "over" \/ ~Mine(j) THEN UNCHANGED events ELSE Fault
        /\ Moved(j, [j EXCEPT !.stage = "answered", !.err = "error"])
  /\ UNCHANGED <<database, mem, cur, pc, target, tg, err, stop, grace, ctx, controller, pool, history>>

(* A plausible bug: the ranges of failed jobs are recorded too. *)
RecordedAll(j) == [mem EXCEPT ![j.run][j.table] = @ \cup j.ranges]

(* onJobEndState *)
Recorded(j) == IF j.err = "error" THEN mem ELSE [mem EXCEPT ![j.run][j.table] = @ \cup j.ranges]

(* OnJobEnd, which only logs an error of its insert; then the worker sends *)
(* the result and is idle again.                                           *)
OnJobEnd(j) ==
  /\ j.stage = "answered"
  /\ mem' = Recorded(j)
  /\ \/ /\ rows' = [rows EXCEPT ![j.run].state = mem'[j.run]]
        /\ UNCHANGED events
     \/ Fault /\ UNCHANGED rows
  /\ IF Mine(j) THEN Moved(j, [j EXCEPT !.stage = "result"]) /\ idle' = idle + 1
                ELSE jobs' = jobs \ {j} /\ UNCHANGED idle
  /\ UNCHANGED <<deleted, cur, pc, target, tg, err, stop, grace, ctx, controller,
                 parallel, size, kills, history>>

(* A worker takes a kill token.  That idle workers return when the pool is *)
(* closed or its context cancelled is part of Finish: until then they may  *)
(* as well take the jobs that are left, as select does.                    *)
WorkerExits ==
  /\ Running /\ idle > 0 /\ kills > 0
  /\ kills' = kills - 1 /\ idle' = idle - 1
  /\ UNCHANGED <<database, mem, cur, pc, target, tg, err, stop, grace, ctx, jobs, controller,
                 parallel, size, history, events>>

(* Service.SetParallel: new limit of the controller, then SetSize. *)
SetParallel(p) ==
  /\ Running /\ Fault
  /\ parallel' = p /\ rows' = [rows EXCEPT ![cur].parallel = p]
  /\ IF pc = "closing" THEN UNCHANGED <<size, idle, kills>>
     ELSE /\ size' = PoolSize(p)
          /\ kills' = kills + (IF size > PoolSize(p) THEN size - PoolSize(p) ELSE 0)
          /\ idle' = idle + (IF size < PoolSize(p) THEN PoolSize(p) - size ELSE 0)
  /\ UNCHANGED <<deleted, mem, cur, pc, target, tg, err, stop, grace, ctx, jobs, controller,
                 history>>

-----------------------------------------------------------------------------
(* The end of a run. *)

(* The scheduler stops the run, or its window ends. *)
Cancel ==
  /\ pc # "idle" /\ ctx = "live" /\ Fault
  /\ ctx' = "cancelled"
  /\ UNCHANGED <<database, mem, cur, pc, target, tg, err, stop, grace, jobs, controller, pool,
                 history>>

StopGenerating ==
  /\ Running /\ ctx = "cancelled" /\ grace = "none"
  /\ stop' = TRUE /\ grace' = "on"
  /\ UNCHANGED <<database, mem, cur, pc, target, tg, err, ctx, jobs, controller, pool,
                 history, events>>

(* GracefulStopTimeout *)
GracefulStopTimeout ==
  /\ Running /\ grace = "on"
  /\ grace' = "over"
  /\ UNCHANGED <<database, mem, cur, pc, target, tg, err, stop, ctx, jobs, controller, pool,
                 history, events>>

AtWork(j) == j.stage \in {"handled", "answered"}

(* workersCleanup waits for the workers, not for long once the graceful    *)
(* period is over; EndTime is set when nothing failed or was cancelled.    *)
Finish ==
  /\ pc = "closing"
  /\ grace = "over" \/ ~\E j \in jobs : j.run = cur /\ AtWork(j)
  /\ \/ rows' = [rows EXCEPT ![cur].ended = (~err /\ ctx = "live")] /\ UNCHANGED events
     \/ ~err /\ ctx = "live" /\ Fault /\ UNCHANGED rows
  /\ leaked' = (leaked \/ \E j \in jobs : AtWork(j))
  /\ jobs' = {j \in jobs : AtWork(j)}
  /\ mem' = IF \E j \in jobs' : j.run = cur THEN mem ELSE [mem EXCEPT ![cur] = NoRanges]
  /\ pc' = "idle" /\ target' = NoTarget /\ ctx' = "live" /\ idle' = 0 /\ size' = 0 /\ kills' = 0 /\ parallel' = 0
  /\ tg' = NoTable /\ err' = FALSE /\ stop' = FALSE /\ grace' = "none"
  /\ jobsCnt' = 0 /\ nodeJobs' = [n \in Nodes |-> 0]
  /\ UNCHANGED <<deleted, cur, repaired, since, scratch>>

(* The server stops; only the database is left. *)
Crash ==
  /\ pc # "idle" /\ Fault
  /\ mem' = [r \in RunIds |-> NoRanges]
  /\ jobs' = {}
  /\ pc' = "idle" /\ target' = NoTarget /\ ctx' = "live"
  /\ idle' = 0 /\ size' = 0 /\ kills' = 0 /\ parallel' = 0
  /\ tg' = NoTable /\ err' = FALSE /\ stop' = FALSE /\ grace' = "none"
  /\ jobsCnt' = 0 /\ nodeJobs' = [n \in Nodes |-> 0]
  /\ UNCHANGED <<database, cur, history>>

DeleteTable(t) ==
  /\ t \notin deleted /\ Fault
  /\ deleted' = deleted \cup {t}
  /\ UNCHANGED <<rows, mem, cur, pc, target, tg, err, stop, grace, ctx, jobs, controller, pool,
                 history>>

-----------------------------------------------------------------------------
Workers == WorkerExits \/ \E j \in jobs : Take(j) \/ RepairOk(j) \/ RepairFails(j) \/ OnJobEnd(j)
Generator == NextTable \/ DescribeFails \/ Close \/ Generate \/ GenerateNoMore \/ TableDone
             \/ \E j \in jobs : ProcessResult(j)
Repair == InitState \/ InitProgress \/ SetupFails \/ Setup \/ Generator \/ Finish
          \/ StopGenerating \/ GracefulStopTimeout

Next ==
  \/ Start \/ Repair \/ Workers
  \/ Cancel \/ Crash
  \/ \E p \in Controls : SetParallel(p)
  \/ \E t \in MayDelete : DeleteTable(t)

Spec == Init /\ [][Next]_vars
-----------------------------------------------------------------------------
(* The counters of controller and pool are natural numbers, jobs and rows  *)
(* hold ranges of the tables.                                              *)
TypeOK ==
  /\ \A r \in RunIds : rows[r].state \in [TableSet -> SUBSET Ranges]
  /\ jobsCnt \in Nat /\ nodeJobs \in [Nodes -> Nat]
  /\ idle \in Nat /\ kills \in Nat
  /\ \A j \in jobs : j.ranges \subseteq Ranges /\ j.ranges # {} /\ j.run \in 1..cur

(* "at most one job running on every node at any time": jobs of a run      *)
(* share no node from Submit to processResult, whatever workers, results,  *)
(* SetParallel and the change of tables do in between.                     *)
OneJobPerNode ==
  \A j, k \in jobs : j # k /\ Mine(j) /\ Mine(k) => j.nodes \cap k.nodes = {}

(* A repair that is completed, EndTime set, has repaired every range of    *)
(* every table that is left, in that run or in those it continued; the     *)
(* next run will start from scratch.                                       *)
CompletedIsRepaired ==
  [][\A r \in RunIds : ~rows[r].ended /\ rows'[r].ended =>
       \A t \in TableSet \ deleted : Planned(t) \subseteq repaired[since[r]][t]]_vars

(* What was recorded is not repaired again until the repair is completed   *)
(* or started from scratch, however many crashes, failures and runs that   *)
(* never got started lie between, unless a worker outlived its run.        *)
ContinuedNotRepeated ==
  ~leaked => \A j \in jobs : j.type = "normal" /\ j.stage = "queued" =>
    \A r \in 1..cur :
      rows[r].initialized /\ (\A x \in r..(cur - 1) : ~rows[x].ended /\ x + 1 \notin scratch)
        => rows[r].state[j.table] \cap j.ranges = {}

(* A run that is on is never stuck: some goroutine, timer or repair job of *)
(* it can make a step.  The generator waits for results only while a job   *)
(* is on its way and a worker there to take it, whatever failed, was       *)
(* dropped or resized before.                                              *)
NeverStuck == pc # "idle" => ENABLED (Repair \/ Workers)
=============================================================================
