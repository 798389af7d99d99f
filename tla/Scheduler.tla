----------------------------- MODULE Scheduler -----------------------------
(***************************************************************************)
(* The generic task scheduler of pkg/scheduler: one mutex, a priority      *)
(* queue of activations, a map of keys' details, a map of running keys, a  *)
(* main loop (Start) and one goroutine per run.                            *)
(*                                                                         *)
(* A step is the code between two points where another goroutine can be    *)
(* observed: a section under Scheduler.mu, the select of sleep, the start  *)
(* of a run's goroutine, the return of the RunFunc.  The wait group's      *)
(* counter is the number of goroutines started and not over.               *)
(***************************************************************************)
EXTENDS Schedules, Window, FiniteSets

CONSTANTS
  Keys,           \* keys (tasks of one cluster)
  RunIds,         \* identities of goroutines started by asyncRun
  Properties,     \* task properties
  Specs,          \* the Details a caller may pass to Schedule
  BackoffDelay,   \* delay of the exponential backoff at its n-th call
  ClockStep,      \* resolution of the clock, in nanoseconds
  MaxTime,        \* bound: the clock stops here
  None            \* Go's nil

(* A Details value: backoff with at most retries tries, 0 is a nil Backoff. *)
DetailsSpec == [props: Properties, trigger: Trigger, retries: Nat, window: Seq(Slot)]

(* Details of a known key, with the state its Trigger and Backoff hide. *)
Details == [spec: Specs, fired: BOOLEAN, tries: Nat]

Int8 == -128..127

(* Activation; pre is PreRescheduleActivation, props = None is nil. *)
Activation == [time: Int, retry: Int8, props: Properties \cup {None}, stop: Int, pre: Int]

ASSUME SchedulerAssumption ==
  /\ Specs \subseteq DetailsSpec
  /\ \A s \in Specs : s.trigger.kind = "cron" => s.trigger.period > 0
  /\ \A s \in Specs : \A n \in 0..(s.retries - 1) : BackoffDelay[n] \in Nat
  /\ ClockStep \in Nat \ {0}
  /\ MaxTime \in Nat
  /\ None \notin Keys \cup RunIds \cup Properties
  /\ None \notin Details /\ None \notin Activation

VARIABLES
  now,       \* the clock, in nanoseconds; it moves by ClockStep
  queue,     \* activationQueue: key |-> Activation, or None
  head,      \* key at index 0 of the heap, or None
  details,   \* key |-> Details, or None
  running,   \* key |-> the run whose cancel function it holds, or None
  closed,
  wakeupCh,  \* the one-slot wakeup channel is full
  loop,      \* Start: its position and the activation it read with Top
  run,       \* run |-> state of its RunContext and goroutine
  waited     \* a call of Wait made after Close has returned

queueVars == <<queue, head, wakeupCh>>
vars == <<now, queue, head, details, running, closed, wakeupCh, loop, run, waited>>

(***************************************************************************)
(* Runs.  "popped" and "triggered" runs are registered in running but      *)
(* their goroutine is not started yet, by Start and by Trigger.            *)
(***************************************************************************)
RunPc == {"idle", "popped", "triggered", "executing", "returned"}
Cause == {"none", "stopped", "outOfWindow", "stoppedScheduler"}
RunErr == {"nil", "error", "permanent"}

RunState == [pc: RunPc, key: Keys \cup {None}, cause: Cause, stop: Int, retry: Int8,
             props: Properties \cup {None}, initial: Int, err: RunErr]

IdleRun == [pc |-> "idle", key |-> None, cause |-> "none", stop |-> NoTime, retry |-> 0,
            props |-> None, initial |-> NoTime, err |-> "nil"]

LoopPc == {"top", "sleep", "pop", "async", "done"}
LoopState == [pc: LoopPc, key: Keys \cup {None}, time: Int]

(* Start between two iterations: top is declared anew in each of them. *)
LoopAt(pc) == [pc |-> pc, key |-> None, time |-> NoTime]

Live(r) == run[r].pc # "idle"

(* The counter of Scheduler.wg. *)
WaitGroup == Cardinality({r \in RunIds : run[r].pc \in {"executing", "returned"}})

TypeOK ==
  /\ now \in Nat
  /\ queue \in [Keys -> Activation \cup {None}]
  /\ head \in Keys \cup {None}
  /\ details \in [Keys -> Details \cup {None}]
  /\ running \in [Keys -> RunIds \cup {None}]
  /\ closed \in BOOLEAN
  /\ wakeupCh \in BOOLEAN
  /\ loop \in LoopState
  /\ run \in [RunIds -> RunState]
  /\ waited \in BOOLEAN

(* NewScheduler, followed by go l.Start(ctx) with a context never cancelled. *)
Init ==
  /\ now = ClockStep
  /\ queue = [k \in Keys |-> None]
  /\ head = None
  /\ details = [k \in Keys |-> None]
  /\ running = [k \in Keys |-> None]
  /\ closed = FALSE
  /\ wakeupCh = FALSE
  /\ loop = LoopAt("top")
  /\ run = [r \in RunIds |-> IdleRun]
  /\ waited = FALSE

-----------------------------------------------------------------------------
(* activationQueue *)

Minima(q) == {k \in Keys : /\ q[k] # None
                           /\ \A j \in Keys : q[j] # None => q[k].time <= q[j].time}

(***************************************************************************)
(* The heap's root after the queue became q: container/heap moves an       *)
(* element above another only if it is strictly earlier, so the root stays *)
(* as long as it is a minimum; among other minima the layout decides.      *)
(***************************************************************************)
HeadsAfter(q) ==
  IF \A k \in Keys : q[k] = None
  THEN {None}
  ELSE IF head \in Minima(q) THEN {head} ELSE Minima(q)

(* Mutant: Schedule and reschedule forget to wake up the main loop. *)
PushNoWakeup(k, a) ==
  /\ queue' = [queue EXCEPT ![k] = a]
  /\ head' \in HeadsAfter(queue')
  /\ wakeupCh' = wakeupCh

(* activationQueue.Push and the wakeup its callers do when it returns true. *)
Push(k, a) ==
  /\ queue' = [queue EXCEPT ![k] = a]
  /\ head' \in HeadsAfter(queue')
  /\ wakeupCh' = (wakeupCh \/ head' = k)

(* activationQueue.Remove and the wakeup; it is a no-op on an absent key. *)
Remove(k) ==
  /\ queue' = [queue EXCEPT ![k] = None]
  /\ head' \in HeadsAfter(queue')
  /\ wakeupCh' = (wakeupCh \/ head = k)

(* InitialActivation *)
InitialActivation(a) == IF a.pre = NoTime THEN a.time ELSE a.pre

-----------------------------------------------------------------------------
(* Sections under Scheduler.mu that several operations share. *)

(* Mutant: the activation stays in the queue. *)
UnscheduleKeepsActivation(k) ==
  /\ details' = [details EXCEPT ![k] = None]
  /\ UNCHANGED queueVars

unscheduleLocked(k) ==
  /\ details' = [details EXCEPT ![k] = None]
  /\ Remove(k)

(***************************************************************************)
(* scheduleLocked; d is what details[k] is by now.                         *)
(***************************************************************************)
scheduleLocked(k, d, next, pre, retno, p) ==
  IF next = NoTime
  THEN unscheduleLocked(k)
  ELSE LET slot == WindowNext(d.spec.window, next)
       IN  /\ details' = [details EXCEPT ![k] = d]
           /\ Push(k, [time |-> slot.begin, retry |-> retno, props |-> p,
                       stop |-> slot.end, pre |-> pre])

(* context.WithDeadlineCause: a deadline in the past cancels at once. *)
CauseAtCreation(stop) == IF stop # NoTime /\ stop <= now THEN "outOfWindow" ELSE "none"

(* newRunContextLocked: run r becomes the run of key k for activation a. *)
newRunContextLocked(r, k, a, pc) ==
  /\ run[r].pc = "idle"
  /\ running' = [running EXCEPT ![k] = r]
  /\ run' = [run EXCEPT ![r] =
       [pc |-> pc, key |-> k, cause |-> CauseAtCreation(a.stop), stop |-> a.stop,
        retry |-> a.retry,
        props |-> IF a.props # None THEN a.props
                  ELSE IF details[k] # None THEN details[k].spec.props ELSE None,
        initial |-> IF pc = "popped" THEN InitialActivation(a) ELSE NoTime,
        err |-> "nil"]]

(* A cancelled context keeps its first cause. *)
Cancel(c, cause) == IF c = "none" THEN cause ELSE c

-----------------------------------------------------------------------------
(* Operations of the callers. *)

(* The Details object a caller builds: trigger and backoff are new. *)
Fresh(s) == [spec |-> s, fired |-> FALSE, tries |-> 0]

(* d after its trigger was asked, which marks a once part as fired; n backoff tries. *)
Asked(d, n) == [spec |-> d.spec, fired |-> d.fired \/ d.spec.trigger.once, tries |-> n]

(* Mutant: a running key is queued too. *)
ScheduleRunning(k, s) ==
  /\ scheduleLocked(k, Asked(Fresh(s), 0), TriggerNext(s.trigger, FALSE, now), NoTime, 0, None)
  /\ UNCHANGED <<now, running, closed, loop, run, waited>>

Schedule(k, s) ==
  /\ IF running[k] # None
     THEN /\ details' = [details EXCEPT ![k] = Fresh(s)]
          /\ UNCHANGED queueVars
     ELSE scheduleLocked(k, Asked(Fresh(s), 0), TriggerNext(s.trigger, FALSE, now),
                         NoTime, 0, None)
  /\ UNCHANGED <<now, running, closed, loop, run, waited>>

Unschedule(k) ==
  /\ details[k] # None
  /\ unscheduleLocked(k)
  /\ UNCHANGED <<now, running, closed, loop, run, waited>>

(***************************************************************************)
(* Trigger of a known key that is not running, up to the unlock.  The run  *)
(* is registered; its goroutine is started by StartTriggered.  Trigger of  *)
(* a running or of an unknown key changes nothing (an unknown key is never *)
(* queued), those calls are stuttering steps.                              *)
(***************************************************************************)
TriggerKey(k) ==
  /\ running[k] = None
  /\ details[k] # None
  /\ Remove(k)
  /\ \E r \in RunIds :
       newRunContextLocked(r, k, [time |-> NoTime, retry |-> 0, props |-> None,
                                  stop |-> NoTime, pre |-> NoTime], "triggered")
  /\ UNCHANGED <<now, details, closed, loop, waited>>

(* asyncRun called by Trigger: it reads the clock for the initial activation. *)
StartTriggered(r) ==
  /\ run[r].pc = "triggered"
  /\ run' = [run EXCEPT ![r].pc = "executing", ![r].initial = now]
  /\ UNCHANGED <<now, queue, head, details, running, closed, wakeupCh, loop, waited>>

Stop(k) ==
  /\ running[k] # None
  /\ run' = [run EXCEPT ![running[k]].cause = Cancel(@, "stopped")]
  /\ UNCHANGED <<now, queue, head, details, running, closed, wakeupCh, loop, waited>>

(* Mutant: the main loop is not woken up. *)
CloseNoWakeup ==
  /\ closed' = TRUE
  /\ run' = [r \in RunIds |->
       IF \E k \in Keys : running[k] = r
       THEN [run[r] EXCEPT !.cause = Cancel(@, "stoppedScheduler")]
       ELSE run[r]]
  /\ UNCHANGED <<now, queue, head, details, running, wakeupCh, loop, waited>>

(* Close; a suspend under way closes a scheduler that Service.Close closed. *)
Close ==
  /\ closed' = TRUE
  /\ wakeupCh' = TRUE
  /\ run' = [r \in RunIds |->
       IF \E k \in Keys : running[k] = r
       THEN [run[r] EXCEPT !.cause = Cancel(@, "stoppedScheduler")]
       ELSE run[r]]
  /\ UNCHANGED <<now, queue, head, details, running, loop, waited>>

(* Wait, "call after Close", returns. *)
Wait ==
  /\ closed
  /\ ~waited
  /\ WaitGroup = 0
  /\ waited' = TRUE
  /\ UNCHANGED <<now, queue, head, details, running, closed, wakeupCh, loop, run>>

-----------------------------------------------------------------------------
(* The main loop, Start. *)

(* Under the lock: the loop exits when closed. *)
LoopExit ==
  /\ loop.pc = "top"
  /\ closed
  /\ loop' = LoopAt("done")
  /\ UNCHANGED <<now, queue, head, details, running, closed, wakeupCh, run, waited>>

(* Under the lock: read Top; then compute the sleep time, none when it is due. *)
LoopTop ==
  /\ loop.pc = "top"
  /\ ~closed
  /\ loop' = IF head = None
             THEN LoopAt("sleep")
             ELSE [pc |-> IF queue[head].time <= now THEN "pop" ELSE "sleep",
                   key |-> head, time |-> queue[head].time]
  /\ UNCHANGED <<now, queue, head, details, running, closed, wakeupCh, run, waited>>

(* sleep: the timer branch of the select. *)
SleepTimeout ==
  /\ loop.pc = "sleep"
  /\ loop.key # None
  /\ loop.time <= now
  /\ loop' = [loop EXCEPT !.pc = "pop"]
  /\ UNCHANGED <<now, queue, head, details, running, closed, wakeupCh, run, waited>>

(* sleep: the wakeup branch of the select. *)
SleepWakeup ==
  /\ loop.pc = "sleep"
  /\ wakeupCh
  /\ wakeupCh' = FALSE
  /\ loop' = LoopAt("top")
  /\ UNCHANGED <<now, queue, head, details, running, closed, run, waited>>

(***************************************************************************)
(* Pop found another key, or nothing: the activation is pushed back and    *)
(* the loop starts over.  Pushed back under an equally early one, it is    *)
(* no longer the root.                                                     *)
(***************************************************************************)
LoopPopOther ==
  /\ loop.pc = "pop"
  /\ head # loop.key
  /\ head' \in IF Minima(queue) \ {head} = {} THEN {head} ELSE Minima(queue) \ {head}
  /\ loop' = LoopAt("top")
  /\ UNCHANGED <<now, queue, details, running, closed, wakeupCh, run, waited>>

(* Pop found the key the loop slept for: its run is registered. *)
LoopPop ==
  /\ loop.pc = "pop"
  /\ head = loop.key
  /\ queue' = [queue EXCEPT ![head] = None]
  /\ head' \in HeadsAfter(queue')
  /\ \E r \in RunIds : newRunContextLocked(r, head, queue[head], "popped")
  /\ loop' = LoopAt("async")
  /\ UNCHANGED <<now, details, closed, wakeupCh, waited>>

(* asyncRun called by Start, outside the lock. *)
StartPopped(r) ==
  /\ loop.pc = "async"
  /\ run[r].pc = "popped"
  /\ run' = [run EXCEPT ![r].pc = "executing"]
  /\ loop' = LoopAt("top")
  /\ UNCHANGED <<now, queue, head, details, running, closed, wakeupCh, waited>>

-----------------------------------------------------------------------------
(* Runs and the clock. *)

(* The deadline of a run context passes: the window closed. *)
WindowEnds(r) ==
  /\ Live(r)
  /\ run[r].cause = "none"
  /\ run[r].stop # NoTime
  /\ run[r].stop <= now
  /\ run' = [run EXCEPT ![r].cause = "outOfWindow"]
  /\ UNCHANGED <<now, queue, head, details, running, closed, wakeupCh, loop, waited>>

(* RunFunc returns, cancelled or not, with any result. *)
Return(r) ==
  /\ run[r].pc = "executing"
  /\ \E e \in RunErr : run' = [run EXCEPT ![r] = [@ EXCEPT !.pc = "returned", !.err = e]]
  /\ UNCHANGED <<now, queue, head, details, running, closed, wakeupCh, loop, waited>>

shouldContinue(r) == run[r].cause = "outOfWindow"

(* Mutant: a stopped run is retried. *)
RetryStopped(r) == run[r].err = "error"

shouldRetry(r) == run[r].err = "error" /\ run[r].cause # "stopped"

(* Conversion of an int to Go's int8. *)
ToInt8(n) == ((n + 128) % 256) - 128

(* Mutant: the next activation is computed from the current time only. *)
ScheduleFromNow(r, d) ==
  LET k    == run[r].key
      next == TriggerNext(d.spec.trigger, d.fired, now)
  IN  IF shouldContinue(r)
      THEN scheduleLocked(k, Asked(d, d.tries), now, run[r].initial, run[r].retry, run[r].props)
      ELSE scheduleLocked(k, Asked(d, d.tries), next, NoTime, 0, None)

(* A plausible bug: a key whose retries are used up is dropped. *)
RetryOrDrop(r, d) ==
  IF d.tries < d.spec.retries
  THEN scheduleLocked(run[r].key, Asked(d, d.tries + 1), now + BackoffDelay[d.tries],
                      run[r].initial, ToInt8(run[r].retry + 1), run[r].props)
  ELSE unscheduleLocked(run[r].key)

(* The switch of reschedule, for a key with details d. *)
ScheduleAfterRun(r, d) ==
  LET k     == run[r].key
      next  == TriggerNext(d.spec.trigger, d.fired, now)
      a     == TriggerNext(d.spec.trigger, Asked(d, 0).fired, run[r].initial + 1)
  IN  \/ /\ shouldContinue(r)
         /\ scheduleLocked(k, Asked(d, d.tries), now, run[r].initial, run[r].retry, run[r].props)
      \/ /\ ~shouldContinue(r) /\ shouldRetry(r)
         /\ d.tries < d.spec.retries
         /\ scheduleLocked(k, Asked(d, d.tries + 1), now + BackoffDelay[d.tries],
                           run[r].initial, ToInt8(run[r].retry + 1), run[r].props)
      \/ /\ ~shouldContinue(r) /\ shouldRetry(r)
         /\ d.tries >= d.spec.retries
         /\ scheduleLocked(k, Asked(d, d.tries), next, NoTime, 0, None)
      \/ /\ ~shouldContinue(r) /\ ~shouldRetry(r)
         /\ scheduleLocked(k, Asked(d, 0),
                           IF a > run[r].initial THEN a ELSE next, NoTime, 0, None)

(* reschedule; the goroutine ends. *)
Reschedule(r) ==
  /\ run[r].pc = "returned"
  /\ running' = [running EXCEPT ![run[r].key] = None]
  /\ run' = [run EXCEPT ![r] = IdleRun]
  /\ IF closed \/ details[run[r].key] = None
     THEN UNCHANGED <<details, queue, head, wakeupCh>>
     ELSE ScheduleAfterRun(r, details[run[r].key])
  /\ UNCHANGED <<now, closed, loop, waited>>

Tick ==
  /\ now < MaxTime
  /\ now' = now + ClockStep
  /\ UNCHANGED <<queue, head, details, running, closed, wakeupCh, loop, run, waited>>

-----------------------------------------------------------------------------
Callers ==
  \/ \E k \in Keys, s \in Specs : Schedule(k, s)
  \/ \E k \in Keys : Unschedule(k)
  \/ \E k \in Keys : TriggerKey(k)
  \/ \E k \in Keys : Stop(k)
  \/ Close

Loop ==
  \/ LoopExit
  \/ LoopTop
  \/ SleepTimeout
  \/ SleepWakeup
  \/ LoopPopOther
  \/ LoopPop
  \/ \E r \in RunIds : StartPopped(r)

Runs == \E r \in RunIds : StartTriggered(r) \/ WindowEnds(r) \/ Return(r) \/ Reschedule(r)

Next == Callers \/ Wait \/ Loop \/ Runs \/ Tick

Spec == Init /\ [][Next]_vars

(***************************************************************************)
(* Fairness: the Go scheduler runs every ready goroutine, the clock goes   *)
(* on, and a RunFunc whose context is cancelled returns ("When the         *)
(* provided context is cancelled function must return").  Nothing is       *)
(* assumed of the callers nor of a run that was not cancelled.             *)
(***************************************************************************)
Fairness ==
  /\ WF_vars(Loop)
  /\ WF_vars(Tick)
  /\ \A r \in RunIds : /\ WF_vars(StartTriggered(r))
                       /\ WF_vars(WindowEnds(r))
                       /\ WF_vars(run[r].cause # "none" /\ Return(r))
                       /\ WF_vars(Reschedule(r))

-----------------------------------------------------------------------------
(* Properties. *)

(***************************************************************************)
(* Single instance (scheduler.go, "There can be a single instance of a key *)
(* scheduled or running at all times"): whatever the interleaving of       *)
(* Schedule, Trigger, the main loop and ending runs, a key has at most one *)
(* live run, that run is the one its entry in running can cancel, and a    *)
(* key with a live run has no activation in the queue.                     *)
(***************************************************************************)
SingleInstance ==
  \A r \in RunIds : Live(r) => /\ running[run[r].key] = r
                               /\ queue[run[r].key] = None

(***************************************************************************)
(* Nothing is lost: until the scheduler is closed, a key that was given to *)
(* Schedule and neither unscheduled nor out of triggers is either queued   *)
(* or running (running keys are queued by reschedule), and a queued key    *)
(* still has its details.                                                  *)
(***************************************************************************)
NothingLost ==
  \A k \in Keys :
    /\ queue[k] # None => details[k] # None
    /\ ~closed /\ details[k] # None => queue[k] # None \/ running[k] # None

(***************************************************************************)
(* No missed wakeup: a main loop that went to sleep on what Top returned   *)
(* some time ago does not oversleep.  Unless a wakeup is pending it will   *)
(* be back, on its timer, no later than the earliest activation is due;    *)
(* and a loop sleeping in a closed scheduler has a wakeup pending.         *)
(***************************************************************************)
NoMissedWakeup ==
  loop.pc = "sleep" /\ ~wakeupCh =>
    /\ ~closed
    /\ \A k \in Keys : queue[k] # None => loop.key # None /\ loop.time <= queue[k].time

(***************************************************************************)
(* Every run is given properties: newRunContextLocked never meets a key    *)
(* whose details were deleted meanwhile (the RunFunc of the service        *)
(* asserts the type of the properties and would panic on nil).             *)
(***************************************************************************)
RunHasProperties == \A r \in RunIds : Live(r) => run[r].props # None

(***************************************************************************)
(* What makes the four invariants above inductive.  An entry of running    *)
(* belongs to a live run of its key; the head of the queue is one of its   *)
(* earliest activations; a loop about to pop slept for a key.              *)
(***************************************************************************)
LiveHasKey == \A r \in RunIds : Live(r) => run[r].key \in Keys

RunningIsLive == \A k \in Keys : running[k] # None => /\ Live(running[k])
                                                    /\ run[running[k]].key = k

HeadIsEarliest ==
  \/ head = None /\ \A k \in Keys : queue[k] = None
  \/ head \in Minima(queue)

LoopKeyKnown == loop.pc = "pop" => loop.key \in Keys

IInv ==
  /\ TypeOK
  /\ LiveHasKey /\ SingleInstance /\ RunningIsLive
  /\ HeadIsEarliest /\ NothingLost /\ RunHasProperties
  /\ LoopKeyKnown /\ NoMissedWakeup

(* The run of key k ends in this step, and the key is scheduled again. *)
EndsAndQueues(k) == running[k] # None /\ running'[k] = None /\ queue'[k] # None

(***************************************************************************)
(* A run that was stopped by the user is neither retried nor continued:    *)
(* the activation that follows it starts a new sequence.                   *)
(***************************************************************************)
StoppedStartsAfresh ==
  [][\A k \in Keys :
       EndsAndQueues(k) /\ run[running[k]].cause = "stopped"
         => /\ queue'[k].retry = 0
            /\ queue'[k].pre = NoTime
            /\ queue'[k].props = None]_vars

(***************************************************************************)
(* Cron activations are not skipped (the comment on #4309 in reschedule):  *)
(* after a run that is neither continued nor retried, no activation of a   *)
(* cron trigger between the initial activation of the run and the time the *)
(* key is queued for is passed over, however long the run and the          *)
(* continuations and retries before it took.                               *)
(***************************************************************************)
ActivationsNotSkipped ==
  [][\A k \in Keys :
       LET r == running[k]
           s == details[k].spec
       IN  EndsAndQueues(k) /\ ~shouldContinue(r) /\ ~shouldRetry(r)
             /\ s.trigger.kind = "cron" /\ ~s.trigger.once /\ s.window = <<>>
           => \A t \in (run[r].initial + 1)..(queue'[k].time - 1) :
                t > s.trigger.start => t % s.trigger.period # 0]_vars

(***************************************************************************)
(* The mapping to SchedulerPromise: what a trigger will still yield, and   *)
(* what a run context tells the user.  A legacy trigger without interval   *)
(* yields its start date at most, and nothing if it has none.              *)
(***************************************************************************)
TriggerLeft(d) ==
  LET tr == d.spec.trigger
  IN  [once |-> tr.once /\ ~d.fired,
       rest |-> IF tr.kind = "cron" \/ tr.period > 0 THEN "always"
                ELSE IF tr.start = NoTime THEN "never" ELSE "sometimes"]

CauseSeen == [none |-> "none", stopped |-> "stopped", outOfWindow |-> "window", stoppedScheduler |-> "closed"]

Context(r) ==
  [key    |-> run[r].key,
   window |-> run[r].stop # NoTime,
   cause  |-> CauseSeen[run[r].cause],
   result |-> IF run[r].pc # "returned" THEN "none" ELSE IF run[r].err = "error" THEN "failed" ELSE "done"]

Promise == INSTANCE SchedulerPromise WITH
    Runs <- RunIds,
    details <- [k \in Keys |-> IF details[k] = None THEN None ELSE TriggerLeft(details[k])],
    queue <- {k \in Keys : queue[k] # None},
    run <- [r \in RunIds |-> IF Live(r) THEN Context(r) ELSE None],
    late <- closed /\ loop.pc \in {"sleep", "pop"}

ASSUME PromiseAssumption == None \notin Promise!Trigger /\ None \notin Promise!Run

(***************************************************************************)
(* The scheduler keeps its promise: whatever the interleaving, a key moves *)
(* between unknown, queued and running as SchedulerPromise says.  A key    *)
(* with a periodic trigger is never dropped but by Unschedule, a run that  *)
(* ended is continued, retried or scheduled afresh as its cause, its error *)
(* and the trigger demand, and a closed scheduler starts one more run at   *)
(* most.                                                                   *)
(***************************************************************************)
KeepsPromise == Promise!Spec

(***************************************************************************)
(* A key that is due gets to run: the main loop reaches it, unless it is   *)
(* taken off the queue, moved to a later time or the scheduler is closed.  *)
(***************************************************************************)
Due(k) == queue[k] # None /\ queue[k].time <= now

DueKeyRuns == \A k \in Keys : Due(k) /\ ~closed ~> running[k] # None \/ ~Due(k) \/ closed

(* Close makes Start exit. *)
ClosedLoopExits == closed ~> loop.pc = "done"

=============================================================================
