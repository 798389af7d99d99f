-------------------------- MODULE SchedulerProofs --------------------------
(***************************************************************************)
(* Proofs about the scheduler, for any sets of keys, runs and details.     *)
(***************************************************************************)
EXTENDS Scheduler, TLAPS

-----------------------------------------------------------------------------
(* Typing of the operators the actions are built from. *)

(* Integer division by a positive number yields an integer. *)
LEMMA DivType == \A a \in Int, b \in Nat \ {0} : a \div b \in Int /\ a % b \in Int
  OBVIOUS

(* Trigger.Next returns a time for every trigger that Schedule is given. *)
LEMMA TriggerNextType ==
  ASSUME NEW tr \in Trigger, tr.kind = "cron" => tr.period > 0,
         NEW fired \in BOOLEAN, NEW t \in Int
  PROVE  TriggerNext(tr, fired, t) \in Int
<1>1. tr.start \in Int /\ tr.period \in Nat /\ tr.once \in BOOLEAN
  BY DEF Trigger
<1>2. CASE tr.kind = "cron"
  <2>1. tr.period \in Nat \ {0}
    BY <1>1, <1>2
  <2>2. CronNext(tr, t) \in Int
    <3> DEFINE from == IF tr.start > t THEN tr.start ELSE t
    <3>1. from \in Int
      BY <1>1
    <3> HIDE DEF from
    <3>2. from \div tr.period \in Int
      BY <2>1, <3>1, DivType
    <3>3. ((from \div tr.period) + 1) * tr.period \in Int
      BY <1>1, <3>2
    <3> QED
      BY <3>3 DEF CronNext, from
  <2> QED
    BY <2>2, <1>1, <1>2 DEF TriggerNext, EarlierNonZero, OnceNext, NoTime
<1>3. CASE tr.kind # "cron"
  <2>1. LegacyNext(tr, t) \in Int
    <3>1. CASE tr.period = 0
      BY <1>1, <3>1 DEF LegacyNext, NoTime
    <3>2. CASE tr.period # 0
      <4>1. tr.period \in Nat \ {0}
        BY <1>1, <3>2
      <4>2. ((t - tr.start) + tr.period - 1) \div tr.period \in Int
        BY <1>1, <4>1, DivType
      <4>3. tr.start + (((t - tr.start) + tr.period - 1) \div tr.period) * tr.period \in Int
        BY <1>1, <4>2
      <4> QED
        BY <1>1, <3>2, <4>3 DEF LegacyNext
    <3> QED
      BY <3>1, <3>2
  <2> QED
    BY <2>1, <1>1, <1>3 DEF TriggerNext, EarlierNonZero, OnceNext, NoTime
<1> QED
  BY <1>2, <1>3

(* WeekdayTime.Next returns a time. *)
LEMMA NextWeekdayTimeType ==
  ASSUME NEW i \in WeekdayTime, NEW t \in Int
  PROVE  NextWeekdayTime(i, t) \in Int
<1>1. i.weekday \in Int /\ i.time \in Int /\ DayLen \in Nat \ {0} /\ WeekDays \in Nat \ {0}
  BY CalendarAssumption DEF WeekdayTime
<1>2. t \div DayLen \in Int
  BY <1>1, DivType
<1>3. Midnight(t) \in Int
  BY <1>1, <1>2 DEF Midnight
<1>4. Midnight(t) \div DayLen \in Int
  BY <1>1, <1>3, DivType
<1>5. WeekdayOf(Midnight(t)) \in Int
  BY <1>1, <1>4, DivType DEF WeekdayOf
<1> DEFINE w == i.weekday - WeekdayOf(Midnight(t))
           d == IF w < 0 \/ (w = 0 /\ t - Midnight(t) > i.time) THEN w + WeekDays ELSE w
<1>6. d \in Int
  BY <1>1, <1>3, <1>5
<1> HIDE DEF d
<1>7. Midnight(t) + d * DayLen + i.time \in Int
  BY <1>1, <1>3, <1>6
<1> QED
  BY <1>7 DEF NextWeekdayTime, d

(* Window.Next returns times, for any window and any result of the search. *)
LEMMA WindowNextType ==
  ASSUME NEW w \in Seq(Slot), NEW t \in Int
  PROVE  WindowNext(w, t).begin \in Int /\ WindowNext(w, t).end \in Int
<1>1. CASE w = <<>>
  BY <1>1 DEF WindowNext
<1>2. CASE w # <<>>
  <2>1. SearchSlot(w, t) \in DOMAIN w
    BY <1>2 DEF SearchSlot
  <2>2. w[SearchSlot(w, t)] \in Slot
    BY <2>1
  <2>3. /\ NextWeekdayTime(w[SearchSlot(w, t)].begin, t) \in Int
        /\ NextWeekdayTime(w[SearchSlot(w, t)].end, t) \in Int
    BY <2>2, NextWeekdayTimeType DEF Slot
  <2> QED
    BY <1>2, <2>3 DEF WindowNext
<1> QED
  BY <1>1, <1>2

(* The conversion to int8 yields an int8. *)
LEMMA ToInt8Type == \A n \in Int : ToInt8(n) \in Int8
  BY DEF ToInt8, Int8

-----------------------------------------------------------------------------
(* The priority queue. *)

(* What a change of the queue does: its effect on the invariants about it. *)
QueueTyped ==
  /\ queue \in [Keys -> Activation \cup {None}]
  /\ head \in Keys \cup {None}
  /\ wakeupCh \in BOOLEAN

(* The loop, asleep without a wakeup pending, does not oversleep. *)
NoOversleep ==
  loop.pc = "sleep" /\ ~wakeupCh =>
    \A k \in Keys : queue[k] # None => loop.key # None /\ loop.time <= queue[k].time

(***************************************************************************)
(* Push keeps the queue typed and its head earliest, changes the entry of  *)
(* one key, and wakes the loop up when that key became the head: if it did *)
(* not, the new head was queued before and the loop's timer covers it.     *)
(***************************************************************************)
LEMMA PushFacts ==
  ASSUME QueueTyped, NoOversleep, loop \in LoopState, UNCHANGED loop,
         NEW k \in Keys, NEW a \in Activation, Push(k, a)
  PROVE  /\ QueueTyped' /\ HeadIsEarliest' /\ NoOversleep'
         /\ queue' = [queue EXCEPT ![k] = a]
         /\ wakeupCh => wakeupCh'
<1>1. queue' = [queue EXCEPT ![k] = a] /\ queue' \in [Keys -> Activation \cup {None}]
  BY DEF Push, QueueTyped
<1>2. queue'[k] # None /\ \A j \in Keys \ {k} : queue'[j] = queue[j]
  BY <1>1, SchedulerAssumption DEF QueueTyped
<1>3. head' \in Minima(queue')
  BY <1>2 DEF Push, HeadsAfter
<1>4. HeadIsEarliest' /\ head' \in Keys
  BY <1>3 DEF HeadIsEarliest, Minima
<1>5. wakeupCh' \in BOOLEAN /\ (wakeupCh => wakeupCh') /\ (~wakeupCh' => ~wakeupCh /\ head' # k)
  BY DEF Push, QueueTyped
<1>6. NoOversleep'
  <2> SUFFICES ASSUME loop.pc = "sleep", ~wakeupCh', NEW j \in Keys, queue'[j] # None
               PROVE  loop.key # None /\ loop.time <= queue'[j].time
    BY DEF NoOversleep
  <2>1. head' \in Keys /\ head' # k /\ queue'[head'] # None /\ queue'[head'].time <= queue'[j].time
    BY <1>3, <1>5 DEF Minima
  <2>2. queue[head'] # None /\ queue[head'] = queue'[head']
    BY <1>2, <2>1
  <2>3. loop.key # None /\ loop.time <= queue[head'].time
    BY <1>5, <2>1, <2>2 DEF NoOversleep
  <2>4. loop.time \in Int /\ queue[head'].time \in Int /\ queue'[j].time \in Int
    BY <1>1, <2>1, <2>2 DEF LoopState, QueueTyped, Activation
  <2> QED
    BY <2>1, <2>2, <2>3, <2>4
<1> QED
  BY <1>1, <1>4, <1>5, <1>6 DEF QueueTyped

(* Removing an activation keeps the queue typed and its head earliest. *)
LEMMA RemoveFacts ==
  ASSUME QueueTyped, NoOversleep, loop \in LoopState, UNCHANGED loop,
         NEW k \in Keys, Remove(k)
  PROVE  /\ QueueTyped' /\ HeadIsEarliest' /\ NoOversleep'
         /\ queue' = [queue EXCEPT ![k] = None]
         /\ wakeupCh => wakeupCh'
<1>1. queue' = [queue EXCEPT ![k] = None] /\ queue' \in [Keys -> Activation \cup {None}]
  BY DEF Remove, QueueTyped
<1>2. head' \in Keys \cup {None} /\ HeadIsEarliest'
  BY DEF Remove, HeadsAfter, HeadIsEarliest, Minima
<1>3. wakeupCh' \in BOOLEAN /\ (wakeupCh => wakeupCh')
  BY DEF Remove, QueueTyped
<1>4. \A j \in Keys : queue'[j] # None => queue'[j] = queue[j]
  BY <1>1 DEF QueueTyped
<1>5. NoOversleep'
  BY <1>3, <1>4 DEF NoOversleep
<1> QED
  BY <1>1, <1>2, <1>3, <1>5 DEF QueueTyped

(***************************************************************************)
(* scheduleLocked either queues the key with its details or, when the      *)
(* trigger has no more activations, forgets both; other keys keep theirs.  *)
(***************************************************************************)
LEMMA ScheduleLockedFacts ==
  ASSUME QueueTyped, NoOversleep, loop \in LoopState, UNCHANGED loop,
         details \in [Keys -> Details \cup {None}],
         NEW k \in Keys, NEW d \in Details, NEW next \in Int, NEW pre \in Int,
         NEW retno \in Int8, NEW p \in Properties \cup {None},
         scheduleLocked(k, d, next, pre, retno, p)
  PROVE  /\ QueueTyped' /\ HeadIsEarliest' /\ NoOversleep'
         /\ details' \in [Keys -> Details \cup {None}]
         /\ \A j \in Keys \ {k} : queue'[j] = queue[j] /\ details'[j] = details[j]
         /\ queue'[k] # None <=> details'[k] # None
         /\ wakeupCh => wakeupCh'
<1>1. CASE next = NoTime
  <2>1. details' = [details EXCEPT ![k] = None] /\ Remove(k)
    BY <1>1 DEF scheduleLocked, unscheduleLocked
  <2>2. /\ QueueTyped' /\ HeadIsEarliest' /\ NoOversleep'
        /\ queue' = [queue EXCEPT ![k] = None]
        /\ wakeupCh => wakeupCh'
    BY <2>1, RemoveFacts
  <2> QED
    BY <2>1, <2>2 DEF QueueTyped
<1>2. CASE next # NoTime
  <2> DEFINE slot == WindowNext(d.spec.window, next)
             a == [time |-> slot.begin, retry |-> retno, props |-> p, stop |-> slot.end, pre |-> pre]
  <2>1. details' = [details EXCEPT ![k] = d] /\ Push(k, a)
    BY <1>2 DEF scheduleLocked
  <2>2. d.spec.window \in Seq(Slot)
    BY SchedulerAssumption DEF Details, DetailsSpec
  <2>3. slot.begin \in Int /\ slot.end \in Int
    BY <2>2, WindowNextType
  <2>4. a \in Activation
    BY <2>3 DEF Activation
  <2> HIDE DEF a
  <2>5. /\ QueueTyped' /\ HeadIsEarliest' /\ NoOversleep'
        /\ queue' = [queue EXCEPT ![k] = a]
        /\ wakeupCh => wakeupCh'
    BY <2>1, <2>4, PushFacts
  <2>6. a # None /\ d # None
    BY <2>4, SchedulerAssumption
  <2> QED
    BY <2>1, <2>5, <2>6 DEF QueueTyped
<1> QED
  BY <1>1, <1>2

(* The invariants about the queue in terms of the lemmas above. *)
LEMMA QueueOfIInv ==
  ASSUME IInv
  PROVE  /\ QueueTyped /\ NoOversleep /\ loop \in LoopState
         /\ details \in [Keys -> Details \cup {None}]
  BY DEF IInv, TypeOK, QueueTyped, NoOversleep, NoMissedWakeup

(* A new run context, for an activation with times, is typed. *)
LEMMA NewRunFacts ==
  ASSUME IInv, NEW r \in RunIds, NEW k \in Keys, NEW a \in Activation,
         NEW pc \in {"popped", "triggered"},
         details[k] # None, newRunContextLocked(r, k, a, pc)
  PROVE  /\ run[r].pc = "idle"
         /\ running' = [running EXCEPT ![k] = r]
         /\ running' \in [Keys -> RunIds \cup {None}]
         /\ run' = [run EXCEPT ![r] = run'[r]]
         /\ run' \in [RunIds -> RunState]
         /\ run'[r].pc = pc /\ run'[r].key = k /\ run'[r].props # None
<1> DEFINE new == [pc |-> pc, key |-> k, cause |-> CauseAtCreation(a.stop), stop |-> a.stop,
             retry |-> a.retry,
             props |-> IF a.props # None THEN a.props
                       ELSE IF details[k] # None THEN details[k].spec.props ELSE None,
             initial |-> IF pc = "popped" THEN InitialActivation(a) ELSE NoTime,
             err |-> "nil"]
<1>1. /\ run[r].pc = "idle"
      /\ running' = [running EXCEPT ![k] = r]
      /\ run' = [run EXCEPT ![r] = new]
  BY DEF newRunContextLocked
<1>2. details[k].spec.props \in Properties
  <2>1. details[k] \in Details
    BY DEF IInv, TypeOK
  <2> QED
    BY <2>1, SchedulerAssumption DEF Details, DetailsSpec
<1>3. a.props \in Properties \cup {None} /\ a.stop \in Int /\ a.retry \in Int8
      /\ a.time \in Int /\ a.pre \in Int
  BY DEF Activation
<1>4. new.props \in Properties /\ new.props # None
  BY <1>2, <1>3, SchedulerAssumption
<1>5. CauseAtCreation(a.stop) \in Cause
  BY DEF CauseAtCreation, Cause
<1>6. (IF pc = "popped" THEN InitialActivation(a) ELSE NoTime) \in Int
  BY <1>3 DEF InitialActivation, NoTime
<1>7. new \in RunState
  BY <1>3, <1>4, <1>5, <1>6 DEF RunState, RunPc, RunErr
<1>8. new.pc = pc /\ new.key = k
  OBVIOUS
<1> HIDE DEF new
<1>9. run \in [RunIds -> RunState] /\ running \in [Keys -> RunIds \cup {None}]
  BY DEF IInv, TypeOK
<1> QED
  BY <1>1, <1>4, <1>7, <1>8, <1>9

-----------------------------------------------------------------------------
(* IInv holds initially. *)
LEMMA InitIInv == Init => IInv
<1> SUFFICES ASSUME Init PROVE IInv
  OBVIOUS
<1>1. IdleRun \in RunState
  BY DEF IdleRun, RunState, RunPc, Cause, Int8, RunErr, NoTime
<1>2. LoopAt("top") \in LoopState
  BY DEF LoopAt, LoopState, LoopPc, NoTime
<1>3. TypeOK
  BY <1>1, <1>2, SchedulerAssumption DEF Init, TypeOK
<1>4. \A r \in RunIds : ~Live(r)
  BY DEF Init, Live, IdleRun
<1>5. loop.pc = "top"
  BY DEF Init, LoopAt
<1> QED
  BY <1>3, <1>4, <1>5 DEF Init, IInv, LiveHasKey, SingleInstance, RunningIsLive, HeadIsEarliest,
     NothingLost, RunHasProperties, LoopKeyKnown, NoMissedWakeup

-----------------------------------------------------------------------------
(* One lemma per action: IInv is preserved. *)

(* NoMissedWakeup from its part about the queue and its part about Close. *)
LEMMA SleepFromQueue ==
  ASSUME IInv, NoOversleep', UNCHANGED loop, wakeupCh => wakeupCh', UNCHANGED closed
  PROVE  NoMissedWakeup'
  BY DEF IInv, NoMissedWakeup, NoOversleep

(* A fresh Details is well formed, and so is one whose trigger was asked. *)
LEMMA DetailsFacts ==
  /\ \A s \in Specs : Fresh(s) \in Details /\ Fresh(s).spec = s
  /\ \A d \in Details : \A n \in Nat : Asked(d, n) \in Details /\ Asked(d, n).fired \in BOOLEAN
  BY DEF Fresh, Asked, Details

(* The trigger of a known key returns times. *)
LEMMA DetailsTrigger ==
  ASSUME NEW s \in Specs, NEW f \in BOOLEAN, NEW t \in Int
  PROVE  TriggerNext(s.trigger, f, t) \in Int
<1>1. s.trigger \in Trigger /\ (s.trigger.kind = "cron" => s.trigger.period > 0)
  BY SchedulerAssumption DEF DetailsSpec
<1> QED
  BY <1>1, TriggerNextType

LEMMA ScheduleIInv ==
  ASSUME IInv, NEW k \in Keys, NEW s \in Specs, Schedule(k, s)
  PROVE  IInv'
<1>1. UNCHANGED <<now, running, closed, loop, run, waited>>
  BY DEF Schedule
<1>2. Fresh(s) \in Details
  BY DetailsFacts
<1>3. CASE running[k] # None
  <2>1. details' = [details EXCEPT ![k] = Fresh(s)] /\ UNCHANGED queueVars
    BY <1>3 DEF Schedule
  <2>2. Fresh(s) # None
    BY <1>2, SchedulerAssumption
  <2> QED
    BY <1>1, <1>2, <1>3, <2>1, <2>2 DEF queueVars, IInv, TypeOK, LiveHasKey, SingleInstance,
       RunningIsLive, HeadIsEarliest, Minima, NothingLost, RunHasProperties, LoopKeyKnown,
       NoMissedWakeup, Live
<1>4. CASE running[k] = None
  <2>1. scheduleLocked(k, Asked(Fresh(s), 0), TriggerNext(s.trigger, FALSE, now), NoTime, 0, None)
    BY <1>4 DEF Schedule
  <2>2. Asked(Fresh(s), 0) \in Details
    BY <1>2, DetailsFacts
  <2>3. TriggerNext(s.trigger, FALSE, now) \in Int
    <3>1. now \in Int /\ FALSE \in BOOLEAN
      BY DEF IInv, TypeOK
    <3> QED
      BY <3>1, DetailsTrigger, Zenon
  <2>4. NoTime \in Int /\ 0 \in Int8
    BY DEF NoTime, Int8
  <2>5. /\ QueueTyped' /\ HeadIsEarliest' /\ NoOversleep'
        /\ details' \in [Keys -> Details \cup {None}]
        /\ \A j \in Keys \ {k} : queue'[j] = queue[j] /\ details'[j] = details[j]
        /\ queue'[k] # None <=> details'[k] # None
        /\ wakeupCh => wakeupCh'
    BY <1>1, <2>1, <2>2, <2>3, <2>4, QueueOfIInv, ScheduleLockedFacts
  <2>6. TypeOK'
    BY <1>1, <2>5 DEF IInv, TypeOK, QueueTyped
  <2>7. NothingLost'
    BY <1>1, <2>5 DEF IInv, NothingLost
  <2>8. (LiveHasKey /\ RunningIsLive /\ RunHasProperties /\ LoopKeyKnown)'
    BY <1>1 DEF IInv, LiveHasKey, RunningIsLive, RunHasProperties, LoopKeyKnown, Live
  <2>9. SingleInstance'
    <3> SUFFICES ASSUME NEW r \in RunIds, Live(r)
                 PROVE  running[run[r].key] = r /\ queue'[run[r].key] = None
      BY <1>1 DEF SingleInstance, Live
    <3>1. run[r].key \in Keys /\ running[run[r].key] = r /\ queue[run[r].key] = None
      BY DEF IInv, LiveHasKey, SingleInstance
    <3>2. run[r].key # k
      BY <1>4, <3>1, SchedulerAssumption
    <3> QED
      BY <2>5, <3>1, <3>2
  <2>10. NoMissedWakeup'
    BY <1>1, <2>5, SleepFromQueue
  <2> QED
    BY <2>5, <2>6, <2>7, <2>8, <2>9, <2>10 DEF IInv
<1> QED
  BY <1>3, <1>4

LEMMA UnscheduleIInv ==
  ASSUME IInv, NEW k \in Keys, Unschedule(k)
  PROVE  IInv'
<1>1. /\ UNCHANGED <<now, running, closed, loop, run, waited>>
      /\ details' = [details EXCEPT ![k] = None] /\ Remove(k)
  BY DEF Unschedule, unscheduleLocked
<1>2. /\ QueueTyped' /\ HeadIsEarliest' /\ NoOversleep'
      /\ queue' = [queue EXCEPT ![k] = None]
      /\ wakeupCh => wakeupCh'
  BY <1>1, QueueOfIInv, RemoveFacts
<1>3. TypeOK'
  BY <1>1, <1>2 DEF IInv, TypeOK, QueueTyped
<1>4. NothingLost'
  BY <1>1, <1>2 DEF IInv, TypeOK, NothingLost
<1>5. (LiveHasKey /\ RunningIsLive /\ RunHasProperties /\ LoopKeyKnown)'
  BY <1>1 DEF IInv, LiveHasKey, RunningIsLive, RunHasProperties, LoopKeyKnown, Live
<1>6. SingleInstance'
  BY <1>1, <1>2 DEF IInv, TypeOK, SingleInstance, LiveHasKey, Live
<1>7. NoMissedWakeup'
  BY <1>1, <1>2, SleepFromQueue
<1> QED
  BY <1>2, <1>3, <1>4, <1>5, <1>6, <1>7 DEF IInv

(***************************************************************************)
(* A key whose activation was just taken off the queue, and that has no    *)
(* run, gets one (Trigger and the main loop).                              *)
(***************************************************************************)
LEMMA RegisteredIInv ==
  ASSUME IInv, NEW k \in Keys, running[k] = None, details[k] # None,
         NEW r \in RunIds, NEW a \in Activation, NEW pc \in {"popped", "triggered"},
         newRunContextLocked(r, k, a, pc),
         queue' = [queue EXCEPT ![k] = None], UNCHANGED <<details, closed>>
  PROVE  (LiveHasKey /\ SingleInstance /\ RunningIsLive /\ RunHasProperties /\ NothingLost)'
<1>1. /\ run[r].pc = "idle"
      /\ running' = [running EXCEPT ![k] = r]
      /\ run' = [run EXCEPT ![r] = run'[r]]
      /\ run'[r].pc = pc /\ run'[r].key = k /\ run'[r].props # None
  BY NewRunFacts
<1>2. /\ run \in [RunIds -> RunState] /\ running \in [Keys -> RunIds \cup {None}]
      /\ queue \in [Keys -> Activation \cup {None}]
  BY DEF IInv, TypeOK
<1>3. \A q \in RunIds \ {r} : run'[q] = run[q]
  BY <1>1, <1>2
<1>4. \A q \in RunIds : q # r /\ Live(q) => run[q].key \in Keys \ {k}
  BY SchedulerAssumption DEF IInv, LiveHasKey, SingleInstance
<1>5. \A j \in Keys : running[j] # r
  BY <1>1, <1>2, SchedulerAssumption DEF IInv, RunningIsLive, Live
<1>6. (LiveHasKey /\ RunHasProperties)'
  BY <1>1, <1>3, <1>4 DEF IInv, LiveHasKey, RunHasProperties, Live
<1>7. SingleInstance'
  BY <1>1, <1>2, <1>3, <1>4 DEF IInv, SingleInstance, Live
<1>8. RunningIsLive'
  BY <1>1, <1>2, <1>3, <1>5 DEF IInv, RunningIsLive, Live
<1>9. NothingLost'
  BY <1>1, <1>2, SchedulerAssumption DEF IInv, NothingLost
<1> QED
  BY <1>6, <1>7, <1>8, <1>9

LEMMA TriggerIInv ==
  ASSUME IInv, NEW k \in Keys, TriggerKey(k)
  PROVE  IInv'
<1> DEFINE a == [time |-> NoTime, retry |-> 0, props |-> None, stop |-> NoTime, pre |-> NoTime]
<1>1. /\ running[k] = None /\ details[k] # None /\ Remove(k)
      /\ UNCHANGED <<now, details, closed, loop, waited>>
  BY DEF TriggerKey
<1>2. PICK r \in RunIds : newRunContextLocked(r, k, a, "triggered")
  BY DEF TriggerKey
<1>3. a \in Activation
  BY DEF Activation, NoTime, Int8
<1> HIDE DEF a
<1>4. /\ QueueTyped' /\ HeadIsEarliest' /\ NoOversleep'
      /\ queue' = [queue EXCEPT ![k] = None]
      /\ wakeupCh => wakeupCh'
  BY <1>1, QueueOfIInv, RemoveFacts
<1>5. (LiveHasKey /\ SingleInstance /\ RunningIsLive /\ RunHasProperties /\ NothingLost)'
  BY <1>1, <1>2, <1>3, <1>4, RegisteredIInv
<1>6. run' \in [RunIds -> RunState] /\ running' \in [Keys -> RunIds \cup {None}]
  BY <1>1, <1>2, <1>3, NewRunFacts
<1>7. TypeOK' /\ LoopKeyKnown'
  BY <1>1, <1>4, <1>6 DEF IInv, TypeOK, QueueTyped, LoopKeyKnown
<1>8. NoMissedWakeup'
  BY <1>1, <1>4, SleepFromQueue
<1> QED
  BY <1>4, <1>5, <1>7, <1>8 DEF IInv

(* Actions that change runs only, and leave which of them are live. *)
LEMMA RunsOnlyIInv ==
  ASSUME IInv, run' \in [RunIds -> RunState],
         \A r \in RunIds : /\ Live(r)' <=> Live(r)
                          /\ run'[r].key = run[r].key /\ run'[r].props = run[r].props,
         UNCHANGED <<now, queue, head, details, running, closed, wakeupCh, loop>>,
         waited' \in BOOLEAN
  PROVE  IInv'
<1>1. TypeOK'
  BY DEF IInv, TypeOK
<1>2. (LiveHasKey /\ SingleInstance /\ RunHasProperties)'
  BY DEF IInv, LiveHasKey, SingleInstance, RunHasProperties
<1>3. RunningIsLive'
  <2> SUFFICES ASSUME NEW k \in Keys, running[k] # None
               PROVE  Live(running[k])' /\ run'[running[k]].key = k
    BY DEF RunningIsLive
  <2>1. running[k] \in RunIds /\ Live(running[k]) /\ run[running[k]].key = k
    BY DEF IInv, TypeOK, RunningIsLive
  <2> QED
    BY <2>1 DEF Live
<1>4. (HeadIsEarliest /\ NothingLost /\ LoopKeyKnown /\ NoMissedWakeup)'
  BY DEF IInv, HeadIsEarliest, Minima, NothingLost, LoopKeyKnown, NoMissedWakeup
<1> QED
  BY <1>1, <1>2, <1>3, <1>4 DEF IInv

LEMMA StopIInv ==
  ASSUME IInv, NEW k \in Keys, Stop(k)
  PROVE  IInv'
<1>1. running[k] \in RunIds /\ run \in [RunIds -> RunState] /\ waited \in BOOLEAN
  BY DEF Stop, IInv, TypeOK
<1>3. \A r \in RunIds : Cancel(run[r].cause, "stopped") \in Cause
  BY <1>1 DEF Cancel, Cause, RunState
<1>4. run' \in [RunIds -> RunState]
  <2>1. run' = [run EXCEPT ![running[k]].cause = Cancel(run[running[k]].cause, "stopped")]
    BY <1>1 DEF Stop
  <2> QED
    BY <1>1, <1>3, <2>1 DEF RunState
<1>5. \A r \in RunIds : /\ Live(r)' <=> Live(r)
                        /\ run'[r].key = run[r].key /\ run'[r].props = run[r].props
  BY <1>1 DEF Stop, Live, RunState
<1> QED
  BY <1>1, <1>4, <1>5, RunsOnlyIInv DEF Stop

LEMMA StartTriggeredIInv ==
  ASSUME IInv, NEW r \in RunIds, StartTriggered(r)
  PROVE  IInv'
<1>1. run \in [RunIds -> RunState] /\ waited \in BOOLEAN /\ now \in Int
  BY DEF IInv, TypeOK
<1>2. run' \in [RunIds -> RunState]
  BY <1>1 DEF StartTriggered, RunState, RunPc
<1>3. \A q \in RunIds : /\ Live(q)' <=> Live(q)
                        /\ run'[q].key = run[q].key /\ run'[q].props = run[q].props
  BY <1>1 DEF StartTriggered, Live, RunState
<1> QED
  BY <1>1, <1>2, <1>3, RunsOnlyIInv DEF StartTriggered

LEMMA WindowEndsIInv ==
  ASSUME IInv, NEW r \in RunIds, WindowEnds(r)
  PROVE  IInv'
<1>1. run \in [RunIds -> RunState] /\ waited \in BOOLEAN
  BY DEF IInv, TypeOK
<1>2. run' \in [RunIds -> RunState]
  BY <1>1 DEF WindowEnds, RunState, Cause
<1>3. \A q \in RunIds : /\ Live(q)' <=> Live(q)
                        /\ run'[q].key = run[q].key /\ run'[q].props = run[q].props
  BY <1>1 DEF WindowEnds, Live, RunState
<1> QED
  BY <1>1, <1>2, <1>3, RunsOnlyIInv DEF WindowEnds

LEMMA ReturnIInv ==
  ASSUME IInv, NEW r \in RunIds, Return(r)
  PROVE  IInv'
<1>1. run \in [RunIds -> RunState] /\ waited \in BOOLEAN
  BY DEF IInv, TypeOK
<1>2. PICK e \in RunErr : run' = [run EXCEPT ![r] = [run[r] EXCEPT !.pc = "returned", !.err = e]]
  BY DEF Return
<1> DEFINE new == [run[r] EXCEPT !.pc = "returned", !.err = e]
<1>a. new \in RunState
  BY <1>1 DEF RunState, RunPc
<1>b. new.pc = "returned" /\ new.key = run[r].key /\ new.props = run[r].props
  BY <1>1 DEF RunState
<1> HIDE DEF new
<1>3. run' \in [RunIds -> RunState]
  BY <1>1, <1>2, <1>a DEF new
<1>4. \A q \in RunIds : /\ Live(q)' <=> Live(q)
                        /\ run'[q].key = run[q].key /\ run'[q].props = run[q].props
  BY <1>1, <1>2, <1>b DEF Return, Live, new
<1> QED
  BY <1>1, <1>3, <1>4, RunsOnlyIInv DEF Return

LEMMA WaitIInv == IInv /\ Wait => IInv'
<1> SUFFICES ASSUME IInv, Wait PROVE IInv'
  OBVIOUS
<1>1. run' \in [RunIds -> RunState] /\ waited' \in BOOLEAN
  BY DEF Wait, IInv, TypeOK
<1>2. \A q \in RunIds : /\ Live(q)' <=> Live(q)
                        /\ run'[q].key = run[q].key /\ run'[q].props = run[q].props
  BY DEF Wait, Live
<1> QED
  BY <1>1, <1>2, RunsOnlyIInv DEF Wait

LEMMA CloseIInv == IInv /\ Close => IInv'
<1> SUFFICES ASSUME IInv, Close PROVE IInv'
  OBVIOUS
<1>1. run \in [RunIds -> RunState]
  BY DEF IInv, TypeOK
<1>2. \A r \in RunIds : Cancel(run[r].cause, "stoppedScheduler") \in Cause
  BY <1>1 DEF Cancel, Cause, RunState
<1>3. run' \in [RunIds -> RunState]
  <2>1. \A r \in RunIds : [run[r] EXCEPT !.cause = Cancel(run[r].cause, "stoppedScheduler")] \in RunState
    BY <1>1, <1>2 DEF RunState
  <2>2. run' = [r \in RunIds |->
                  IF \E k \in Keys : running[k] = r
                  THEN [run[r] EXCEPT !.cause = Cancel(run[r].cause, "stoppedScheduler")]
                  ELSE run[r]]
    BY DEF Close
  <2> QED
    BY <1>1, <2>1, <2>2
<1>4. \A r \in RunIds : /\ run'[r].pc = run[r].pc
                        /\ run'[r].key = run[r].key /\ run'[r].props = run[r].props
  BY <1>1 DEF Close, RunState
<1>5. TypeOK'
  BY <1>3 DEF Close, IInv, TypeOK
<1>6. (LiveHasKey /\ SingleInstance /\ RunHasProperties)'
  BY <1>4 DEF Close, IInv, LiveHasKey, SingleInstance, RunHasProperties, Live
<1>7. RunningIsLive'
  BY <1>4, SchedulerAssumption DEF Close, IInv, TypeOK, RunningIsLive, Live
<1>8. (HeadIsEarliest /\ NothingLost /\ LoopKeyKnown /\ NoMissedWakeup)'
  BY DEF Close, IInv, HeadIsEarliest, Minima, NothingLost, LoopKeyKnown, NoMissedWakeup
<1> QED
  BY <1>5, <1>6, <1>7, <1>8 DEF IInv

LEMMA TickIInv == IInv /\ Tick => IInv'
<1> SUFFICES ASSUME IInv, Tick PROVE IInv'
  OBVIOUS
<1>1. now' \in Nat
  BY SchedulerAssumption DEF Tick, IInv, TypeOK
<1> QED
  BY <1>1 DEF Tick, IInv, TypeOK, LiveHasKey, SingleInstance, RunningIsLive, HeadIsEarliest,
     Minima, NothingLost, RunHasProperties, LoopKeyKnown, NoMissedWakeup, Live

(* Steps of the main loop that move its program counter only. *)
LEMMA LoopExitIInv == IInv /\ LoopExit => IInv'
  BY DEF LoopExit, LoopAt, LoopState, LoopPc, NoTime, IInv, TypeOK, LiveHasKey, SingleInstance,
     RunningIsLive, HeadIsEarliest, Minima, NothingLost, RunHasProperties, LoopKeyKnown,
     NoMissedWakeup, Live

(* The activation at the head of the queue. *)
LEMMA HeadFacts ==
  ASSUME IInv, head # None
  PROVE  /\ head \in Keys /\ queue[head] # None /\ queue[head] \in Activation
         /\ details[head] # None /\ running[head] = None
         /\ \A j \in Keys : queue[j] # None => queue[head].time <= queue[j].time
<1>1. head \in Minima(queue)
  BY DEF IInv, HeadIsEarliest
<1>2. /\ head \in Keys /\ queue[head] # None
      /\ \A j \in Keys : queue[j] # None => queue[head].time <= queue[j].time
  BY <1>1 DEF Minima
<1>3. queue[head] \in Activation
  BY <1>2 DEF IInv, TypeOK
<1>4. details[head] # None
  BY <1>2 DEF IInv, NothingLost
<1>5. running[head] = None
  <2> SUFFICES ASSUME running[head] # None PROVE FALSE
    OBVIOUS
  <2>1. running[head] \in RunIds
    BY <1>2 DEF IInv, TypeOK
  <2>2. Live(running[head]) /\ run[running[head]].key = head
    BY <1>2 DEF IInv, RunningIsLive
  <2> QED
    BY <1>2, <2>1, <2>2 DEF IInv, SingleInstance
<1> QED
  BY <1>2, <1>3, <1>4, <1>5

LEMMA LoopTopIInv == IInv /\ LoopTop => IInv'
<1> SUFFICES ASSUME IInv, LoopTop PROVE IInv'
  OBVIOUS
<1>1. UNCHANGED <<now, queue, head, details, running, closed, wakeupCh, run, waited>>
  BY DEF LoopTop
<1>2. (LiveHasKey /\ SingleInstance /\ RunningIsLive /\ HeadIsEarliest /\ NothingLost
        /\ RunHasProperties)'
  BY <1>1 DEF IInv, LiveHasKey, SingleInstance, RunningIsLive, HeadIsEarliest, Minima,
     NothingLost, RunHasProperties, Live
<1>3. CASE head = None
  <2>1. loop' = LoopAt("sleep") /\ ~closed /\ \A k \in Keys : queue[k] = None
    BY <1>3, SchedulerAssumption DEF LoopTop, IInv, HeadIsEarliest, Minima
  <2>2. TypeOK'
    BY <1>1, <2>1 DEF IInv, TypeOK, LoopAt, LoopState, LoopPc, NoTime
  <2>3. LoopKeyKnown' /\ NoMissedWakeup'
    BY <1>1, <2>1 DEF LoopKeyKnown, NoMissedWakeup, LoopAt
  <2> QED
    BY <1>2, <2>2, <2>3 DEF IInv
<1>4. CASE head # None
  <2>1. /\ head \in Keys /\ queue[head] \in Activation /\ head # None
        /\ \A j \in Keys : queue[j] # None => queue[head].time <= queue[j].time
    BY <1>4, HeadFacts
  <2>2. /\ loop' = [pc |-> IF queue[head].time <= now THEN "pop" ELSE "sleep",
                    key |-> head, time |-> queue[head].time]
        /\ ~closed
    BY <1>4 DEF LoopTop
  <2>3. queue[head].time \in Int
    BY <2>1 DEF Activation
  <2>4. loop' \in LoopState /\ loop'.key = head /\ loop'.time = queue[head].time
    BY <2>1, <2>2, <2>3 DEF LoopState, LoopPc
  <2>5. TypeOK'
    BY <1>1, <2>4 DEF IInv, TypeOK
  <2>6. LoopKeyKnown' /\ NoMissedWakeup'
    BY <1>1, <2>1, <2>2, <2>4 DEF LoopKeyKnown, NoMissedWakeup
  <2> QED
    BY <1>2, <2>5, <2>6 DEF IInv
<1> QED
  BY <1>3, <1>4

LEMMA SleepIInv == IInv /\ (SleepTimeout \/ SleepWakeup) => IInv'
<1> SUFFICES ASSUME IInv, SleepTimeout \/ SleepWakeup PROVE IInv'
  OBVIOUS
<1>1. /\ UNCHANGED <<now, queue, head, details, running, closed, run, waited>>
      /\ wakeupCh' \in BOOLEAN
  BY DEF SleepTimeout, SleepWakeup, IInv, TypeOK
<1>2. loop' \in LoopState /\ loop'.pc \in {"pop", "top"} /\ (loop'.pc = "pop" => loop'.key \in Keys)
  BY DEF SleepTimeout, SleepWakeup, LoopAt, LoopState, LoopPc, NoTime, IInv, TypeOK
<1> QED
  BY <1>1, <1>2 DEF IInv, TypeOK, LiveHasKey, SingleInstance, RunningIsLive, HeadIsEarliest,
     Minima, NothingLost, RunHasProperties, LoopKeyKnown, NoMissedWakeup, Live

LEMMA LoopPopOtherIInv == IInv /\ LoopPopOther => IInv'
<1> SUFFICES ASSUME IInv, LoopPopOther PROVE IInv'
  OBVIOUS
<1>1. /\ UNCHANGED <<now, queue, details, running, closed, wakeupCh, run, waited>>
      /\ loop' = LoopAt("top")
  BY DEF LoopPopOther
<1>2. head' \in Keys \cup {None} /\ HeadIsEarliest'
  BY <1>1 DEF LoopPopOther, IInv, TypeOK, HeadIsEarliest, Minima
<1>3. loop' \in LoopState /\ loop'.pc = "top"
  BY <1>1 DEF LoopAt, LoopState, LoopPc, NoTime
<1> QED
  BY <1>1, <1>2, <1>3 DEF IInv, TypeOK, LiveHasKey, SingleInstance, RunningIsLive,
     NothingLost, RunHasProperties, LoopKeyKnown, NoMissedWakeup, Live

LEMMA LoopPopIInv == IInv /\ LoopPop => IInv'
<1> SUFFICES ASSUME IInv, LoopPop PROVE IInv'
  OBVIOUS
<1>1. /\ queue' = [queue EXCEPT ![head] = None] /\ head' \in HeadsAfter(queue')
      /\ loop' = LoopAt("async")
      /\ UNCHANGED <<now, details, closed, wakeupCh, waited>>
  BY DEF LoopPop
<1>2. head # None
  BY SchedulerAssumption DEF LoopPop, IInv, LoopKeyKnown
<1>3. head \in Keys /\ queue[head] \in Activation /\ details[head] # None /\ running[head] = None
  BY <1>2, HeadFacts
<1>4. PICK r \in RunIds : newRunContextLocked(r, head, queue[head], "popped")
  BY DEF LoopPop
<1>5. (LiveHasKey /\ SingleInstance /\ RunningIsLive /\ RunHasProperties /\ NothingLost)'
  BY <1>1, <1>3, <1>4, RegisteredIInv
<1>6. run' \in [RunIds -> RunState] /\ running' \in [Keys -> RunIds \cup {None}]
  BY <1>3, <1>4, NewRunFacts
<1>7. head' \in Keys \cup {None} /\ HeadIsEarliest'
  BY <1>1 DEF HeadsAfter, HeadIsEarliest, Minima
<1>8. loop' \in LoopState /\ loop'.pc = "async"
  BY <1>1 DEF LoopAt, LoopState, LoopPc, NoTime
<1>9. TypeOK' /\ LoopKeyKnown' /\ NoMissedWakeup'
  BY <1>1, <1>3, <1>6, <1>7, <1>8 DEF IInv, TypeOK, LoopKeyKnown, NoMissedWakeup
<1> QED
  BY <1>5, <1>7, <1>9 DEF IInv

LEMMA StartPoppedIInv ==
  ASSUME IInv, NEW r \in RunIds, StartPopped(r)
  PROVE  IInv'
<1>1. /\ UNCHANGED <<now, queue, head, details, running, closed, wakeupCh, waited>>
      /\ run \in [RunIds -> RunState]
  BY DEF StartPopped, IInv, TypeOK
<1>2. run' \in [RunIds -> RunState]
  BY <1>1 DEF StartPopped, RunState, RunPc
<1>3. \A q \in RunIds : /\ Live(q)' <=> Live(q)
                        /\ run'[q].key = run[q].key /\ run'[q].props = run[q].props
  BY <1>1 DEF StartPopped, Live, RunState
<1>4. loop' \in LoopState /\ loop'.pc = "top"
  BY DEF StartPopped, LoopAt, LoopState, LoopPc, NoTime
<1>5. TypeOK'
  BY <1>1, <1>2, <1>4 DEF IInv, TypeOK
<1>6. (LiveHasKey /\ SingleInstance /\ RunHasProperties)'
  BY <1>1, <1>3 DEF IInv, LiveHasKey, SingleInstance, RunHasProperties
<1>7. RunningIsLive'
  BY <1>1, <1>3, SchedulerAssumption DEF IInv, TypeOK, RunningIsLive, Live
<1>8. (HeadIsEarliest /\ NothingLost /\ LoopKeyKnown /\ NoMissedWakeup)'
  BY <1>1, <1>4 DEF IInv, HeadIsEarliest, Minima, NothingLost, LoopKeyKnown, NoMissedWakeup
<1> QED
  BY <1>5, <1>6, <1>7, <1>8 DEF IInv

(* The end of run r clears the entry of its key in running. *)
LEMMA EndedRunFacts ==
  ASSUME IInv, NEW r \in RunIds, Reschedule(r)
  PROVE  /\ run[r].key \in Keys /\ queue[run[r].key] = None /\ running[run[r].key] = r
         /\ running' = [running EXCEPT ![run[r].key] = None]
         /\ run' = [run EXCEPT ![r] = IdleRun]
         /\ running' \in [Keys -> RunIds \cup {None}] /\ run' \in [RunIds -> RunState]
         /\ UNCHANGED <<now, closed, loop, waited>>
         /\ (LiveHasKey /\ RunningIsLive /\ RunHasProperties /\ LoopKeyKnown)'
         /\ \A q \in RunIds : Live(q)' => /\ q # r /\ Live(q) /\ run'[q].key = run[q].key
                                         /\ run[q].key \in Keys \ {run[r].key}
<1>1. /\ run[r].pc = "returned" /\ Live(r)
      /\ running' = [running EXCEPT ![run[r].key] = None]
      /\ run' = [run EXCEPT ![r] = IdleRun]
      /\ UNCHANGED <<now, closed, loop, waited>>
  BY DEF Reschedule, Live
<1>2. run \in [RunIds -> RunState] /\ running \in [Keys -> RunIds \cup {None}]
  BY DEF IInv, TypeOK
<1>3. run[r].key \in Keys /\ queue[run[r].key] = None /\ running[run[r].key] = r
  BY <1>1 DEF IInv, LiveHasKey, SingleInstance
<1>4. IdleRun \in RunState /\ IdleRun.pc = "idle"
  BY DEF IdleRun, RunState, RunPc, Cause, Int8, RunErr, NoTime
<1>5. running' \in [Keys -> RunIds \cup {None}] /\ run' \in [RunIds -> RunState]
  BY <1>1, <1>2, <1>4
<1>6. \A q \in RunIds : Live(q)' => q # r /\ Live(q) /\ run'[q] = run[q]
  BY <1>1, <1>2, <1>4 DEF Live
<1>7. \A q \in RunIds : Live(q)' => run[q].key \in Keys \ {run[r].key}
  BY <1>3, <1>6 DEF IInv, LiveHasKey, SingleInstance
<1>8. (LiveHasKey /\ RunHasProperties /\ LoopKeyKnown)'
  BY <1>1, <1>6 DEF IInv, LiveHasKey, RunHasProperties, LoopKeyKnown
<1>9. RunningIsLive'
  <2> SUFFICES ASSUME NEW k \in Keys, running'[k] # None
               PROVE  run'[running'[k]].pc # "idle" /\ run'[running'[k]].key = k
    BY DEF RunningIsLive, Live
  <2>1. k # run[r].key /\ running'[k] = running[k] /\ running[k] \in RunIds
    BY <1>1, <1>2, <1>3
  <2>2. Live(running[k]) /\ run[running[k]].key = k
    BY <2>1 DEF IInv, RunningIsLive
  <2>3. running[k] # r
    BY <2>1, <2>2
  <2> QED
    BY <1>1, <1>2, <2>1, <2>2, <2>3 DEF Live
<1> QED
  BY <1>1, <1>3, <1>5, <1>6, <1>7, <1>8, <1>9

(* Every branch of reschedule hands scheduleLocked well-formed arguments. *)
LEMMA ScheduleAfterRunFacts ==
  ASSUME IInv, NEW r \in RunIds, run[r].key \in Keys, UNCHANGED loop,
         NEW d \in Details, ScheduleAfterRun(r, d)
  PROVE  /\ QueueTyped' /\ HeadIsEarliest' /\ NoOversleep'
         /\ details' \in [Keys -> Details \cup {None}]
         /\ \A j \in Keys \ {run[r].key} : queue'[j] = queue[j] /\ details'[j] = details[j]
         /\ queue'[run[r].key] # None <=> details'[run[r].key] # None
         /\ wakeupCh => wakeupCh'
<1> DEFINE k == run[r].key
           next == TriggerNext(d.spec.trigger, d.fired, now)
           a == TriggerNext(d.spec.trigger, Asked(d, 0).fired, run[r].initial + 1)
           Result == /\ QueueTyped' /\ HeadIsEarliest' /\ NoOversleep'
                     /\ details' \in [Keys -> Details \cup {None}]
                     /\ \A j \in Keys \ {k} : queue'[j] = queue[j] /\ details'[j] = details[j]
                     /\ queue'[k] # None <=> details'[k] # None
                     /\ wakeupCh => wakeupCh'
<1>1. /\ run[r].initial \in Int /\ run[r].retry \in Int8 /\ run[r].props \in Properties \cup {None}
      /\ now \in Int
  BY DEF IInv, TypeOK, RunState
<1>2. d.tries \in Nat /\ d.spec \in Specs /\ d.fired \in BOOLEAN
  BY DEF Details
<1>3. next \in Int
  BY <1>1, <1>2, DetailsTrigger, Zenon
<1>4. a \in Int
  <2>1. Asked(d, 0).fired \in BOOLEAN /\ run[r].initial + 1 \in Int
    BY <1>1, DetailsFacts
  <2> QED
    BY <1>2, <2>1, DetailsTrigger, Zenon
<1>5. NoTime \in Int /\ 0 \in Int8 /\ None \in Properties \cup {None}
  BY DEF NoTime, Int8
<1>6. ASSUME NEW e \in Details, NEW nx \in Int, NEW pre \in Int, NEW retno \in Int8,
             NEW p \in Properties \cup {None}, scheduleLocked(k, e, nx, pre, retno, p)
      PROVE  Result
  BY <1>6, QueueOfIInv, ScheduleLockedFacts
<1>7. \A n \in Nat : Asked(d, n) \in Details
  BY DetailsFacts
<1> SUFFICES Result
  OBVIOUS
<1> HIDE DEF Result, next, a
<1>8. CASE /\ shouldContinue(r)
           /\ scheduleLocked(k, Asked(d, d.tries), now, run[r].initial, run[r].retry, run[r].props)
  BY <1>1, <1>2, <1>6, <1>7, <1>8
<1>9. CASE /\ d.tries < d.spec.retries
           /\ scheduleLocked(k, Asked(d, d.tries + 1), now + BackoffDelay[d.tries],
                             run[r].initial, ToInt8(run[r].retry + 1), run[r].props)
  <2>1. d.spec.retries \in Nat
    BY <1>2, SchedulerAssumption DEF DetailsSpec
  <2>2. d.tries \in 0..(d.spec.retries - 1)
    BY <1>2, <1>9, <2>1
  <2>3. BackoffDelay[d.tries] \in Nat
    BY <1>2, <2>2, SchedulerAssumption
  <2>4. now + BackoffDelay[d.tries] \in Int /\ d.tries + 1 \in Nat
    BY <1>1, <1>2, <2>3
  <2>5. ToInt8(run[r].retry + 1) \in Int8
    <3>1. run[r].retry + 1 \in Int
      BY <1>1 DEF Int8
    <3> QED
      BY <3>1, ToInt8Type
  <2> QED
    BY <1>1, <1>6, <1>7, <1>9, <2>4, <2>5
<1>10. CASE scheduleLocked(k, Asked(d, d.tries), next, NoTime, 0, None)
  BY <1>2, <1>3, <1>5, <1>6, <1>7, <1>10
<1>11. CASE scheduleLocked(k, Asked(d, 0), IF a > run[r].initial THEN a ELSE next, NoTime, 0, None)
  <2>1. (IF a > run[r].initial THEN a ELSE next) \in Int
    BY <1>3, <1>4
  <2> QED
    BY <1>5, <1>6, <1>7, <1>11, <2>1
<1> QED
  BY <1>8, <1>9, <1>10, <1>11 DEF ScheduleAfterRun, next, a

LEMMA RescheduleIInv ==
  ASSUME IInv, NEW r \in RunIds, Reschedule(r)
  PROVE  IInv'
<1> DEFINE k == run[r].key
<1>1. /\ k \in Keys /\ queue[k] = None
      /\ running' = [running EXCEPT ![k] = None]
      /\ running' \in [Keys -> RunIds \cup {None}] /\ run' \in [RunIds -> RunState]
      /\ UNCHANGED <<now, closed, loop, waited>>
      /\ (LiveHasKey /\ RunningIsLive /\ RunHasProperties /\ LoopKeyKnown)'
      /\ \A q \in RunIds : Live(q)' => /\ q # r /\ Live(q) /\ run'[q].key = run[q].key
                                      /\ run[q].key \in Keys \ {k}
  BY EndedRunFacts
<1>2. \A q \in RunIds : Live(q)' => running'[run'[q].key] = q /\ queue[run'[q].key] = None
  BY <1>1 DEF IInv, TypeOK, SingleInstance
<1>3. CASE closed \/ details[k] = None
  <2>1. UNCHANGED <<details, queue, head, wakeupCh>>
    BY <1>3 DEF Reschedule
  <2>2. TypeOK' /\ HeadIsEarliest' /\ NoMissedWakeup'
    BY <1>1, <2>1 DEF IInv, TypeOK, HeadIsEarliest, Minima, NoMissedWakeup
  <2>3. NothingLost'
    BY <1>1, <1>3, <2>1 DEF IInv, TypeOK, NothingLost
  <2>4. SingleInstance'
    BY <1>2, <2>1 DEF SingleInstance
  <2> QED
    BY <1>1, <2>2, <2>3, <2>4 DEF IInv
<1>4. CASE ~(closed \/ details[k] = None)
  <2>1. ScheduleAfterRun(r, details[k]) /\ details[k] \in Details
    BY <1>1, <1>4 DEF Reschedule, IInv, TypeOK
  <2>2. /\ QueueTyped' /\ HeadIsEarliest' /\ NoOversleep'
        /\ details' \in [Keys -> Details \cup {None}]
        /\ \A j \in Keys \ {k} : queue'[j] = queue[j] /\ details'[j] = details[j]
        /\ queue'[k] # None <=> details'[k] # None
        /\ wakeupCh => wakeupCh'
    BY <1>1, <2>1, ScheduleAfterRunFacts
  <2>3. TypeOK'
    BY <1>1, <2>2 DEF IInv, TypeOK, QueueTyped
  <2>4. NothingLost'
    BY <1>1, <2>2 DEF IInv, TypeOK, NothingLost
  <2>5. SingleInstance'
    BY <1>1, <1>2, <2>2 DEF SingleInstance
  <2>6. NoMissedWakeup'
    BY <1>1, <2>2, SleepFromQueue
  <2> QED
    BY <1>1, <2>2, <2>3, <2>4, <2>5, <2>6 DEF IInv
<1> QED
  BY <1>3, <1>4

(* IInv is inductive: one case per action. *)
LEMMA NextIInv == IInv /\ [Next]_vars => IInv'
<1> SUFFICES ASSUME IInv, [Next]_vars PROVE IInv'
  OBVIOUS
<1>1. CASE Callers
  BY <1>1, ScheduleIInv, UnscheduleIInv, TriggerIInv, StopIInv, CloseIInv DEF Callers
<1>2. CASE Wait
  BY <1>2, WaitIInv
<1>3. CASE Loop
  BY <1>3, LoopExitIInv, LoopTopIInv, SleepIInv, LoopPopOtherIInv, LoopPopIInv, StartPoppedIInv
     DEF Loop
<1>4. CASE Runs
  BY <1>4, StartTriggeredIInv, WindowEndsIInv, ReturnIInv, RescheduleIInv DEF Runs
<1>5. CASE Tick
  BY <1>5, TickIInv
<1>6. CASE UNCHANGED vars
  BY <1>6 DEF vars, IInv, TypeOK, LiveHasKey, SingleInstance, RunningIsLive, HeadIsEarliest,
     Minima, NothingLost, RunHasProperties, LoopKeyKnown, NoMissedWakeup, Live
<1> QED
  BY <1>1, <1>2, <1>3, <1>4, <1>5, <1>6 DEF Next

-----------------------------------------------------------------------------
(* The theorems. *)

(* The inductive invariant holds in every reachable state. *)
THEOREM Inductive == Spec => []IInv
  BY InitIInv, NextIInv, PTL DEF Spec

(***************************************************************************)
(* Every field of the scheduler keeps its type: activations carry times,   *)
(* retry numbers stay within int8, contexts have one of the four causes.   *)
(***************************************************************************)
THEOREM TypeCorrect == Spec => []TypeOK
<1>1. IInv => TypeOK
  BY DEF IInv
<1> QED
  BY <1>1, Inductive, PTL

(* "There can be a single instance of a key scheduled or running at all times." *)
THEOREM SingleInstanceCorrect == Spec => []SingleInstance
<1>1. IInv => SingleInstance
  BY DEF IInv
<1> QED
  BY <1>1, Inductive, PTL

(* A key given to Schedule is queued or running until unscheduled, exhausted or closed. *)
THEOREM NothingLostCorrect == Spec => []NothingLost
<1>1. IInv => NothingLost
  BY DEF IInv
<1> QED
  BY <1>1, Inductive, PTL

(* The main loop never sleeps past the earliest activation, nor through Close. *)
THEOREM NoMissedWakeupCorrect == Spec => []NoMissedWakeup
<1>1. IInv => NoMissedWakeup
  BY DEF IInv
<1> QED
  BY <1>1, Inductive, PTL

(* No run is started for a key whose details are gone. *)
THEOREM RunHasPropertiesCorrect == Spec => []RunHasProperties
<1>1. IInv => RunHasProperties
  BY DEF IInv
<1> QED
  BY <1>1, Inductive, PTL

-----------------------------------------------------------------------------
(* What follows a run. *)

(* A run ends, and its key is queued again, in Reschedule; by which branch the properties of the run tell. *)
LEMMA EndIsReschedule ==
  ASSUME IInv, [Next]_vars, NEW k \in Keys, EndsAndQueues(k)
  PROVE  /\ running[k] \in RunIds /\ run[running[k]].key = k
         /\ Reschedule(running[k]) /\ ~closed /\ details[k] \in Details /\ ScheduleAfterRun(running[k], details[k])
<1>1. running \in [Keys -> RunIds \cup {None}] /\ details \in [Keys -> Details \cup {None}] /\ None \notin RunIds
  BY SchedulerAssumption DEF IInv, TypeOK
<1>2. running[k] # None /\ running'[k] = None /\ queue'[k] # None /\ running' # running
  BY DEF EndsAndQueues
<1>3. ASSUME NEW j \in Keys, NEW r \in RunIds, running' = [running EXCEPT ![j] = r] PROVE FALSE
  BY <1>1, <1>2, <1>3
<1>4. ~(\E j \in Keys : TriggerKey(j)) /\ ~LoopPop
  <2>1. ASSUME NEW j \in Keys, TriggerKey(j) PROVE FALSE
    BY <1>3, <2>1 DEF TriggerKey, newRunContextLocked
  <2>2. ASSUME LoopPop PROVE FALSE
    <3>1. head \in Keys
      <4>1. head # None
        BY <2>2, SchedulerAssumption DEF LoopPop, IInv, LoopKeyKnown
      <4>2. QED  BY <4>1, HeadFacts
    <3>2. QED  BY <1>3, <2>2, <3>1 DEF LoopPop, newRunContextLocked
  <2>3. QED  BY <2>1, <2>2
<1>5. PICK r \in RunIds : Reschedule(r)
  BY <1>2, <1>4 DEF Next, Callers, Loop, Runs, vars, Schedule, Unschedule, Stop, Close, Wait, LoopExit, LoopTop, SleepTimeout, SleepWakeup,
                    LoopPopOther, StartPopped, StartTriggered, WindowEnds, Return, Tick
<1>6. /\ run[r].key \in Keys /\ queue[run[r].key] = None /\ running[run[r].key] = r
      /\ running' = [running EXCEPT ![run[r].key] = None]
  BY <1>5, EndedRunFacts
<1>7. run[r].key = k /\ running[k] = r
  BY <1>1, <1>2, <1>6
<1>8. ~(closed \/ details[k] = None)
  BY <1>2, <1>5, <1>6, <1>7 DEF Reschedule
<1>9. QED  BY <1>1, <1>5, <1>7, <1>8 DEF Reschedule

(* Whoever is queued by scheduleLocked is queued with the arguments. *)
LEMMA QueuedWith ==
  ASSUME IInv, NEW k \in Keys, NEW d, NEW next, NEW pre, NEW retno, NEW p, scheduleLocked(k, d, next, pre, retno, p), queue'[k] # None
  PROVE  /\ next # NoTime
         /\ queue'[k].time = WindowNext(d.spec.window, next).begin
         /\ queue'[k].retry = retno /\ queue'[k].pre = pre /\ queue'[k].props = p
<1>1. queue \in [Keys -> Activation \cup {None}]
  BY DEF IInv, TypeOK
<1>2. next # NoTime
  BY <1>1 DEF scheduleLocked, unscheduleLocked, Remove
<1>3. PICK slot : slot = WindowNext(d.spec.window, next)
  OBVIOUS
<1>4. queue' = [queue EXCEPT ![k] = [time |-> slot.begin, retry |-> retno, props |-> p, stop |-> slot.end, pre |-> pre]]
  BY <1>2, <1>3 DEF scheduleLocked, Push
<1>5. queue'[k] = [time |-> slot.begin, retry |-> retno, props |-> p, stop |-> slot.end, pre |-> pre]
  BY <1>1, <1>4
<1>6. QED  BY <1>2, <1>3, <1>5

(* A run that was stopped is neither retried nor continued, also when its window closed or the scheduler was closed later. *)
THEOREM StoppedStartsAfreshCorrect == Spec => StoppedStartsAfresh
<1>1. ASSUME IInv, [Next]_vars, NEW k \in Keys, EndsAndQueues(k), run[running[k]].cause = "stopped"
      PROVE  queue'[k].retry = 0 /\ queue'[k].pre = NoTime /\ queue'[k].props = None
  <2>1. PICK r \in RunIds : r = running[k]
    BY <1>1, EndIsReschedule
  <2>2. PICK d \in Details : d = details[k]
    BY <1>1, EndIsReschedule
  <2>3. run[r].key = k /\ ScheduleAfterRun(r, d) /\ queue'[k] # None
    BY <1>1, <2>1, <2>2, EndIsReschedule DEF EndsAndQueues
  <2>4. ~shouldContinue(r) /\ ~shouldRetry(r)
    BY <1>1, <2>1 DEF shouldContinue, shouldRetry
  <2>5. PICK next : scheduleLocked(k, Asked(d, 0), next, NoTime, 0, None)
    BY <2>3, <2>4 DEF ScheduleAfterRun
  <2>6. QED  BY <1>1, <2>3, <2>5, QueuedWith
<1>2. IInv /\ [Next]_vars => [\A k \in Keys :
         EndsAndQueues(k) /\ run[running[k]].cause = "stopped"
           => /\ queue'[k].retry = 0
              /\ queue'[k].pre = NoTime
              /\ queue'[k].props = None]_vars
  BY <1>1
<1>3. QED  BY <1>2, Inductive, PTL DEF Spec, StoppedStartsAfresh

-----------------------------------------------------------------------------
(* Points of the clock. *)
OnGrid(t) == \E q \in Int : t = q * ClockStep

LEMMA GridPlus == ASSUME NEW a, NEW b, OnGrid(a), OnGrid(b) PROVE OnGrid(a + b) /\ a + b \in Int
<1>1. PICK p \in Int : a = p * ClockStep
  BY DEF OnGrid
<1>2. PICK q \in Int : b = q * ClockStep
  BY DEF OnGrid
<1>3. ClockStep \in Int
  BY SchedulerAssumption
<1>4. a + b = (p + q) * ClockStep /\ p + q \in Int /\ a + b \in Int
  BY <1>1, <1>2, <1>3
<1>5. QED  BY <1>4 DEF OnGrid

LEMMA GridTimes == ASSUME NEW n \in Int, NEW a, OnGrid(a) PROVE OnGrid(n * a) /\ n * a \in Int
<1>1. PICK p \in Int : a = p * ClockStep
  BY DEF OnGrid
<1>2. ClockStep \in Int
  BY SchedulerAssumption
<1>3. n * (p * ClockStep) = (n * p) * ClockStep /\ n * p \in Int /\ n * a \in Int
  BY <1>1, <1>2
<1>4. QED  BY <1>1, <1>3 DEF OnGrid

LEMMA GridInt == ASSUME NEW a, OnGrid(a) PROVE a \in Int
  BY SchedulerAssumption DEF OnGrid

LEMMA GridOf == OnGrid(0) /\ OnGrid(NoTime) /\ OnGrid(ClockStep)
<1>1. ClockStep \in Int /\ 0 = 0 * ClockStep /\ ClockStep = 1 * ClockStep
  BY SchedulerAssumption
<1>2. QED  BY <1>1 DEF OnGrid, NoTime

LEMMA OffGrid == ASSUME ClockStep > 1, NEW a, OnGrid(a) PROVE ~OnGrid(a + 1)
<1>1. SUFFICES ASSUME OnGrid(a + 1) PROVE FALSE
  OBVIOUS
<1>2. PICK p \in Int : a = p * ClockStep
  BY DEF OnGrid
<1>3. PICK q \in Int : a + 1 = q * ClockStep
  BY <1>1 DEF OnGrid
<1>4. ClockStep \in Int
  BY SchedulerAssumption
<1>5. (q - p) * ClockStep = 1 /\ q - p \in Int
  BY <1>2, <1>3, <1>4
<1>6. CASE q - p <= 0
  BY <1>4, <1>5, <1>6
<1>7. CASE q - p >= 1
  BY <1>4, <1>5, <1>7
<1>8. QED  BY <1>5, <1>6, <1>7

(* A multiple of a period that is later than a time is not before the first one. *)
LEMMA CronIsNext ==
  ASSUME NEW p \in Nat \ {0}, NEW from \in Int, NEW t \in Int, t > from, t % p = 0
  PROVE  t >= ((from \div p) + 1) * p
<1>1. PICK q \in Int : q = from \div p
  OBVIOUS
<1>2. PICK m \in Int : m = t \div p
  OBVIOUS
<1>3. t = m * p
  BY <1>2
<1>4. from >= q * p
  BY <1>1
<1>5. m * p > q * p
  BY <1>3, <1>4
<1>6. m > q
  <2>1. SUFFICES ASSUME m <= q PROVE m * p <= q * p
    BY <1>5
  <2>2. (q - m) * p >= 0
    BY <2>1
  <2>3. QED  BY <2>2
<1>7. (m - (q + 1)) * p >= 0
  BY <1>6
<1>8. QED  BY <1>1, <1>3, <1>7

LEMMA CronIsLater ==
  ASSUME NEW p \in Nat \ {0}, NEW from \in Int PROVE ((from \div p) + 1) * p > from /\ ((from \div p) + 1) * p \in Int
  OBVIOUS

LEMMA GridIf == ASSUME NEW c \in BOOLEAN, NEW a, NEW b, c => OnGrid(a), ~c => OnGrid(b) PROVE OnGrid(IF c THEN a ELSE b)
  OBVIOUS

(* The trigger of a caller's Details starts on the grid and its period is on it. *)
TriggerOnGrid(tr) == OnGrid(tr.start) /\ OnGrid(tr.period)

LEMMA TriggerNextOnGrid ==
  ASSUME NEW tr \in Trigger, tr.kind = "cron" => tr.period > 0, TriggerOnGrid(tr),
         NEW fired \in BOOLEAN, NEW t \in Int, tr.once /\ ~fired => OnGrid(t)
  PROVE  OnGrid(TriggerNext(tr, fired, t))
<1>1. tr.start \in Int /\ tr.period \in Nat /\ tr.once \in BOOLEAN /\ OnGrid(tr.start) /\ OnGrid(tr.period)
  BY DEF Trigger, TriggerOnGrid
<1>2. CASE tr.kind = "cron"
  <2>1. PICK from \in Int : from = IF tr.start > t THEN tr.start ELSE t
    BY <1>1
  <2>2. from \div tr.period \in Int
    BY <1>1, <1>2, DivType
  <2>3. PICK n \in Int : n = (from \div tr.period) + 1
    BY <2>2
  <2>4. OnGrid(n * tr.period)
    BY <1>1, GridTimes
  <2>5. OnGrid(CronNext(tr, t))
    BY <2>1, <2>3, <2>4 DEF CronNext
  <2>6. QED  BY <1>1, <1>2, <2>5, GridOf DEF TriggerNext, EarlierNonZero, OnceNext
<1>3. CASE tr.kind # "cron"
  <2>1. OnGrid(LegacyNext(tr, t))
    <3>1. CASE tr.start > t \/ tr.period = 0
      BY <1>1, <3>1, GridOf DEF LegacyNext
    <3>2. CASE ~(tr.start > t) /\ tr.period # 0
      <4>1. ((t - tr.start) + tr.period - 1) \div tr.period \in Int
        BY <1>1, <3>2, DivType
      <4>2. PICK n \in Int : n = ((t - tr.start) + tr.period - 1) \div tr.period
        BY <4>1
      <4>3. OnGrid(tr.start + n * tr.period)
        <5>1. OnGrid(n * tr.period)
          BY <1>1, GridTimes
        <5>2. QED  BY <1>1, <5>1, GridPlus
      <4>4. QED  BY <3>2, <4>2, <4>3 DEF LegacyNext
    <3>3. QED  BY <3>1, <3>2
  <2>2. QED  BY <1>1, <1>3, <2>1, GridOf DEF TriggerNext, EarlierNonZero, OnceNext
<1>4. QED  BY <1>2, <1>3

(* The slots of a window begin on the grid. *)
WindowOnGrid(w) == \A i \in DOMAIN w : OnGrid(w[i].begin.time)

LEMMA WindowNextOnGrid ==
  ASSUME OnGrid(DayLen), NEW w \in Seq(Slot), WindowOnGrid(w), NEW t \in Int, OnGrid(t)
  PROVE  OnGrid(WindowNext(w, t).begin)
<1>1. CASE w = <<>>
  BY <1>1 DEF WindowNext
<1>2. CASE w # <<>>
  <2>1. SearchSlot(w, t) \in DOMAIN w
    BY <1>2 DEF SearchSlot
  <2>2. PICK i : i = w[SearchSlot(w, t)].begin
    OBVIOUS
  <2>3. i \in WeekdayTime /\ OnGrid(i.time)
    <3>1. PICK n \in DOMAIN w : n = SearchSlot(w, t)
      BY <2>1
    <3>2. w[n] \in Slot /\ OnGrid(w[n].begin.time)
      BY DEF WindowOnGrid
    <3>3. QED  BY <2>2, <3>1, <3>2 DEF Slot
  <2>4. DayLen \in Nat \ {0} /\ WeekDays \in Nat /\ i.weekday \in Int /\ i.time \in Int
    BY <2>3, CalendarAssumption DEF WeekdayTime
  <2>5. t \div DayLen \in Int
    BY <2>4, DivType
  <2>6. PICK q \in Int : q = t \div DayLen
    BY <2>5
  <2>7. Midnight(t) \in Int /\ OnGrid(Midnight(t))
    BY <2>6, GridTimes DEF Midnight
  <2>8. WeekdayOf(Midnight(t)) \in Int
    <3>1. Midnight(t) \div DayLen \in Int
      BY <2>4, <2>7, DivType
    <3>2. WeekDays \in Nat \ {0} /\ (Midnight(t) \div DayLen) + 1 \in Int
      BY <3>1, CalendarAssumption
    <3>3. QED  BY <3>2, DivType DEF WeekdayOf
  <2>9. PICK d \in Int : d = LET x == i.weekday - WeekdayOf(Midnight(t))
                             IN  IF x < 0 \/ (x = 0 /\ t - Midnight(t) > i.time) THEN x + WeekDays ELSE x
    BY <2>4, <2>8
  <2>10. OnGrid(d * DayLen)
    BY GridTimes
  <2>11. OnGrid(Midnight(t) + d * DayLen)
    BY <2>7, <2>10, GridPlus
  <2>12. OnGrid(Midnight(t) + d * DayLen + i.time)
    BY <2>3, <2>11, GridPlus
  <2>13. OnGrid(NextWeekdayTime(i, t))
    BY <2>9, <2>12 DEF NextWeekdayTime
  <2>14. QED  BY <1>2, <2>2, <2>13 DEF WindowNext
<1>3. QED  BY <1>1, <1>2

-----------------------------------------------------------------------------
(* No activation of a cron trigger is skipped. *)

(***************************************************************************)
(* Every date and duration a caller passes is a whole number of clock      *)
(* steps, and a step is longer than the 1 ns that reschedule adds to the   *)
(* initial activation: no run starts 1 ns before an activation.            *)
(***************************************************************************)
OnClock ==
  /\ ClockStep > 1
  /\ OnGrid(DayLen)
  /\ \A s \in Specs : /\ TriggerOnGrid(s.trigger)
                      /\ WindowOnGrid(s.window)
                      /\ \A n \in 0..(s.retries - 1) : OnGrid(BackoffDelay[n])

(* What the queue and the runs then know of time are times of the clock. *)
TimesOnGrid ==
  /\ OnGrid(now)
  /\ \A k \in Keys : queue[k] # None => OnGrid(queue[k].time) /\ OnGrid(queue[k].pre)
  /\ \A r \in RunIds : OnGrid(run[r].initial)

(* scheduleLocked queues at a time of the clock when it is given one. *)
LEMMA ScheduleLockedOnGrid ==
  ASSUME OnClock, IInv, TimesOnGrid, NEW k \in Keys, NEW d \in Details, NEW next \in Int, OnGrid(next),
         NEW pre, OnGrid(pre), NEW retno, NEW p, scheduleLocked(k, d, next, pre, retno, p)
  PROVE  \A j \in Keys : queue'[j] # None => OnGrid(queue'[j].time) /\ OnGrid(queue'[j].pre)
<1>1. queue \in [Keys -> Activation \cup {None}]
  BY DEF IInv, TypeOK
<1>2. \A j \in Keys \ {k} : queue'[j] = queue[j]
  BY <1>1 DEF scheduleLocked, unscheduleLocked, Remove, Push
<1>3. d.spec \in Specs /\ d.spec.window \in Seq(Slot)
  BY SchedulerAssumption DEF Details, DetailsSpec
<1>4. ASSUME queue'[k] # None PROVE OnGrid(queue'[k].time) /\ OnGrid(queue'[k].pre)
  <2>1. queue'[k].time = WindowNext(d.spec.window, next).begin /\ queue'[k].pre = pre
    BY <1>4, QueuedWith
  <2>2. PICK w \in Seq(Slot) : w = d.spec.window /\ WindowOnGrid(w)
    BY <1>3 DEF OnClock
  <2>3. OnGrid(WindowNext(w, next).begin)
    BY WindowNextOnGrid, <2>2 DEF OnClock
  <2>4. QED  BY <2>1, <2>2, <2>3
<1>5. QED  BY <1>2, <1>4 DEF TimesOnGrid

(* A new run's initial activation is that of its activation in the queue, or zero until a triggered run starts. *)
LEMMA NewRunOnGrid ==
  ASSUME IInv, TimesOnGrid, NEW r \in RunIds, NEW k, NEW a, NEW pc, newRunContextLocked(r, k, a, pc),
         pc = "popped" => OnGrid(a.time) /\ OnGrid(a.pre)
  PROVE  \A q \in RunIds : OnGrid(run'[q].initial)
<1>1. run \in [RunIds -> RunState]
  BY DEF IInv, TypeOK
<1>2. PICK t : t = IF pc = "popped" THEN InitialActivation(a) ELSE NoTime
  OBVIOUS
<1>3. OnGrid(t)
  BY <1>2, GridOf DEF InitialActivation
<1>4. run'[r].initial = t
  BY <1>1, <1>2 DEF newRunContextLocked
<1>5. \A q \in RunIds \ {r} : run'[q] = run[q]
  BY <1>1 DEF newRunContextLocked
<1>6. QED  BY <1>3, <1>4, <1>5 DEF TimesOnGrid

LEMMA DetailsOnGrid ==
  ASSUME OnClock, NEW s \in Specs, NEW f \in BOOLEAN, NEW t \in Int, s.trigger.once /\ ~f => OnGrid(t)
  PROVE  OnGrid(TriggerNext(s.trigger, f, t))
<1>1. s.trigger \in Trigger /\ (s.trigger.kind = "cron" => s.trigger.period > 0) /\ TriggerOnGrid(s.trigger)
  BY SchedulerAssumption DEF DetailsSpec, OnClock
<1>2. PICK tr \in Trigger : tr = s.trigger
  BY <1>1
<1>3. QED  BY <1>1, <1>2, TriggerNextOnGrid

LEMMA TimesOnGridInit == Init => TimesOnGrid
  BY GridOf DEF Init, TimesOnGrid, IdleRun

LEMMA ScheduleOnGrid ==
  ASSUME OnClock, IInv, TimesOnGrid, NEW k \in Keys, NEW s \in Specs, Schedule(k, s) PROVE TimesOnGrid'
<1>1. CASE running[k] # None
  BY <1>1 DEF Schedule, TimesOnGrid, queueVars
<1>2. CASE running[k] = None
  <2>1. now \in Int /\ FALSE \in BOOLEAN /\ OnGrid(now)
    BY DEF IInv, TypeOK, TimesOnGrid
  <2>2. TriggerNext(s.trigger, FALSE, now) \in Int
    BY <2>1, DetailsTrigger, Zenon
  <2>3. OnGrid(TriggerNext(s.trigger, FALSE, now))
    BY <2>1, DetailsOnGrid, Zenon
  <2>4. Asked(Fresh(s), 0) \in Details
    BY DetailsFacts
  <2>5. scheduleLocked(k, Asked(Fresh(s), 0), TriggerNext(s.trigger, FALSE, now), NoTime, 0, None)
    BY <1>2 DEF Schedule
  <2>6. \A j \in Keys : queue'[j] # None => OnGrid(queue'[j].time) /\ OnGrid(queue'[j].pre)
    BY <2>2, <2>3, <2>4, <2>5, GridOf, ScheduleLockedOnGrid
  <2>7. QED  BY <2>6 DEF Schedule, TimesOnGrid
<1>3. QED  BY <1>1, <1>2

LEMMA RescheduleOnGrid ==
  ASSUME OnClock, IInv, TimesOnGrid, NEW r \in RunIds, Reschedule(r) PROVE TimesOnGrid'
<1>1. /\ run' = [run EXCEPT ![r] = IdleRun] /\ UNCHANGED now /\ now \in Int /\ OnGrid(now)
      /\ run \in [RunIds -> RunState] /\ run[r].initial \in Int /\ OnGrid(run[r].initial)
  BY DEF Reschedule, IInv, TypeOK, TimesOnGrid, RunState
<1>2. \A q \in RunIds : OnGrid(run'[q].initial)
  BY <1>1, GridOf DEF TimesOnGrid, IdleRun
<1>3. CASE closed \/ details[run[r].key] = None
  BY <1>1, <1>2, <1>3 DEF Reschedule, TimesOnGrid
<1>4. CASE ~(closed \/ details[run[r].key] = None)
  <2>1. run[r].key \in Keys /\ details[run[r].key] \in Details
    BY <1>4, EndedRunFacts DEF IInv, TypeOK
  <2>2. PICK k \in Keys : k = run[r].key
    BY <2>1
  <2>3. PICK d \in Details : d = details[run[r].key]
    BY <2>1
  <2>4. ScheduleAfterRun(r, d)
    BY <1>4, <2>3 DEF Reschedule
  <2>5. d.spec \in Specs /\ d.fired \in BOOLEAN /\ d.tries \in Nat /\ d.spec.retries \in Nat /\ d.spec.trigger.once \in BOOLEAN
    BY SchedulerAssumption DEF Details, DetailsSpec, Trigger
  <2>6. \A n \in Nat : Asked(d, n) \in Details
    BY DetailsFacts
  <2>7. PICK next \in Int : next = TriggerNext(d.spec.trigger, d.fired, now) /\ OnGrid(next)
    BY <1>1, <2>5, DetailsTrigger, DetailsOnGrid
  <2>8. PICK a \in Int : a = TriggerNext(d.spec.trigger, Asked(d, 0).fired, run[r].initial + 1) /\ OnGrid(a)
    <3>1. PICK f \in BOOLEAN : f = Asked(d, 0).fired
      BY <2>5, DetailsFacts
    <3>2. d.spec.trigger.once => f
      BY <3>1 DEF Asked
    <3>3. PICK t \in Int : t = run[r].initial + 1
      BY <1>1
    <3>4. TriggerNext(d.spec.trigger, f, t) \in Int /\ OnGrid(TriggerNext(d.spec.trigger, f, t))
      BY <2>5, <3>2, DetailsTrigger, DetailsOnGrid
    <3>5. QED  BY <3>1, <3>3, <3>4
  <2>9. CASE shouldContinue(r)
    <3>1. scheduleLocked(k, Asked(d, d.tries), now, run[r].initial, run[r].retry, run[r].props)
      BY <2>2, <2>4, <2>9 DEF ScheduleAfterRun
    <3>2. \A j \in Keys : queue'[j] # None => OnGrid(queue'[j].time) /\ OnGrid(queue'[j].pre)
      BY <1>1, <2>5, <2>6, <3>1, ScheduleLockedOnGrid
    <3>3. QED  BY <1>1, <1>2, <3>2 DEF TimesOnGrid
  <2>10. CASE ~shouldContinue(r) /\ shouldRetry(r) /\ d.tries < d.spec.retries
    <3>1. scheduleLocked(k, Asked(d, d.tries + 1), now + BackoffDelay[d.tries],
                         run[r].initial, ToInt8(run[r].retry + 1), run[r].props)
      BY <2>2, <2>4, <2>5, <2>10 DEF ScheduleAfterRun
    <3>2. d.tries \in 0..(d.spec.retries - 1)
      BY <2>5, <2>10
    <3>3. OnGrid(BackoffDelay[d.tries])
      BY <2>5, <3>2 DEF OnClock
    <3>4. PICK t \in Int : t = now + BackoffDelay[d.tries] /\ OnGrid(t)
      BY <1>1, <3>3, GridPlus
    <3>5. Asked(d, d.tries + 1) \in Details
      BY <2>5, <2>6
    <3>6. \A j \in Keys : queue'[j] # None => OnGrid(queue'[j].time) /\ OnGrid(queue'[j].pre)
      BY <1>1, <3>1, <3>4, <3>5, ScheduleLockedOnGrid
    <3>7. QED  BY <1>1, <1>2, <3>6 DEF TimesOnGrid
  <2>11. CASE ~shouldContinue(r) /\ shouldRetry(r) /\ d.tries >= d.spec.retries
    <3>1. scheduleLocked(k, Asked(d, d.tries), next, NoTime, 0, None)
      BY <2>2, <2>4, <2>5, <2>7, <2>11 DEF ScheduleAfterRun
    <3>2. \A j \in Keys : queue'[j] # None => OnGrid(queue'[j].time) /\ OnGrid(queue'[j].pre)
      BY <2>5, <2>6, <2>7, <3>1, GridOf, ScheduleLockedOnGrid
    <3>3. QED  BY <1>1, <1>2, <3>2 DEF TimesOnGrid
  <2>12. CASE ~shouldContinue(r) /\ ~shouldRetry(r)
    <3>1. PICK t \in Int : t = (IF a > run[r].initial THEN a ELSE next) /\ OnGrid(t)
      BY <2>7, <2>8
    <3>2. scheduleLocked(k, Asked(d, 0), t, NoTime, 0, None)
      BY <2>2, <2>4, <2>7, <2>8, <2>12, <3>1 DEF ScheduleAfterRun
    <3>3. \A j \in Keys : queue'[j] # None => OnGrid(queue'[j].time) /\ OnGrid(queue'[j].pre)
      BY <2>6, <3>1, <3>2, GridOf, ScheduleLockedOnGrid
    <3>4. QED  BY <1>1, <1>2, <3>3 DEF TimesOnGrid
  <2>13. QED  BY <2>5, <2>9, <2>10, <2>11, <2>12
<1>5. QED  BY <1>3, <1>4

(* Only a triggered run that starts changes its initial activation, to the time. *)
LEMMA InitialStays ==
  ASSUME IInv, NEW r \in RunIds, StartPopped(r) \/ StartTriggered(r) \/ WindowEnds(r) \/ Return(r)
  PROVE  \A q \in RunIds : run'[q].initial \in {run[q].initial, now}
<1>1. run \in [RunIds -> RunState]
  BY DEF IInv, TypeOK
<1>2. CASE StartPopped(r) \/ StartTriggered(r) \/ WindowEnds(r)
  BY <1>1, <1>2 DEF StartPopped, StartTriggered, WindowEnds, RunState
<1>3. CASE Return(r)
  <2>1. PICK e \in RunErr : run' = [run EXCEPT ![r] = [run[r] EXCEPT !.pc = "returned", !.err = e]]
    BY <1>3 DEF Return
  <2>2. run'[r] = [run[r] EXCEPT !.pc = "returned", !.err = e] /\ \A q \in RunIds \ {r} : run'[q] = run[q]
    BY <1>1, <2>1
  <2>3. run'[r].initial = run[r].initial
    BY <1>1, <2>2 DEF RunState
  <2>4. QED  BY <2>2, <2>3
<1>4. QED  BY <1>2, <1>3

LEMMA TimesOnGridStep == ASSUME OnClock, IInv, TimesOnGrid, [Next]_vars PROVE TimesOnGrid'
<1>1. ASSUME NEW k \in Keys, NEW s \in Specs, Schedule(k, s) PROVE TimesOnGrid'
  BY <1>1, ScheduleOnGrid
<1>2. ASSUME NEW k \in Keys, Unschedule(k) PROVE TimesOnGrid'
  BY <1>2 DEF Unschedule, unscheduleLocked, Remove, TimesOnGrid, IInv, TypeOK
<1>3. ASSUME NEW k \in Keys, TriggerKey(k) PROVE TimesOnGrid'
  <2>1. \A q \in RunIds : OnGrid(run'[q].initial)
    <3>1. PICK r \in RunIds : newRunContextLocked(r, k, [time |-> NoTime, retry |-> 0, props |-> None,
                                  stop |-> NoTime, pre |-> NoTime], "triggered")
      BY <1>3 DEF TriggerKey
    <3>2. QED  BY <3>1, NewRunOnGrid
  <2>2. QED  BY <1>3, <2>1 DEF TriggerKey, Remove, TimesOnGrid, IInv, TypeOK
<1>4. ASSUME NEW k \in Keys, Stop(k) PROVE TimesOnGrid'
  <2>1. run \in [RunIds -> RunState] /\ \A r \in RunIds : run'[r].initial = run[r].initial
    BY <1>4 DEF Stop, IInv, TypeOK, RunState
  <2>2. QED  BY <1>4, <2>1 DEF Stop, TimesOnGrid
<1>5. ASSUME Close PROVE TimesOnGrid'
  <2>1. \A r \in RunIds : run'[r].initial = run[r].initial
    BY <1>5 DEF Close, IInv, TypeOK, RunState
  <2>2. QED  BY <1>5, <2>1 DEF Close, TimesOnGrid
<1>6. ASSUME LoopPop PROVE TimesOnGrid'
  <2>1. head \in Keys /\ queue[head] # None
    <3>1. head # None
      BY <1>6, SchedulerAssumption DEF LoopPop, IInv, LoopKeyKnown
    <3>2. QED  BY <3>1, HeadFacts
  <2>2. \A q \in RunIds : OnGrid(run'[q].initial)
    <3>1. PICK r \in RunIds : newRunContextLocked(r, head, queue[head], "popped")
      BY <1>6 DEF LoopPop
    <3>2. PICK a : a = queue[head]
      OBVIOUS
    <3>3. OnGrid(a.time) /\ OnGrid(a.pre)
      BY <2>1, <3>2 DEF TimesOnGrid
    <3>4. PICK k : k = head
      OBVIOUS
    <3>5. QED  BY <3>1, <3>2, <3>3, <3>4, NewRunOnGrid
  <2>3. QED  BY <1>6, <2>1, <2>2 DEF LoopPop, TimesOnGrid, IInv, TypeOK
<1>7. ASSUME NEW r \in RunIds, StartPopped(r) \/ StartTriggered(r) \/ WindowEnds(r) \/ Return(r) PROVE TimesOnGrid'
  <2>1. \A q \in RunIds : run'[q].initial \in {run[q].initial, now}
    BY <1>7, InitialStays
  <2>2. QED  BY <1>7, <2>1 DEF StartPopped, StartTriggered, WindowEnds, Return, TimesOnGrid
<1>8. ASSUME NEW r \in RunIds, Reschedule(r) PROVE TimesOnGrid'
  BY <1>8, RescheduleOnGrid
<1>9. ASSUME Tick PROVE TimesOnGrid'
  <2>1. OnGrid(now')
    BY <1>9, GridPlus, GridOf DEF Tick, TimesOnGrid
  <2>2. QED  BY <1>9, <2>1 DEF Tick, TimesOnGrid
<1>10. ASSUME Wait \/ LoopExit \/ LoopTop \/ SleepTimeout \/ SleepWakeup \/ LoopPopOther \/ UNCHANGED vars PROVE TimesOnGrid'
  BY <1>10 DEF Wait, LoopExit, LoopTop, SleepTimeout, SleepWakeup, LoopPopOther, vars, TimesOnGrid
<1>11. QED  BY <1>1, <1>2, <1>3, <1>4, <1>5, <1>6, <1>7, <1>8, <1>9, <1>10 DEF Next, Callers, Loop, Runs

(***************************************************************************)
(* The next activation of a cron trigger is the first after the initial    *)
(* one, however long the run, its retries and its continuations took.      *)
(***************************************************************************)
THEOREM ActivationsNotSkippedCorrect == OnClock => (Spec => ActivationsNotSkipped)
<1> SUFFICES ASSUME OnClock PROVE Spec => ActivationsNotSkipped
  OBVIOUS
<1>1. IInv /\ TimesOnGrid /\ [Next]_vars => TimesOnGrid'
  BY TimesOnGridStep
<1>2. ASSUME IInv, TimesOnGrid, [Next]_vars, NEW k \in Keys, EndsAndQueues(k),
             ~shouldContinue(running[k]), ~shouldRetry(running[k]),
             details[k].spec.trigger.kind = "cron", ~details[k].spec.trigger.once, details[k].spec.window = <<>>,
             NEW t \in (run[running[k]].initial + 1)..(queue'[k].time - 1),
             t > details[k].spec.trigger.start, t % details[k].spec.trigger.period = 0
      PROVE  FALSE
  <2>1. PICK r \in RunIds : r = running[k]
    BY <1>2, EndIsReschedule
  <2>2. PICK d \in Details : d = details[k]
    BY <1>2, EndIsReschedule
  <2>3. run[r].key = k /\ ScheduleAfterRun(r, d) /\ queue'[k] # None
    BY <1>2, <2>1, <2>2, EndIsReschedule DEF EndsAndQueues
  <2>4. PICK tr \in Trigger : tr = d.spec.trigger
    BY SchedulerAssumption DEF Details, DetailsSpec
  <2>5. /\ tr.kind = "cron" /\ ~tr.once /\ tr.period \in Nat \ {0} /\ tr.start \in Int /\ OnGrid(tr.period)
        /\ d.spec.window = <<>>
    BY <1>2, <2>2, <2>4, SchedulerAssumption DEF Details, DetailsSpec, Trigger, OnClock, TriggerOnGrid
  <2>6. PICK i \in Int : i = run[r].initial /\ OnGrid(i)
    BY <1>2 DEF IInv, TypeOK, RunState, TimesOnGrid
  <2>7. PICK from \in Int : from = IF tr.start > i + 1 THEN tr.start ELSE i + 1
    BY <2>5
  <2>8. PICK a \in Int : a = ((from \div tr.period) + 1) * tr.period /\ a > from
    BY <2>5, CronIsLater
  <2>9. a = TriggerNext(tr, Asked(d, 0).fired, i + 1)
    BY <2>5, <2>7, <2>8 DEF TriggerNext, CronNext
  <2>10. a > i
    BY <2>5, <2>7, <2>8
  <2>11. scheduleLocked(k, Asked(d, 0), a, NoTime, 0, None)
    BY <1>2, <2>1, <2>3, <2>4, <2>6, <2>9, <2>10 DEF ScheduleAfterRun
  <2>12. queue'[k].time = a
    <3>1. queue'[k].time = WindowNext(Asked(d, 0).spec.window, a).begin
      BY <1>2, <2>3, <2>11, QueuedWith
    <3>2. QED  BY <2>5, <3>1 DEF Asked, WindowNext
  <2>13. t \in Int /\ t > i /\ t < a /\ t > tr.start /\ t % tr.period = 0
    BY <1>2, <2>1, <2>2, <2>4, <2>6, <2>12
  <2>14. PICK m \in Int : t = m * tr.period
    <3>1. t \div tr.period \in Int /\ t = (t \div tr.period) * tr.period
      BY <2>5, <2>13
    <3>2. QED  BY <3>1
  <2>15. OnGrid(t)
    BY <2>5, <2>14, GridTimes
  <2>16. t # i + 1
    BY <2>6, <2>15, OffGrid DEF OnClock
  <2>17. t > from
    BY <2>5, <2>7, <2>13, <2>16
  <2>18. t >= a
    BY <2>5, <2>8, <2>13, <2>17, CronIsNext
  <2>19. QED  BY <2>13, <2>18
<1>3. IInv /\ TimesOnGrid /\ [Next]_vars =>
  [\A k \in Keys :
       LET r == running[k]
           s == details[k].spec
       IN  EndsAndQueues(k) /\ ~shouldContinue(r) /\ ~shouldRetry(r)
             /\ s.trigger.kind = "cron" /\ ~s.trigger.once /\ s.window = <<>>
           => \A t \in (run[r].initial + 1)..(queue'[k].time - 1) :
                t > s.trigger.start => t % s.trigger.period # 0]_vars
  BY <1>2
<1>4. QED  BY <1>1, <1>3, Inductive, TimesOnGridInit, PTL DEF Spec, ActivationsNotSkipped

-----------------------------------------------------------------------------
(* Times are not before the zero time. *)

(* The first multiple of a period that is not before a time. *)
LEMMA LegacyIsNext ==
  ASSUME NEW p \in Nat \ {0}, NEW s \in Int, NEW t \in Int, s <= t
  PROVE  \A q \in Int : q = ((t - s) + p - 1) \div p => s + q * p >= t
<1>0. SUFFICES ASSUME NEW n \in Int, n = ((t - s) + p - 1) \div p PROVE s + n * p >= t
  OBVIOUS
<1>1. PICK x \in Int : x = (t - s) + p - 1
  OBVIOUS
<1>2. PICK q \in Int : q = x \div p
  BY DivType
<1>3. PICK m \in Int : m = q * p /\ x - m <= p - 1
  <2>1. q * p \in Int
    OBVIOUS
  <2>2. x - q * p <= p - 1
    BY <1>2
  <2>3. QED  BY <2>1, <2>2
<1>4. m >= t - s
  BY <1>1, <1>3
<1>5. s + m >= t
  BY <1>4
<1>6. QED  BY <1>0, <1>1, <1>2, <1>3, <1>5

(* The periodic part of a trigger, asked at a time that is not zero. *)
Periodic(tr, t) == IF tr.kind = "cron" THEN CronNext(tr, t) ELSE LegacyNext(tr, t)

LEMMA PeriodicFacts ==
  ASSUME NEW tr \in Trigger, tr.kind = "cron" => tr.period > 0, NEW t \in Nat
  PROVE  /\ Periodic(tr, t) \in Nat
         /\ t > 0 /\ Periodic(tr, t) = NoTime => tr.kind # "cron" /\ tr.period = 0
         /\ Periodic(tr, t) # NoTime => tr.kind = "cron" \/ tr.period > 0 \/ tr.start # NoTime
<1>1. tr.start \in Int /\ tr.period \in Nat
  BY DEF Trigger
<1>2. CASE tr.kind = "cron"
  <2>1. PICK from \in Int : from = (IF tr.start > t THEN tr.start ELSE t) /\ from >= t
    BY <1>1
  <2>2. tr.period \in Nat \ {0}
    BY <1>1, <1>2
  <2>3. ((from \div tr.period) + 1) * tr.period > from /\ ((from \div tr.period) + 1) * tr.period \in Int
    BY <2>2, CronIsLater
  <2>4. Periodic(tr, t) = ((from \div tr.period) + 1) * tr.period
    BY <1>2, <2>1 DEF Periodic, CronNext
  <2>5. PICK n \in Int : n = Periodic(tr, t) /\ n > from
    BY <2>3, <2>4
  <2>6. n \in Nat /\ n > 0
    BY <2>1, <2>5
  <2>7. QED  BY <1>2, <2>5, <2>6 DEF NoTime
<1>3. CASE tr.kind # "cron" /\ tr.start > t
  BY <1>1, <1>3 DEF Periodic, LegacyNext, NoTime
<1>4. CASE tr.kind # "cron" /\ ~(tr.start > t) /\ tr.period = 0
  BY <1>1, <1>4 DEF Periodic, LegacyNext, NoTime
<1>5. CASE tr.kind # "cron" /\ ~(tr.start > t) /\ tr.period # 0
  <2>1. tr.period \in Nat \ {0} /\ tr.start <= t
    BY <1>1, <1>5
  <2>2. ((t - tr.start) + tr.period - 1) \div tr.period \in Int
    BY <1>1, <2>1, DivType
  <2>3. PICK q \in Int : q = ((t - tr.start) + tr.period - 1) \div tr.period
    BY <2>2
  <2>4. tr.start + q * tr.period >= t /\ tr.start + q * tr.period \in Int
    <3>1. PICK p \in Nat \ {0} : p = tr.period
      BY <2>1
    <3>2. PICK s \in Int : s = tr.start /\ s <= t
      BY <1>1, <2>1
    <3>3. q = ((t - s) + p - 1) \div p
      BY <2>3, <3>1, <3>2
    <3>4. s + q * p >= t
      BY <3>2, <3>3, LegacyIsNext
    <3>5. s + q * p \in Int
      OBVIOUS
    <3>6. QED  BY <3>1, <3>2, <3>4, <3>5
  <2>5. Periodic(tr, t) = tr.start + q * tr.period
    BY <1>5, <2>3 DEF Periodic, LegacyNext
  <2>6. PICK n \in Int : n = Periodic(tr, t) /\ n >= t
    BY <2>4, <2>5
  <2>7. n \in Nat
    BY <2>6
  <2>8. t > 0 => n # NoTime
    BY <2>6 DEF NoTime
  <2>9. tr.period > 0
    BY <2>1
  <2>10. QED  BY <2>6, <2>7, <2>8, <2>9
<1>6. QED  BY <1>2, <1>3, <1>4, <1>5

(***************************************************************************)
(* A trigger never yields a time before the zero time; it has a next       *)
(* activation for certain if its once part was not asked or it is periodic *)
(* for ever, and none for certain if it has nothing else than a once part. *)
(***************************************************************************)
LEMMA TriggerNextFacts ==
  ASSUME NEW s \in Specs, NEW f \in BOOLEAN, NEW t \in Nat
  PROVE  LET tr == s.trigger
             next == TriggerNext(tr, f, t)
         IN  /\ next \in Nat
             /\ t > 0 /\ next = NoTime => ~(tr.once /\ ~f) /\ tr.kind # "cron" /\ tr.period = 0
             /\ next # NoTime => (tr.once /\ ~f) \/ tr.kind = "cron" \/ tr.period > 0 \/ tr.start # NoTime
<1>1. PICK tr \in Trigger : tr = s.trigger /\ (tr.kind = "cron" => tr.period > 0) /\ tr.once \in BOOLEAN
  BY SchedulerAssumption DEF DetailsSpec, Trigger
<1>2. PICK p \in Nat : /\ p = Periodic(tr, t)
                       /\ t > 0 /\ p = NoTime => tr.kind # "cron" /\ tr.period = 0
                       /\ p # NoTime => tr.kind = "cron" \/ tr.period > 0 \/ tr.start # NoTime
  BY <1>1, PeriodicFacts
<1>3. TriggerNext(tr, f, t) = IF tr.once THEN EarlierNonZero(OnceNext(f, t), p) ELSE p
  BY <1>2 DEF TriggerNext, Periodic
<1>4. CASE ~tr.once
  BY <1>1, <1>2, <1>3, <1>4
<1>5. CASE tr.once /\ f
  BY <1>1, <1>2, <1>3, <1>5 DEF EarlierNonZero, OnceNext, NoTime
<1>6. CASE tr.once /\ ~f
  BY <1>1, <1>2, <1>3, <1>6 DEF EarlierNonZero, OnceNext, NoTime
<1>7. QED  BY <1>1, <1>4, <1>5, <1>6

(* A slot of a window does not begin before the zero time. *)
LEMMA WindowNextNat ==
  ASSUME NEW w \in Seq(Slot), NEW t \in Nat
  PROVE  WindowNext(w, t).begin \in Nat
<1>1. CASE w = <<>>
  BY <1>1 DEF WindowNext
<1>2. CASE w # <<>>
  <2>1. SearchSlot(w, t) \in DOMAIN w
    BY <1>2 DEF SearchSlot
  <2>2. PICK i \in WeekdayTime : i = w[SearchSlot(w, t)].begin
    <3>1. w[SearchSlot(w, t)] \in Slot
      BY <2>1
    <3>2. QED  BY <3>1 DEF Slot
  <2>3. DayLen \in Nat \ {0} /\ WeekDays \in Nat \ {0} /\ i.weekday \in Nat /\ i.time \in Nat
    BY CalendarAssumption DEF WeekdayTime
  <2>4. PICK q \in Nat : q = t \div DayLen
    BY <2>3
  <2>5. PICK m \in Nat : m = Midnight(t)
    <3>1. q * DayLen \in Nat
      BY <2>3
    <3>2. QED  BY <2>4, <3>1 DEF Midnight
  <2>6. PICK v \in 0..(WeekDays - 1) : v = WeekdayOf(m)
    <3>1. m \div DayLen \in Int
      BY <2>3, DivType
    <3>2. PICK x \in Int : x = (m \div DayLen) + 1
      BY <3>1
    <3>3. x % WeekDays \in 0..(WeekDays - 1)
      BY <2>3
    <3>4. QED  BY <3>2, <3>3 DEF WeekdayOf
  <2>7. PICK x \in Int : x = i.weekday - v /\ x + WeekDays >= 0
    BY <2>3
  <2>8. PICK d \in Nat : d = IF x < 0 \/ (x = 0 /\ t - m > i.time) THEN x + WeekDays ELSE x
    BY <2>3, <2>7
  <2>9. d * DayLen \in Nat
    BY <2>3
  <2>10. m + d * DayLen + i.time \in Nat
    BY <2>3, <2>9
  <2>11. NextWeekdayTime(i, t) = m + d * DayLen + i.time
    BY <2>5, <2>6, <2>7, <2>8 DEF NextWeekdayTime
  <2>12. QED  BY <1>2, <2>2, <2>10, <2>11 DEF WindowNext
<1>3. QED  BY <1>1, <1>2

(* The clock is past the zero time, and nothing is queued or was due before it. *)
TimesPositive ==
  /\ now > 0
  /\ \A k \in Keys : queue[k] # None => queue[k].time \in Nat /\ queue[k].pre \in Nat
  /\ \A r \in RunIds : run[r].initial \in Nat

LEMMA ScheduleLockedPositive ==
  ASSUME IInv, TimesPositive, NEW k \in Keys, NEW d \in Details, NEW next \in Nat,
         NEW pre \in Nat, NEW retno, NEW p, scheduleLocked(k, d, next, pre, retno, p)
  PROVE  \A j \in Keys : queue'[j] # None => queue'[j].time \in Nat /\ queue'[j].pre \in Nat
<1>1. queue \in [Keys -> Activation \cup {None}]
  BY DEF IInv, TypeOK
<1>2. \A j \in Keys \ {k} : queue'[j] = queue[j]
  BY <1>1 DEF scheduleLocked, unscheduleLocked, Remove, Push
<1>3. d.spec \in Specs /\ d.spec.window \in Seq(Slot)
  BY SchedulerAssumption DEF Details, DetailsSpec
<1>4. ASSUME queue'[k] # None PROVE queue'[k].time \in Nat /\ queue'[k].pre \in Nat
  <2>1. queue'[k].time = WindowNext(d.spec.window, next).begin /\ queue'[k].pre = pre
    BY <1>4, QueuedWith
  <2>2. WindowNext(d.spec.window, next).begin \in Nat
    BY <1>3, WindowNextNat
  <2>3. QED  BY <2>1, <2>2
<1>5. QED  BY <1>2, <1>4 DEF TimesPositive

LEMMA NewRunPositive ==
  ASSUME IInv, TimesPositive, NEW r \in RunIds, NEW k, NEW a, NEW pc, newRunContextLocked(r, k, a, pc),
         pc = "popped" => a.time \in Nat /\ a.pre \in Nat
  PROVE  \A q \in RunIds : run'[q].initial \in Nat
<1>1. run \in [RunIds -> RunState]
  BY DEF IInv, TypeOK
<1>2. PICK t : t = IF pc = "popped" THEN InitialActivation(a) ELSE NoTime
  OBVIOUS
<1>3. t \in Nat
  BY <1>2 DEF InitialActivation, NoTime
<1>4. run'[r].initial = t
  BY <1>1, <1>2 DEF newRunContextLocked
<1>5. \A q \in RunIds \ {r} : run'[q] = run[q]
  BY <1>1 DEF newRunContextLocked
<1>6. QED  BY <1>3, <1>4, <1>5 DEF TimesPositive

LEMMA SchedulePositive ==
  ASSUME IInv, TimesPositive, NEW k \in Keys, NEW s \in Specs, Schedule(k, s) PROVE TimesPositive'
<1>1. CASE running[k] # None
  BY <1>1 DEF Schedule, TimesPositive, queueVars
<1>2. CASE running[k] = None
  <2>1. now \in Nat /\ FALSE \in BOOLEAN
    BY DEF IInv, TypeOK
  <2>2. PICK next \in Nat : next = TriggerNext(s.trigger, FALSE, now)
    BY <2>1, TriggerNextFacts, Zenon
  <2>3. PICK d \in Details : d = Asked(Fresh(s), 0)
    BY DetailsFacts
  <2>4. scheduleLocked(k, d, next, NoTime, 0, None)
    BY <1>2, <2>2, <2>3 DEF Schedule
  <2>5. NoTime \in Nat
    BY DEF NoTime
  <2>6. \A j \in Keys : queue'[j] # None => queue'[j].time \in Nat /\ queue'[j].pre \in Nat
    BY <2>4, <2>5, ScheduleLockedPositive
  <2>7. QED  BY <2>6 DEF Schedule, TimesPositive
<1>3. QED  BY <1>1, <1>2

(***************************************************************************)
(* The four ways in which reschedule queues a key, and what it knows of    *)
(* the time: now or a positive delay later, the next activation, or, after *)
(* a run that is over, an activation a later than the initial one.         *)
(***************************************************************************)
LEMMA AfterRunCases ==
  ASSUME IInv, TimesPositive, NEW r \in RunIds, run[r].key \in Keys, NEW d \in Details, ScheduleAfterRun(r, d)
  PROVE  \E n \in Nat, next \in Nat, pre \in Nat, retno \in Int8, p \in Properties \cup {None} :
           /\ scheduleLocked(run[r].key, Asked(d, n), next, pre, retno, p)
           /\ \/ shouldContinue(r) /\ next > 0
              \/ ~shouldContinue(r) /\ shouldRetry(r) /\ next > 0
              \/ /\ ~shouldContinue(r)
                 /\ next = TriggerNext(d.spec.trigger, d.fired, now)
              \/ /\ ~shouldContinue(r) /\ next > 0
                 /\ next = TriggerNext(d.spec.trigger, Asked(d, 0).fired, run[r].initial + 1)
<1>1. /\ now \in Nat /\ now > 0 /\ run[r].initial \in Nat /\ NoTime \in Nat /\ 0 \in Nat
      /\ run[r].retry \in Int8 /\ run[r].props \in Properties \cup {None} /\ 0 \in Int8
      /\ None \in Properties \cup {None}
  BY DEF IInv, TypeOK, TimesPositive, NoTime, RunState, Int8
<1>2. d.spec \in Specs /\ d.fired \in BOOLEAN /\ d.tries \in Nat /\ d.spec.retries \in Nat
  BY SchedulerAssumption DEF Details, DetailsSpec
<1>3. PICK next \in Nat : next = TriggerNext(d.spec.trigger, d.fired, now)
  BY <1>1, <1>2, TriggerNextFacts, Zenon
<1>4. PICK a \in Nat : a = TriggerNext(d.spec.trigger, Asked(d, 0).fired, run[r].initial + 1)
  <2>1. PICK f \in BOOLEAN : f = Asked(d, 0).fired
    BY DetailsFacts
  <2>2. PICK t \in Nat : t = run[r].initial + 1
    BY <1>1
  <2>3. TriggerNext(d.spec.trigger, f, t) \in Nat
    BY <1>2, TriggerNextFacts, Zenon
  <2>4. QED  BY <2>1, <2>2, <2>3
<1>5. CASE shouldContinue(r)
  <2>1. scheduleLocked(run[r].key, Asked(d, d.tries), now, run[r].initial, run[r].retry, run[r].props)
    BY <1>5 DEF ScheduleAfterRun
  <2>2. QED  BY <1>1, <1>2, <1>5, <2>1
<1>6. CASE ~shouldContinue(r) /\ shouldRetry(r) /\ d.tries < d.spec.retries
  <2>1. d.tries \in 0..(d.spec.retries - 1)
    BY <1>2, <1>6
  <2>2. PICK x \in Nat : x = now + BackoffDelay[d.tries] /\ x > 0
    BY <1>1, <1>2, <2>1, SchedulerAssumption
  <2>3. scheduleLocked(run[r].key, Asked(d, d.tries + 1), x, run[r].initial, ToInt8(run[r].retry + 1), run[r].props)
    BY <1>2, <1>6, <2>2 DEF ScheduleAfterRun
  <2>4. PICK n \in Nat : n = d.tries + 1
    BY <1>2
  <2>5. ToInt8(run[r].retry + 1) \in Int8
    <3>1. run[r].retry + 1 \in Int
      BY <1>1 DEF Int8
    <3>2. QED  BY <3>1, ToInt8Type
  <2>6. QED  BY <1>1, <1>6, <2>2, <2>3, <2>4, <2>5
<1>7. CASE ~shouldContinue(r) /\ shouldRetry(r) /\ d.tries >= d.spec.retries
  <2>1. scheduleLocked(run[r].key, Asked(d, d.tries), next, NoTime, 0, None)
    BY <1>2, <1>3, <1>7 DEF ScheduleAfterRun
  <2>2. QED  BY <1>1, <1>2, <1>3, <1>7, <2>1
<1>8. CASE ~shouldContinue(r) /\ ~shouldRetry(r)
  <2>1. scheduleLocked(run[r].key, Asked(d, 0), IF a > run[r].initial THEN a ELSE next, NoTime, 0, None)
    BY <1>3, <1>4, <1>8 DEF ScheduleAfterRun
  <2>2. CASE a > run[r].initial
    <3>1. scheduleLocked(run[r].key, Asked(d, 0), a, NoTime, 0, None)
      BY <2>1, <2>2
    <3>2. a > 0
      BY <1>1, <2>2
    <3>3. QED  BY <1>1, <1>4, <1>8, <3>1, <3>2
  <2>3. CASE ~(a > run[r].initial)
    <3>1. scheduleLocked(run[r].key, Asked(d, 0), next, NoTime, 0, None)
      BY <2>1, <2>3
    <3>2. QED  BY <1>1, <1>3, <1>8, <3>1
  <2>4. QED  BY <2>2, <2>3
<1>9. QED
  <2>1. d.tries < d.spec.retries \/ d.tries >= d.spec.retries
    BY <1>2
  <2>2. QED  BY <1>5, <1>6, <1>7, <1>8, <2>1, Zenon

LEMMA ReschedulePositive ==
  ASSUME IInv, TimesPositive, NEW r \in RunIds, Reschedule(r) PROVE TimesPositive'
<1>1. /\ run' = [run EXCEPT ![r] = IdleRun] /\ UNCHANGED now /\ run \in [RunIds -> RunState]
  BY DEF Reschedule, IInv, TypeOK
<1>2. \A q \in RunIds : run'[q].initial \in Nat
  BY <1>1 DEF TimesPositive, IdleRun, NoTime
<1>3. CASE closed \/ details[run[r].key] = None
  BY <1>1, <1>2, <1>3 DEF Reschedule, TimesPositive
<1>4. CASE ~(closed \/ details[run[r].key] = None)
  <2>1. PICK k \in Keys : k = run[r].key
    BY EndedRunFacts
  <2>2. PICK d \in Details : d = details[run[r].key]
    BY <1>4, <2>1 DEF IInv, TypeOK
  <2>3. ScheduleAfterRun(r, d)
    BY <1>4, <2>2 DEF Reschedule
  <2>4. PICK n \in Nat, next \in Nat, pre \in Nat, retno \in Int8, p \in Properties \cup {None} :
          scheduleLocked(k, Asked(d, n), next, pre, retno, p)
    BY <2>1, <2>3, AfterRunCases
  <2>5. PICK e \in Details : e = Asked(d, n)
    BY DetailsFacts
  <2>6. \A j \in Keys : queue'[j] # None => queue'[j].time \in Nat /\ queue'[j].pre \in Nat
    BY <2>4, <2>5, ScheduleLockedPositive
  <2>7. QED  BY <1>1, <1>2, <2>6 DEF TimesPositive
<1>5. QED  BY <1>3, <1>4

LEMMA TimesPositiveStep == ASSUME IInv, TimesPositive, [Next]_vars PROVE TimesPositive'
<1>1. ASSUME NEW k \in Keys, NEW s \in Specs, Schedule(k, s) PROVE TimesPositive'
  BY <1>1, SchedulePositive
<1>2. ASSUME NEW k \in Keys, Unschedule(k) PROVE TimesPositive'
  BY <1>2 DEF Unschedule, unscheduleLocked, Remove, TimesPositive, IInv, TypeOK
<1>3. ASSUME NEW k \in Keys, TriggerKey(k) PROVE TimesPositive'
  <2>1. \A q \in RunIds : run'[q].initial \in Nat
    <3>1. PICK r \in RunIds : newRunContextLocked(r, k, [time |-> NoTime, retry |-> 0, props |-> None,
                                  stop |-> NoTime, pre |-> NoTime], "triggered")
      BY <1>3 DEF TriggerKey
    <3>2. QED  BY <3>1, NewRunPositive
  <2>2. QED  BY <1>3, <2>1 DEF TriggerKey, Remove, TimesPositive, IInv, TypeOK
<1>4. ASSUME NEW k \in Keys, Stop(k) PROVE TimesPositive'
  <2>1. \A r \in RunIds : run'[r].initial = run[r].initial
    BY <1>4 DEF Stop, IInv, TypeOK, RunState
  <2>2. QED  BY <1>4, <2>1 DEF Stop, TimesPositive
<1>5. ASSUME Close PROVE TimesPositive'
  <2>1. \A r \in RunIds : run'[r].initial = run[r].initial
    BY <1>5 DEF Close, IInv, TypeOK, RunState
  <2>2. QED  BY <1>5, <2>1 DEF Close, TimesPositive
<1>6. ASSUME LoopPop PROVE TimesPositive'
  <2>1. head \in Keys /\ queue[head] # None
    <3>1. head # None
      BY <1>6, SchedulerAssumption DEF LoopPop, IInv, LoopKeyKnown
    <3>2. QED  BY <3>1, HeadFacts
  <2>2. \A q \in RunIds : run'[q].initial \in Nat
    <3>1. PICK r \in RunIds : newRunContextLocked(r, head, queue[head], "popped")
      BY <1>6 DEF LoopPop
    <3>2. PICK a : a = queue[head]
      OBVIOUS
    <3>3. a.time \in Nat /\ a.pre \in Nat
      BY <2>1, <3>2 DEF TimesPositive
    <3>4. PICK k : k = head
      OBVIOUS
    <3>5. QED  BY <3>1, <3>2, <3>3, <3>4, NewRunPositive
  <2>3. QED  BY <1>6, <2>1, <2>2 DEF LoopPop, TimesPositive, IInv, TypeOK
<1>7. ASSUME NEW r \in RunIds, StartPopped(r) \/ StartTriggered(r) \/ WindowEnds(r) \/ Return(r) PROVE TimesPositive'
  <2>1. \A q \in RunIds : run'[q].initial \in {run[q].initial, now}
    BY <1>7, InitialStays
  <2>2. now \in Nat
    BY DEF IInv, TypeOK
  <2>3. QED  BY <1>7, <2>1, <2>2 DEF StartPopped, StartTriggered, WindowEnds, Return, TimesPositive
<1>8. ASSUME NEW r \in RunIds, Reschedule(r) PROVE TimesPositive'
  BY <1>8, ReschedulePositive
<1>9. ASSUME Tick PROVE TimesPositive'
  BY <1>9, SchedulerAssumption DEF Tick, TimesPositive, IInv, TypeOK
<1>10. ASSUME Wait \/ LoopExit \/ LoopTop \/ SleepTimeout \/ SleepWakeup \/ LoopPopOther \/ UNCHANGED vars PROVE TimesPositive'
  BY <1>10 DEF Wait, LoopExit, LoopTop, SleepTimeout, SleepWakeup, LoopPopOther, vars, TimesPositive
<1>11. QED  BY <1>1, <1>2, <1>3, <1>4, <1>5, <1>6, <1>7, <1>8, <1>9, <1>10 DEF Next, Callers, Loop, Runs

LEMMA TimesPositiveInit == Init => TimesPositive
  BY SchedulerAssumption DEF Init, TimesPositive, IdleRun, NoTime

-----------------------------------------------------------------------------
(***************************************************************************)
(* The scheduler implements SchedulerPromise.  What the promise sees of a  *)
(* key and of a run first, then one lemma per kind of step.                *)
(***************************************************************************)

(* What a trigger will still yield. *)
LEMMA LeftFacts ==
  ASSUME NEW d \in Details, NEW n
  PROVE  /\ TriggerLeft(d) \in Promise!Trigger
         /\ TriggerLeft(Asked(d, n)) = Promise!Asked(TriggerLeft(d))
         /\ TriggerLeft(d).once = (d.spec.trigger.once /\ ~d.fired)
         /\ TriggerLeft(d).rest = IF d.spec.trigger.kind = "cron" \/ d.spec.trigger.period > 0 THEN "always"
                                  ELSE IF d.spec.trigger.start = NoTime THEN "never" ELSE "sometimes"
<1>1. PICK o \in BOOLEAN : o = (d.spec.trigger.once /\ ~d.fired)
  BY Zenon
<1>2. PICK rest \in {"always", "sometimes", "never"} :
        rest = IF d.spec.trigger.kind = "cron" \/ d.spec.trigger.period > 0 THEN "always"
               ELSE IF d.spec.trigger.start = NoTime THEN "never" ELSE "sometimes"
  OBVIOUS
<1>3. TriggerLeft(d) = [once |-> o, rest |-> rest]
  BY <1>1, <1>2, Zenon DEF TriggerLeft
<1>4. PICK x : x = Asked(d, n)
  OBVIOUS
<1>5. PICK b \in BOOLEAN : b = (d.fired \/ d.spec.trigger.once)
  BY Zenon
<1>a. d.spec.trigger.once => b
  BY <1>5, Zenon
<1>b. x = [spec |-> d.spec, fired |-> b, tries |-> n]
  BY <1>4, <1>5, Zenon DEF Asked
<1>c. x.spec = d.spec /\ x.fired = b
  BY <1>b
<1>d. ~(x.spec.trigger.once /\ ~x.fired)
  BY <1>a, <1>c, Zenon
<1>e. PICK c \in BOOLEAN : c = (x.spec.trigger.once /\ ~x.fired)
  BY Zenon
<1>f. ~c
  BY <1>d, <1>e, Zenon
<1>6. TriggerLeft(x) = [once |-> c, rest |-> rest]
  BY <1>2, <1>c, <1>e DEF TriggerLeft
<1>7. TriggerLeft(x) = [once |-> FALSE, rest |-> rest]
  BY <1>6, <1>f
<1>8. Promise!Asked(TriggerLeft(d)) = [once |-> FALSE, rest |-> rest]
  <2>1. \A f : [[once |-> o, rest |-> rest] EXCEPT !.once = f] = [once |-> f, rest |-> rest]
    OBVIOUS
  <2>2. QED  BY <1>3, <2>1, Zenon DEF Promise!Asked
<1>9. TriggerLeft(d) \in Promise!Trigger
  BY <1>3 DEF Promise!Trigger
<1>10. TriggerLeft(d).once = o /\ TriggerLeft(d).rest = rest
  BY <1>3
<1>11. QED  BY <1>1, <1>2, <1>4, <1>7, <1>8, <1>9, <1>10, Zenon

(* A trigger yields, and does not yield, as the promise allows; a once part that was asked yields less. *)
LEMMA MayFacts ==
  ASSUME NEW d \in Details, NEW f \in BOOLEAN, d.fired => f, NEW t \in Nat,
         NEW next, next = TriggerNext(d.spec.trigger, f, t)
  PROVE  /\ next # NoTime => Promise!MayActivate(TriggerLeft(d))
         /\ t > 0 /\ next = NoTime /\ f = d.fired => Promise!MayExpire(TriggerLeft(d))
<1>1. d.spec \in Specs /\ d.fired \in BOOLEAN /\ d.spec.trigger.once \in BOOLEAN
  BY SchedulerAssumption DEF Details, DetailsSpec, Trigger
<1>2. PICK tr : tr = d.spec.trigger
  OBVIOUS
<1>3. /\ t > 0 /\ next = NoTime => ~(tr.once /\ ~f) /\ tr.kind # "cron" /\ tr.period = 0
      /\ next # NoTime => (tr.once /\ ~f) \/ tr.kind = "cron" \/ tr.period > 0 \/ tr.start # NoTime
  BY <1>1, <1>2, TriggerNextFacts
<1>4. /\ TriggerLeft(d).once <=> tr.once /\ ~d.fired
      /\ TriggerLeft(d).rest = IF tr.kind = "cron" \/ tr.period > 0 THEN "always"
                               ELSE IF tr.start = NoTime THEN "never" ELSE "sometimes"
  BY <1>2, LeftFacts
<1>5. ASSUME next # NoTime PROVE Promise!MayActivate(TriggerLeft(d))
  <2>1. CASE tr.once /\ ~f
    BY <1>4, <2>1, Zenon DEF Promise!MayActivate
  <2>2. CASE tr.kind = "cron" \/ tr.period > 0 \/ tr.start # NoTime
    BY <1>4, <2>2 DEF Promise!MayActivate
  <2>3. QED  BY <1>3, <1>5, <2>1, <2>2
<1>6. ASSUME t > 0, next = NoTime, f = d.fired PROVE Promise!MayExpire(TriggerLeft(d))
  <2>1. ~(tr.once /\ ~d.fired)
    BY <1>3, <1>6
  <2>2. TriggerLeft(d).rest # "always"
    BY <1>3, <1>4, <1>6
  <2>3. QED  BY <1>4, <2>1, <2>2, Zenon DEF Promise!MayExpire
<1>7. QED  BY <1>5, <1>6

(* A run that is live is no nil, and neither is what a trigger yields. *)
LEMMA ContextFacts ==
  ASSUME IInv, NEW r \in RunIds, Live(r)
  PROVE  Context(r) \in Promise!Run /\ Context(r) # None /\ Context(r).key = run[r].key
<1>1. run[r] \in RunState /\ run[r].key \in Keys
  BY DEF IInv, TypeOK, LiveHasKey
<1>2. CauseSeen[run[r].cause] \in Promise!Cause
  BY <1>1 DEF RunState, Cause, CauseSeen, Promise!Cause
<1>3. PICK w \in BOOLEAN : w = (run[r].stop # NoTime)
  BY Zenon
<1>4. PICK e \in {"none", "done", "failed"} :
        e = IF run[r].pc # "returned" THEN "none" ELSE IF run[r].err = "error" THEN "failed" ELSE "done"
  OBVIOUS
<1>5. Context(r) = [key |-> run[r].key, window |-> w, cause |-> CauseSeen[run[r].cause], result |-> e]
  BY <1>3, <1>4, Zenon DEF Context
<1>6. Context(r) \in Promise!Run
  BY <1>1, <1>2, <1>5 DEF Promise!Run
<1>7. QED  BY <1>5, <1>6, PromiseAssumption

LEMMA RunningIs ==
  ASSUME IInv, NEW k \in Keys PROVE Promise!IsRunning(k) <=> running[k] # None
<1>1. ASSUME NEW r \in RunIds, Live(r), run[r].key = k PROVE running[k] # None
  BY <1>1, SchedulerAssumption DEF IInv, SingleInstance
<1>2. ASSUME running[k] # None PROVE \E r \in RunIds : Live(r) /\ run[r].key = k
  BY <1>2 DEF IInv, TypeOK, RunningIsLive
<1>3. \A r \in RunIds : Live(r) => Context(r) # None /\ Context(r).key = run[r].key
  BY ContextFacts
<1>4. QED  BY <1>1, <1>2, <1>3 DEF Promise!IsRunning

(* The queue and the details, through the mapping. *)
LEMMA IsEnqueue ==
  ASSUME NEW k \in Keys, NEW d \in Details, NEW n,
         queue'[k] # None, details'[k] # None, details'[k] = Asked(d, n),
         \A j \in Keys \ {k} : queue'[j] = queue[j] /\ details'[j] = details[j]
  PROVE  Promise!Enqueue(k, TriggerLeft(d))
<1>1. TriggerLeft(details'[k]) = Promise!Asked(TriggerLeft(d))
  BY LeftFacts
<1>2. QED  BY <1>1 DEF Promise!Enqueue

LEMMA IsForget ==
  ASSUME NEW k \in Keys, queue'[k] = None, details'[k] = None,
         \A j \in Keys \ {k} : queue'[j] = queue[j] /\ details'[j] = details[j]
  PROVE  Promise!Forget(k)
  BY DEF Promise!Forget

(* scheduleLocked queues the key with its trigger asked, or forgets it. *)
LEMMA IsScheduleLocked ==
  ASSUME IInv, UNCHANGED loop, NEW k \in Keys, NEW d \in Details, NEW n \in Nat, NEW next \in Nat,
         NEW pre \in Nat, NEW retno \in Int8, NEW p \in Properties \cup {None},
         scheduleLocked(k, Asked(d, n), next, pre, retno, p)
  PROVE  /\ next # NoTime => Promise!Enqueue(k, TriggerLeft(d))
         /\ next = NoTime => Promise!Forget(k)
<1>1. /\ queue \in [Keys -> Activation \cup {None}] /\ details \in [Keys -> Details \cup {None}]
      /\ Asked(d, n) \in Details
  BY DetailsFacts DEF IInv, TypeOK
<1>2. ASSUME next # NoTime PROVE Promise!Enqueue(k, TriggerLeft(d))
  <2>1. PICK slot : slot = WindowNext(d.spec.window, next)
    OBVIOUS
  <2>2. PICK a : a = [time |-> slot.begin, retry |-> retno, props |-> p, stop |-> slot.end, pre |-> pre]
    OBVIOUS
  <2>3. details' = [details EXCEPT ![k] = Asked(d, n)] /\ queue' = [queue EXCEPT ![k] = a]
    BY <1>2, <2>1, <2>2 DEF scheduleLocked, Push, Asked
  <2>4. a \in Activation
    <3>1. d.spec.window \in Seq(Slot)
      BY SchedulerAssumption DEF Details, DetailsSpec
    <3>2. slot.begin \in Int /\ slot.end \in Int
      BY <2>1, <3>1, WindowNextType
    <3>3. QED  BY <2>2, <3>2 DEF Activation
  <2>5. a # None /\ Asked(d, n) # None
    BY <1>1, <2>4, SchedulerAssumption
  <2>6. QED  BY <1>1, <2>3, <2>5, IsEnqueue
<1>3. ASSUME next = NoTime PROVE Promise!Forget(k)
  <2>1. details' = [details EXCEPT ![k] = None] /\ queue' = [queue EXCEPT ![k] = None]
    BY <1>3 DEF scheduleLocked, unscheduleLocked, Remove
  <2>2. QED  BY <1>1, <2>1, IsForget
<1>4. QED  BY <1>2, <1>3

(* A run whose context, result and life a step leaves alone is seen as before. *)
LEMMA SeenSame ==
  ASSUME NEW r \in RunIds, run'[r].key = run[r].key, run'[r].stop = run[r].stop, run'[r].cause = run[r].cause,
         run'[r].err = run[r].err, run'[r].pc = "returned" <=> run[r].pc = "returned",
         run'[r].pc = "idle" <=> run[r].pc = "idle"
  PROVE  (Live(r)' <=> Live(r)) /\ Context(r)' = Context(r)
<1>1. Live(r)' <=> Live(r)
  BY DEF Live
<1>2. PICK e : e = IF run[r].pc # "returned" THEN "none" ELSE IF run[r].err = "error" THEN "failed" ELSE "done"
  OBVIOUS
<1>3. e = IF run'[r].pc # "returned" THEN "none" ELSE IF run'[r].err = "error" THEN "failed" ELSE "done"
  BY <1>2
<1>4. Context(r) = [key |-> run[r].key, window |-> run[r].stop # NoTime, cause |-> CauseSeen[run[r].cause], result |-> e]
  BY <1>2, Zenon DEF Context
<1>5. Context(r)' = [key |-> run[r].key, window |-> run[r].stop # NoTime, cause |-> CauseSeen[run[r].cause], result |-> e]
  BY <1>3, Zenon DEF Context
<1>6. QED  BY <1>1, <1>4, <1>5, Zenon

(* What is seen of a run in terms of its state. *)
LEMMA SeenFields ==
  ASSUME NEW r \in RunIds
  PROVE  \A w, e :
           /\ w = (run[r].stop # NoTime)
           /\ e = IF run[r].pc # "returned" THEN "none" ELSE IF run[r].err = "error" THEN "failed" ELSE "done"
           => Context(r) = [key |-> run[r].key, window |-> w, cause |-> CauseSeen[run[r].cause], result |-> e]
BY Zenon DEF Context

(* A live run is cancelled with a cause, unless it has one. *)
LEMMA SeenCancel ==
  ASSUME IInv, NEW r \in RunIds, Live(r), NEW c \in Cause \ {"none"},
         run'[r] = [run[r] EXCEPT !.cause = Cancel(run[r].cause, c)]
  PROVE  Live(r)' /\ Context(r)' = Promise!Cancel(r, CauseSeen[c])
<1>1. run[r] \in RunState
  BY DEF IInv, TypeOK
<1>2. /\ run'[r].key = run[r].key /\ run'[r].stop = run[r].stop /\ run'[r].err = run[r].err /\ run'[r].pc = run[r].pc
      /\ run'[r].cause = Cancel(run[r].cause, c)
  BY <1>1 DEF RunState
<1>3. Live(r)'
  BY <1>2 DEF Live
<1>4. PICK w \in BOOLEAN : w = (run[r].stop # NoTime)
  BY Zenon
<1>5. PICK e : e = IF run[r].pc # "returned" THEN "none" ELSE IF run[r].err = "error" THEN "failed" ELSE "done"
  OBVIOUS
<1>6. Context(r) = [key |-> run[r].key, window |-> w, cause |-> CauseSeen[run[r].cause], result |-> e]
  BY <1>4, <1>5, SeenFields
<1>7. Context(r)' = [key |-> run[r].key, window |-> w, cause |-> CauseSeen[Cancel(run[r].cause, c)], result |-> e]
  BY <1>2, <1>4, <1>5, Zenon DEF Context
<1>8. CauseSeen[run[r].cause] = "none" <=> run[r].cause = "none"
  BY <1>1 DEF RunState, Cause, CauseSeen
<1>9. PICK x : x = Context(r)
  OBVIOUS
<1>10. Promise!Cancel(r, CauseSeen[c]) = IF x.cause = "none" THEN [x EXCEPT !.cause = CauseSeen[c]] ELSE x
  BY <1>9 DEF Promise!Cancel
<1>11. CASE run[r].cause = "none"
  BY <1>3, <1>6, <1>7, <1>8, <1>9, <1>10, <1>11 DEF Cancel
<1>12. CASE run[r].cause # "none"
  BY <1>3, <1>6, <1>7, <1>8, <1>9, <1>10, <1>12 DEF Cancel
<1>13. QED  BY <1>11, <1>12

(* The steps of the promise: one lemma per operation that is not a stutter. *)
LEMMA ScheduleKeeps ==
  ASSUME IInv, TimesPositive, NEW k \in Keys, NEW s \in Specs, Schedule(k, s)
  PROVE  Promise!Schedule(k, TriggerLeft(Fresh(s)))
<1>1. UNCHANGED <<run, closed, loop>>
  BY DEF Schedule
<1>2. \A r \in RunIds : (Live(r)' <=> Live(r)) /\ Context(r)' = Context(r)
  BY <1>1, SeenSame
<1>3. PICK d \in Details : d = Fresh(s) /\ d.spec = s /\ d.fired = FALSE
  BY DetailsFacts DEF Fresh
<1>4. CASE running[k] # None
  <2>1. details' = [details EXCEPT ![k] = d] /\ UNCHANGED queue
    BY <1>3, <1>4 DEF Schedule, queueVars
  <2>2. details \in [Keys -> Details \cup {None}] /\ d # None
    BY SchedulerAssumption DEF IInv, TypeOK
  <2>3. Promise!IsRunning(k)
    BY <1>4, RunningIs
  <2>4. QED  BY <1>1, <1>2, <1>3, <2>1, <2>2, <2>3 DEF Promise!Schedule
<1>5. CASE running[k] = None
  <2>1. now \in Nat /\ now > 0
    BY DEF IInv, TypeOK, TimesPositive
  <2>2. PICK next \in Nat : next = TriggerNext(s.trigger, FALSE, now)
    <3>1. FALSE \in BOOLEAN
      OBVIOUS
    <3>2. QED  BY <2>1, <3>1, TriggerNextFacts, Zenon
  <2>3. scheduleLocked(k, Asked(d, 0), next, NoTime, 0, None)
    BY <1>3, <1>5, <2>2 DEF Schedule
  <2>4. /\ next # NoTime => Promise!Enqueue(k, TriggerLeft(d))
        /\ next = NoTime => Promise!Forget(k)
    BY <1>1, <2>3, IsScheduleLocked DEF NoTime, Int8
  <2>5. /\ next # NoTime => Promise!MayActivate(TriggerLeft(d))
        /\ next = NoTime => Promise!MayExpire(TriggerLeft(d))
    <3>1. PICK f \in BOOLEAN : f = FALSE
      OBVIOUS
    <3>2. next = TriggerNext(d.spec.trigger, f, now) /\ f = d.fired
      BY <1>3, <2>2, <3>1
    <3>3. QED  BY <2>1, <3>1, <3>2, MayFacts
  <2>6. ~Promise!IsRunning(k)
    BY <1>5, RunningIs
  <2>7. QED  BY <1>1, <1>2, <1>3, <2>4, <2>5, <2>6 DEF Promise!Schedule
<1>6. QED  BY <1>4, <1>5

LEMMA UnscheduleKeeps ==
  ASSUME IInv, NEW k \in Keys, Unschedule(k) PROVE Promise!Unschedule(k)
<1>1. UNCHANGED <<run, closed, loop>> /\ details' = [details EXCEPT ![k] = None] /\ queue' = [queue EXCEPT ![k] = None]
  BY DEF Unschedule, unscheduleLocked, Remove
<1>2. \A r \in RunIds : (Live(r)' <=> Live(r)) /\ Context(r)' = Context(r)
  BY <1>1, SeenSame
<1>3. queue \in [Keys -> Activation \cup {None}] /\ details \in [Keys -> Details \cup {None}]
  BY DEF IInv, TypeOK
<1>4. Promise!Forget(k)
  BY <1>1, <1>3, IsForget
<1>5. QED  BY <1>1, <1>2, <1>4 DEF Promise!Unschedule

(* Runs of which a step leaves the state alone. *)
LEMMA SeenUnmoved ==
  \A r \in RunIds : run'[r] = run[r] => (Live(r)' <=> Live(r)) /\ Context(r)' = Context(r)
BY SeenSame

(* A run that is registered for an activation has a context, with a deadline if the activation has a stop time. *)
LEMMA NewRunKeeps ==
  ASSUME IInv, NEW r \in RunIds, NEW k \in Keys, NEW a \in Activation, NEW pc \in {"popped", "triggered"},
         details[k] # None, newRunContextLocked(r, k, a, pc), NEW w \in BOOLEAN, w = (a.stop # NoTime)
  PROVE  Promise!NewRun(r, k, w)
<1>1. /\ run[r].pc = "idle" /\ run' = [run EXCEPT ![r] = run'[r]] /\ run' \in [RunIds -> RunState]
      /\ run'[r].pc = pc /\ run'[r].key = k
  BY NewRunFacts
<1>2. run \in [RunIds -> RunState]
  BY DEF IInv, TypeOK
<1>3. run'[r].stop = a.stop /\ run'[r].cause = CauseAtCreation(a.stop)
  BY <1>2 DEF newRunContextLocked
<1>4. PICK c \in {"none", "window"} : c = CauseSeen[CauseAtCreation(a.stop)] /\ (c = "window" => w)
  <2>1. CASE a.stop # NoTime /\ a.stop <= now
    BY <2>1 DEF CauseAtCreation, CauseSeen
  <2>2. CASE ~(a.stop # NoTime /\ a.stop <= now)
    BY <2>2 DEF CauseAtCreation, CauseSeen
  <2>3. QED  BY <2>1, <2>2
<1>5. run'[r].pc # "idle" /\ run'[r].pc # "returned"
  BY <1>1
<1>6. PICK x : x = [key |-> k, window |-> w, cause |-> c, result |-> "none"]
  OBVIOUS
<1>7. Context(r)' = x
  <2>1. w = (run'[r].stop # NoTime)
    BY <1>3, Zenon
  <2>2. "none" = IF run'[r].pc # "returned" THEN "none" ELSE IF run'[r].err = "error" THEN "failed" ELSE "done"
    BY <1>5
  <2>3. c = CauseSeen[run'[r].cause]
    BY <1>3, <1>4
  <2>4. Context(r)' = [key |-> run'[r].key, window |-> w, cause |-> CauseSeen[run'[r].cause], result |-> "none"]
    BY <2>1, <2>2, Zenon DEF Context
  <2>5. QED  BY <1>1, <1>6, <2>3, <2>4
<1>8. Live(r)' /\ ~Live(r)
  BY <1>1, <1>5 DEF Live
<1>9. \A q \in RunIds \ {r} : (Live(q)' <=> Live(q)) /\ Context(q)' = Context(q)
  <2>1. \A q \in RunIds \ {r} : run'[q] = run[q]
    BY <1>1, <1>2
  <2>2. QED  BY <2>1, SeenUnmoved
<1>10. QED  BY <1>4, <1>6, <1>7, <1>8, <1>9 DEF Promise!NewRun

LEMMA TriggerKeeps ==
  ASSUME IInv, NEW k \in Keys, TriggerKey(k) PROVE \E r \in RunIds : Promise!TriggerRuns(k, r)
<1> DEFINE a == [time |-> NoTime, retry |-> 0, props |-> None, stop |-> NoTime, pre |-> NoTime]
<1>1. running[k] = None /\ details[k] # None /\ UNCHANGED <<details, closed, loop>> /\ queue' = [queue EXCEPT ![k] = None]
  BY DEF TriggerKey, Remove
<1>2. PICK r \in RunIds : newRunContextLocked(r, k, a, "triggered")
  BY DEF TriggerKey
<1>3. a \in Activation /\ ~(a.stop # NoTime)
  BY DEF Activation, NoTime, Int8
<1> HIDE DEF a
<1>4. PICK w \in BOOLEAN : w = (a.stop # NoTime)
  BY Zenon
<1>5. Promise!NewRun(r, k, w) /\ ~w
  BY <1>1, <1>2, <1>3, <1>4, NewRunKeeps
<1>6. Promise!NewRun(r, k, FALSE)
  <2>1. w = FALSE
    BY <1>5
  <2>2. QED  BY <1>5, <2>1
<1>7. ~Promise!IsRunning(k)
  BY <1>1, RunningIs
<1>8. TriggerLeft(details[k]) # None
  <2>1. details[k] \in Details
    BY <1>1 DEF IInv, TypeOK
  <2>2. QED  BY <2>1, LeftFacts, PromiseAssumption
<1>9. queue \in [Keys -> Activation \cup {None}]
  BY DEF IInv, TypeOK
<1>10. QED  BY <1>1, <1>6, <1>7, <1>8, <1>9 DEF Promise!TriggerRuns

LEMMA StopKeeps ==
  ASSUME IInv, NEW k \in Keys, Stop(k) PROVE Promise!Stop(k)
<1>1. PICK r \in RunIds : r = running[k] /\ Live(r) /\ run[r].key = k
  BY DEF Stop, IInv, TypeOK, RunningIsLive
<1>2. run \in [RunIds -> RunState] /\ UNCHANGED <<queue, details, closed, loop>>
  BY DEF IInv, TypeOK, Stop
<1>3. run'[r] = [run[r] EXCEPT !.cause = Cancel(run[r].cause, "stopped")] /\ \A q \in RunIds \ {r} : run'[q] = run[q]
  BY <1>1, <1>2 DEF Stop
<1>4. Live(r)' /\ Context(r)' = Promise!Cancel(r, "stopped")
  <2>1. "stopped" \in Cause \ {"none"} /\ CauseSeen["stopped"] = "stopped"
    BY DEF Cause, CauseSeen
  <2>2. QED  BY <1>1, <1>3, <2>1, SeenCancel
<1>5. Context(r) # None /\ Context(r).key = k
  BY <1>1, ContextFacts
<1>6. \A q \in RunIds \ {r} : (Live(q)' <=> Live(q)) /\ Context(q)' = Context(q)
  BY <1>3, SeenUnmoved
<1>7. \A q \in RunIds \ {r} : Live(q) => Context(q).key # k
  <2>1. ASSUME NEW q \in RunIds \ {r}, Live(q) PROVE run[q].key # k
    BY <1>1, <2>1 DEF IInv, SingleInstance
  <2>2. QED  BY <2>1, ContextFacts
<1>8. QED  BY <1>1, <1>2, <1>4, <1>5, <1>6, <1>7 DEF Promise!Stop

LEMMA WindowEndsKeeps ==
  ASSUME IInv, NEW r \in RunIds, WindowEnds(r) PROVE Promise!WindowEnds(r)
<1>1. run \in [RunIds -> RunState] /\ UNCHANGED <<queue, details, closed, loop>>
  BY DEF IInv, TypeOK, WindowEnds
<1>2. Live(r) /\ run[r].cause = "none" /\ run[r].stop # NoTime /\ run' = [run EXCEPT ![r].cause = "outOfWindow"]
  BY DEF WindowEnds
<1>3. run'[r] = [run[r] EXCEPT !.cause = Cancel(run[r].cause, "outOfWindow")] /\ \A q \in RunIds \ {r} : run'[q] = run[q]
  BY <1>1, <1>2 DEF Cancel
<1>4. Live(r)' /\ Context(r)' = Promise!Cancel(r, "window")
  <2>1. "outOfWindow" \in Cause \ {"none"} /\ CauseSeen["outOfWindow"] = "window"
    BY DEF Cause, CauseSeen
  <2>2. QED  BY <1>2, <1>3, <2>1, SeenCancel
<1>5. Context(r) # None /\ Context(r).window
  <2>1. PICK w \in BOOLEAN : w = (run[r].stop # NoTime)
    BY Zenon
  <2>2. PICK e : e = IF run[r].pc # "returned" THEN "none" ELSE IF run[r].err = "error" THEN "failed" ELSE "done"
    OBVIOUS
  <2>3. Context(r) = [key |-> run[r].key, window |-> w, cause |-> CauseSeen[run[r].cause], result |-> e]
    BY <2>1, <2>2, SeenFields
  <2>4. w
    BY <1>2, <2>1, Zenon
  <2>5. Context(r).window = w
    BY <2>3
  <2>6. QED  BY <1>2, <2>4, <2>5, ContextFacts
<1>6. \A q \in RunIds \ {r} : (Live(q)' <=> Live(q)) /\ Context(q)' = Context(q)
  BY <1>3, SeenUnmoved
<1>7. QED  BY <1>1, <1>2, <1>4, <1>5, <1>6 DEF Promise!WindowEnds

LEMMA CloseKeeps ==
  ASSUME IInv, Close PROVE Promise!Close
<1>1. run \in [RunIds -> RunState] /\ UNCHANGED <<queue, details, loop>> /\ closed' = TRUE /\ closed \in BOOLEAN
  BY DEF IInv, TypeOK, Close
<1>2. ASSUME NEW r \in RunIds, Live(r) PROVE Live(r)' /\ Context(r)' = Promise!Cancel(r, "closed") /\ Context(r) # None
  <2>1. \E k \in Keys : running[k] = r
    BY <1>2 DEF IInv, LiveHasKey, SingleInstance
  <2>2. run'[r] = [run[r] EXCEPT !.cause = Cancel(run[r].cause, "stoppedScheduler")]
    BY <1>1, <2>1 DEF Close
  <2>3. "stoppedScheduler" \in Cause \ {"none"} /\ CauseSeen["stoppedScheduler"] = "closed"
    BY DEF Cause, CauseSeen
  <2>4. Live(r)' /\ Context(r)' = Promise!Cancel(r, "closed")
    BY <1>2, <2>2, <2>3, SeenCancel
  <2>5. QED  BY <1>2, <2>4, ContextFacts
<1>3. ASSUME NEW r \in RunIds, ~Live(r) PROVE ~Live(r)'
  <2>1. ~\E k \in Keys : running[k] = r
    BY <1>3, SchedulerAssumption DEF IInv, RunningIsLive, TypeOK
  <2>2. run'[r] = run[r]
    BY <1>1, <2>1 DEF Close
  <2>3. QED  BY <1>3, <2>2 DEF Live
<1>4. (closed' /\ loop'.pc \in {"sleep", "pop"}) \in BOOLEAN
  OBVIOUS
<1>5. closed => (closed' /\ loop'.pc \in {"sleep", "pop"}) = (closed /\ loop.pc \in {"sleep", "pop"})
  BY <1>1
<1>6. QED  BY <1>1, <1>2, <1>3, <1>4, <1>5 DEF Promise!Close

LEMMA ReturnKeeps ==
  ASSUME IInv, NEW r \in RunIds, Return(r) PROVE Promise!Return(r)
<1>1. run \in [RunIds -> RunState] /\ UNCHANGED <<queue, details, closed, loop>> /\ run[r].pc = "executing" /\ Live(r)
  BY DEF IInv, TypeOK, Return, Live
<1>2. PICK err \in RunErr : run' = [run EXCEPT ![r] = [run[r] EXCEPT !.pc = "returned", !.err = err]]
  BY DEF Return
<1>3. /\ run'[r].pc = "returned" /\ run'[r].err = err /\ run'[r].key = run[r].key /\ run'[r].stop = run[r].stop
      /\ run'[r].cause = run[r].cause
      /\ \A q \in RunIds \ {r} : run'[q] = run[q]
  BY <1>1, <1>2 DEF RunState
<1>4. PICK w \in BOOLEAN : w = (run[r].stop # NoTime)
  BY Zenon
<1>5. PICK e \in {"done", "failed"} : e = IF err = "error" THEN "failed" ELSE "done"
  OBVIOUS
<1>6. Context(r) = [key |-> run[r].key, window |-> w, cause |-> CauseSeen[run[r].cause], result |-> "none"]
  <2>1. "none" = IF run[r].pc # "returned" THEN "none" ELSE IF run[r].err = "error" THEN "failed" ELSE "done"
    BY <1>1
  <2>2. QED  BY <1>4, <2>1, SeenFields
<1>7. Context(r)' = [key |-> run[r].key, window |-> w, cause |-> CauseSeen[run[r].cause], result |-> e]
  <2>1. e = IF run'[r].pc # "returned" THEN "none" ELSE IF run'[r].err = "error" THEN "failed" ELSE "done"
    BY <1>3, <1>5
  <2>2. w = (run'[r].stop # NoTime)
    BY <1>3, <1>4, Zenon
  <2>3. Context(r)' = [key |-> run'[r].key, window |-> w, cause |-> CauseSeen[run'[r].cause], result |-> e]
    BY <2>1, <2>2, Zenon DEF Context
  <2>4. QED  BY <1>3, <2>3
<1>8. Live(r)' /\ Context(r) # None /\ Context(r).result = "none" /\ Context(r)' = [Context(r) EXCEPT !.result = e]
  <2>1. Context(r) # None
    BY <1>1, ContextFacts
  <2>2. QED  BY <1>3, <1>6, <1>7, <2>1 DEF Live
<1>9. \A q \in RunIds \ {r} : (Live(q)' <=> Live(q)) /\ Context(q)' = Context(q)
  BY <1>3, SeenUnmoved
<1>10. QED  BY <1>1, <1>5, <1>8, <1>9 DEF Promise!Return

LEMMA LoopPopKeeps ==
  ASSUME IInv, LoopPop PROVE \E k \in Keys, r \in RunIds : Promise!Activate(k, r)
<1>1. PICK k \in Keys : k = head /\ queue[k] # None /\ queue[k] \in Activation /\ details[k] # None /\ running[k] = None
  <2>1. head # None
    BY SchedulerAssumption DEF LoopPop, IInv, LoopKeyKnown
  <2>2. QED  BY <2>1, HeadFacts
<1>2. PICK a \in Activation : a = queue[k]
  BY <1>1
<1>3. PICK r \in RunIds : newRunContextLocked(r, k, a, "popped")
  BY <1>1, <1>2 DEF LoopPop
<1>4. PICK w \in BOOLEAN : w = (a.stop # NoTime)
  BY Zenon
<1>5. Promise!NewRun(r, k, w)
  BY <1>1, <1>3, <1>4, NewRunKeeps
<1>6. /\ loop.pc = "pop" /\ loop' = LoopAt("async") /\ UNCHANGED <<details, closed>>
      /\ queue' = [queue EXCEPT ![k] = None] /\ queue \in [Keys -> Activation \cup {None}]
  BY <1>1 DEF LoopPop, IInv, TypeOK
<1>7. loop'.pc = "async"
  BY <1>6 DEF LoopAt
<1>8. ~Promise!IsRunning(k)
  BY <1>1, RunningIs
<1>9. (closed' /\ loop'.pc \in {"sleep", "pop"}) = FALSE /\ (closed => closed /\ loop.pc \in {"sleep", "pop"})
  BY <1>6, <1>7
<1>10. QED  BY <1>1, <1>4, <1>5, <1>6, <1>8, <1>9 DEF Promise!Activate

(* A run that returned is continued, and may be retried, when reschedule says so. *)
LEMMA ReturnedSeen ==
  ASSUME IInv, NEW r \in RunIds, run[r].pc = "returned"
  PROVE  /\ Context(r) # None /\ Context(r).key = run[r].key /\ Context(r).result # "none" /\ Live(r)
         /\ Promise!Continues(r) <=> shouldContinue(r)
         /\ Promise!MayRetry(r) <=> shouldRetry(r)
<1>1. Live(r) /\ run[r] \in RunState
  BY DEF Live, IInv, TypeOK
<1>2. PICK w \in BOOLEAN : w = (run[r].stop # NoTime)
  BY Zenon
<1>3. PICK e \in {"done", "failed"} : e = IF run[r].err = "error" THEN "failed" ELSE "done"
  OBVIOUS
<1>4. Context(r) = [key |-> run[r].key, window |-> w, cause |-> CauseSeen[run[r].cause], result |-> e]
  <2>1. e = IF run[r].pc # "returned" THEN "none" ELSE IF run[r].err = "error" THEN "failed" ELSE "done"
    BY <1>3
  <2>2. QED  BY <1>2, <2>1, SeenFields
<1>5. /\ CauseSeen[run[r].cause] = "window" <=> run[r].cause = "outOfWindow"
      /\ CauseSeen[run[r].cause] = "stopped" <=> run[r].cause = "stopped"
  BY <1>1 DEF RunState, Cause, CauseSeen
<1>6. Context(r).key = run[r].key /\ Context(r).cause = CauseSeen[run[r].cause] /\ Context(r).result = e
  BY <1>4
<1>7. Promise!Continues(r) <=> shouldContinue(r)
  BY <1>1, <1>5, <1>6 DEF Promise!Continues, shouldContinue
<1>8. Promise!MayRetry(r) <=> shouldRetry(r)
  BY <1>1, <1>3, <1>5, <1>6 DEF Promise!MayRetry, shouldRetry
<1>9. Context(r) # None
  BY <1>1, ContextFacts
<1>10. QED  BY <1>1, <1>3, <1>6, <1>7, <1>8, <1>9

(* How reschedule leaves the key of a run that ended. *)
LEMMA AfterRunKeeps ==
  ASSUME IInv, TimesPositive, NEW r \in RunIds, run[r].pc = "returned", UNCHANGED loop,
         NEW k \in Keys, k = run[r].key, NEW d \in Details, ScheduleAfterRun(r, d)
  PROVE  \/ /\ Promise!Continues(r) \/ Promise!MayRetry(r) \/ Promise!MayActivate(TriggerLeft(d))
            /\ Promise!Enqueue(k, TriggerLeft(d))
         \/ /\ ~Promise!Continues(r) /\ Promise!MayExpire(TriggerLeft(d))
            /\ Promise!Forget(k)
<1>1. PICK n \in Nat, next \in Nat, pre \in Nat, retno \in Int8, p \in Properties \cup {None} :
           /\ scheduleLocked(k, Asked(d, n), next, pre, retno, p)
           /\ \/ shouldContinue(r) /\ next > 0
              \/ ~shouldContinue(r) /\ shouldRetry(r) /\ next > 0
              \/ /\ ~shouldContinue(r)
                 /\ next = TriggerNext(d.spec.trigger, d.fired, now)
              \/ /\ ~shouldContinue(r) /\ next > 0
                 /\ next = TriggerNext(d.spec.trigger, Asked(d, 0).fired, run[r].initial + 1)
  BY AfterRunCases
<1>2. /\ next # NoTime => Promise!Enqueue(k, TriggerLeft(d))
      /\ next = NoTime => Promise!Forget(k)
  BY <1>1, IsScheduleLocked
<1>3. next > 0 => next # NoTime
  BY DEF NoTime
<1>4. (Promise!Continues(r) <=> shouldContinue(r)) /\ (Promise!MayRetry(r) <=> shouldRetry(r))
  BY ReturnedSeen
<1>5. now \in Nat /\ now > 0 /\ run[r].initial \in Nat /\ d.fired \in BOOLEAN
  BY DEF IInv, TypeOK, TimesPositive, Details
<1>6. CASE shouldContinue(r) /\ next > 0
  BY <1>2, <1>3, <1>4, <1>6
<1>7. CASE shouldRetry(r) /\ next > 0
  BY <1>2, <1>3, <1>4, <1>7
<1>8. CASE ~shouldContinue(r) /\ next = TriggerNext(d.spec.trigger, d.fired, now)
  <2>1. PICK f \in BOOLEAN : f = d.fired
    BY <1>5
  <2>2. PICK t \in Nat : t = now /\ t > 0
    BY <1>5
  <2>3. /\ next # NoTime => Promise!MayActivate(TriggerLeft(d))
        /\ next = NoTime => Promise!MayExpire(TriggerLeft(d))
    BY <1>8, <2>1, <2>2, MayFacts
  <2>4. QED  BY <1>2, <1>4, <1>8, <2>3
<1>9. CASE ~shouldContinue(r) /\ next > 0 /\ next = TriggerNext(d.spec.trigger, Asked(d, 0).fired, run[r].initial + 1)
  <2>1. PICK f \in BOOLEAN : f = Asked(d, 0).fired /\ (d.fired => f)
    <3>1. Asked(d, 0).fired \in BOOLEAN
      BY DetailsFacts
    <3>2. d.fired => Asked(d, 0).fired
      <4>1. PICK b \in BOOLEAN : b = (d.fired \/ d.spec.trigger.once)
        BY Zenon
      <4>2. Asked(d, 0) = [spec |-> d.spec, fired |-> b, tries |-> 0]
        BY <4>1, Zenon DEF Asked
      <4>3. d.fired => b
        BY <4>1, Zenon
      <4>4. Asked(d, 0).fired = b
        BY <4>2
      <4>5. QED  BY <4>3, <4>4, Zenon
    <3>3. QED  BY <3>1, <3>2
  <2>2. PICK t \in Nat : t = run[r].initial + 1
    BY <1>5
  <2>3. next # NoTime => Promise!MayActivate(TriggerLeft(d))
    BY <1>9, <2>1, <2>2, MayFacts
  <2>4. QED  BY <1>2, <1>3, <1>4, <1>9, <2>3
<1>10. QED  BY <1>1, <1>6, <1>7, <1>8, <1>9

LEMMA RescheduleKeeps ==
  ASSUME IInv, TimesPositive, NEW r \in RunIds, Reschedule(r) PROVE Promise!End(r)
<1>1. PICK k \in Keys : k = run[r].key
  BY EndedRunFacts
<1>2. run[r].pc = "returned" /\ run' = [run EXCEPT ![r] = IdleRun] /\ run \in [RunIds -> RunState] /\ UNCHANGED <<closed, loop>>
  BY DEF Reschedule, IInv, TypeOK
<1>3. Context(r) # None /\ Context(r).key = k /\ Context(r).result # "none" /\ Live(r)
  BY <1>1, <1>2, ReturnedSeen
<1>4. ~Live(r)'
  BY <1>2 DEF Live, IdleRun
<1>5. \A q \in RunIds \ {r} : (Live(q)' <=> Live(q)) /\ Context(q)' = Context(q)
  <2>1. \A q \in RunIds \ {r} : run'[q] = run[q]
    BY <1>2
  <2>2. QED  BY <2>1, SeenUnmoved
<1>6. CASE closed \/ details[k] = None
  <2>1. UNCHANGED <<details, queue>>
    BY <1>1, <1>6 DEF Reschedule
  <2>2. QED  BY <1>1, <1>2, <1>3, <1>4, <1>5, <1>6, <2>1 DEF Promise!End
<1>7. CASE ~closed /\ details[k] # None
  <2>1. PICK d \in Details : d = details[k]
    BY <1>7 DEF IInv, TypeOK
  <2>2. ScheduleAfterRun(r, d)
    BY <1>1, <1>7, <2>1 DEF Reschedule
  <2>3. TriggerLeft(d) # None
    BY LeftFacts, PromiseAssumption
  <2>4. \/ /\ Promise!Continues(r) \/ Promise!MayRetry(r) \/ Promise!MayActivate(TriggerLeft(d))
           /\ Promise!Enqueue(k, TriggerLeft(d))
        \/ /\ ~Promise!Continues(r) /\ Promise!MayExpire(TriggerLeft(d))
           /\ Promise!Forget(k)
    BY <1>1, <1>2, <2>2, AfterRunKeeps
  <2>5. PICK e : e = TriggerLeft(d) /\ e # None
    BY <2>3
  <2>6. /\ [q \in RunIds |-> IF Live(q) THEN Context(q) ELSE None][r] = Context(r)
        /\ [j \in Keys |-> IF details[j] = None THEN None ELSE TriggerLeft(details[j])][k] = e
    BY <1>3, <1>7, <2>1, <2>5
  <2>7. [q \in RunIds |-> IF Live(q) THEN Context(q) ELSE None]'
          = [[q \in RunIds |-> IF Live(q) THEN Context(q) ELSE None] EXCEPT ![r] = None]
    BY <1>4, <1>5
  <2>8. \/ /\ Promise!Continues(r) \/ Promise!MayRetry(r) \/ Promise!MayActivate(e)
           /\ Promise!Enqueue(k, e)
        \/ /\ ~Promise!Continues(r) /\ Promise!MayExpire(e)
           /\ Promise!Forget(k)
    BY <2>4, <2>5
  <2>9. CASE Promise!Enqueue(k, e) /\ (Promise!Continues(r) \/ Promise!MayRetry(r) \/ Promise!MayActivate(e))
    BY <1>2, <1>3, <1>7, <2>5, <2>6, <2>7, <2>9 DEF Promise!End, Promise!Enqueue, Promise!MayActivate
  <2>10. CASE ~Promise!Continues(r) /\ Promise!MayExpire(e) /\ Promise!Forget(k)
    BY <1>2, <1>3, <1>7, <2>5, <2>6, <2>7, <2>10 DEF Promise!End, Promise!Forget, Promise!MayExpire
  <2>11. QED  BY <2>8, <2>9, <2>10, Zenon
<1>8. QED  BY <1>6, <1>7

(* Steps that the promise does not see, but for the exit of a closed scheduler's main loop. *)
LEMMA UnseenKeeps ==
  ASSUME UNCHANGED <<queue, details, closed>>,
         \A r \in RunIds : (Live(r)' <=> Live(r)) /\ Context(r)' = Context(r),
         closed => (loop'.pc \in {"sleep", "pop"} <=> loop.pc \in {"sleep", "pop"})
  PROVE  UNCHANGED Promise!vars
<1>1. (closed' /\ loop'.pc \in {"sleep", "pop"}) = (closed /\ loop.pc \in {"sleep", "pop"})
  OBVIOUS
<1>2. QED  BY <1>1 DEF Promise!vars

LEMMA LoopStepKeeps ==
  ASSUME IInv, LoopExit \/ LoopTop \/ SleepTimeout \/ SleepWakeup \/ LoopPopOther
  PROVE  Promise!LoopExits \/ UNCHANGED Promise!vars
<1>1. UNCHANGED <<queue, details, closed, run>> /\ closed \in BOOLEAN
  BY DEF LoopExit, LoopTop, SleepTimeout, SleepWakeup, LoopPopOther, IInv, TypeOK
<1>2. \A r \in RunIds : (Live(r)' <=> Live(r)) /\ Context(r)' = Context(r)
  BY <1>1, SeenUnmoved
<1>3. CASE ~closed \/ LoopExit \/ LoopTop \/ SleepTimeout
  <2>1. closed => (loop'.pc \in {"sleep", "pop"} <=> loop.pc \in {"sleep", "pop"})
    <3>1. CASE LoopExit \/ LoopTop
      BY <3>1 DEF LoopExit, LoopTop, LoopAt
    <3>2. CASE SleepTimeout
      <4>1. loop.pc = "sleep" /\ loop'.pc = "pop"
        BY <3>2 DEF SleepTimeout, IInv, TypeOK, LoopState
      <4>2. QED  BY <4>1
    <3>3. QED  BY <1>3, <3>1, <3>2
  <2>2. QED  BY <1>1, <1>2, <2>1, UnseenKeeps
<1>4. CASE closed /\ (SleepWakeup \/ LoopPopOther)
  <2>1. loop.pc \in {"sleep", "pop"} /\ loop'.pc = "top"
    <3>1. loop.pc \in {"sleep", "pop"} /\ loop' = LoopAt("top")
      BY <1>4, Zenon DEF SleepWakeup, LoopPopOther
    <3>2. QED  BY <3>1 DEF LoopAt
  <2>2. loop'.pc \notin {"sleep", "pop"}
    BY <2>1
  <2>3. (closed' /\ loop'.pc \in {"sleep", "pop"}) = FALSE
    BY <2>2
  <2>4. QED  BY <1>1, <1>2, <1>4, <2>1, <2>3 DEF Promise!LoopExits
<1>5. QED  BY <1>3, <1>4

LEMMA StartKeeps ==
  ASSUME IInv, NEW r \in RunIds, StartPopped(r) \/ StartTriggered(r) PROVE UNCHANGED Promise!vars
<1>1. run \in [RunIds -> RunState] /\ UNCHANGED <<queue, details, closed>>
  BY DEF StartPopped, StartTriggered, IInv, TypeOK
<1>2. \A q \in RunIds :
        /\ run'[q].key = run[q].key /\ run'[q].stop = run[q].stop /\ run'[q].cause = run[q].cause
        /\ run'[q].err = run[q].err /\ (run'[q].pc = "returned" <=> run[q].pc = "returned")
        /\ (run'[q].pc = "idle" <=> run[q].pc = "idle")
  BY <1>1 DEF StartPopped, StartTriggered, RunState
<1>3. loop'.pc \in {"sleep", "pop"} <=> loop.pc \in {"sleep", "pop"}
  BY DEF StartPopped, StartTriggered, LoopAt
<1>4. \A q \in RunIds : (Live(q)' <=> Live(q)) /\ Context(q)' = Context(q)
  BY <1>2, SeenSame
<1>5. QED  BY <1>1, <1>3, <1>4, UnseenKeeps

LEMMA PromiseInit == Init => Promise!Init
<1>1. SUFFICES ASSUME Init PROVE Promise!Init
  OBVIOUS
<1>2. \A r \in RunIds : ~Live(r)
  BY <1>1 DEF Init, Live, IdleRun
<1>3. (closed /\ loop.pc \in {"sleep", "pop"}) = FALSE /\ closed = FALSE
  BY <1>1 DEF Init
<1>4. QED  BY <1>1, <1>2, <1>3 DEF Init, Promise!Init

LEMMA PromiseStep == IInv /\ TimesPositive /\ [Next]_vars => [Promise!Next]_(Promise!vars)
<1>0. SUFFICES ASSUME IInv, TimesPositive, [Next]_vars PROVE Promise!Next \/ UNCHANGED Promise!vars
  OBVIOUS
<1>1. ASSUME NEW k \in Keys, NEW s \in Specs, Schedule(k, s) PROVE Promise!Next
  <2>1. PICK d \in Details : d = Fresh(s)
    BY DetailsFacts
  <2>2. Promise!Schedule(k, TriggerLeft(d))
    BY <1>0, <1>1, <2>1, ScheduleKeeps
  <2>3. TriggerLeft(d) \in Promise!Trigger
    BY LeftFacts
  <2>4. QED  BY <2>2, <2>3 DEF Promise!Next
<1>2. ASSUME NEW k \in Keys, Unschedule(k) \/ TriggerKey(k) \/ Stop(k) PROVE Promise!Next
  BY <1>0, <1>2, UnscheduleKeeps, TriggerKeeps, StopKeeps DEF Promise!Next
<1>3. ASSUME Close PROVE Promise!Next
  BY <1>0, <1>3, CloseKeeps DEF Promise!Next
<1>4. CASE Wait \/ Tick \/ UNCHANGED vars
  <2>1. UNCHANGED <<queue, details, closed, run, loop>>
    BY <1>4 DEF Wait, Tick, vars
  <2>2. \A r \in RunIds : (Live(r)' <=> Live(r)) /\ Context(r)' = Context(r)
    BY <2>1, SeenUnmoved
  <2>3. QED  BY <2>1, <2>2, UnseenKeeps
<1>5. ASSUME LoopExit \/ LoopTop \/ SleepTimeout \/ SleepWakeup \/ LoopPopOther PROVE Promise!Next \/ UNCHANGED Promise!vars
  BY <1>0, <1>5, LoopStepKeeps DEF Promise!Next
<1>6. ASSUME LoopPop PROVE Promise!Next
  BY <1>0, <1>6, LoopPopKeeps DEF Promise!Next
<1>7. ASSUME NEW r \in RunIds, StartPopped(r) \/ StartTriggered(r) PROVE UNCHANGED Promise!vars
  BY <1>0, <1>7, StartKeeps
<1>8. ASSUME NEW r \in RunIds, WindowEnds(r) \/ Return(r) \/ Reschedule(r) PROVE Promise!Next
  BY <1>0, <1>8, WindowEndsKeeps, ReturnKeeps, RescheduleKeeps DEF Promise!Next
<1>9. QED  BY <1>0, <1>1, <1>2, <1>3, <1>4, <1>5, <1>6, <1>7, <1>8 DEF Next, Callers, Loop, Runs

(***************************************************************************)
(* The scheduler of the code implements the promise: every step of the     *)
(* callers, of the main loop and of a run's goroutine is a step of         *)
(* SchedulerPromise or is not seen by its user.                            *)
(***************************************************************************)
THEOREM KeepsPromiseCorrect == Spec => KeepsPromise
<1>1. Spec => []TimesPositive
  BY Inductive, TimesPositiveInit, TimesPositiveStep, PTL DEF Spec
<1>2. QED  BY Inductive, PromiseInit, PromiseStep, <1>1, PTL DEF Spec, KeepsPromise, Promise!Spec
=============================================================================
