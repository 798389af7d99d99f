----------------------------- MODULE WindowJoin -----------------------------
(***************************************************************************)
(* How a window is built from the points a user gives (NewWindow), and     *)
(* what Window.Next then answers as time goes by, against the set of times *)
(* the given slots cover.                                                  *)
(***************************************************************************)
EXTENDS Window, SequencesExt

CONSTANTS MaxSlots,    \* bound: number of slots given to NewWindow
          EachDaySlots \* whether slots without a weekday are given too

VARIABLES given,       \* the slots, pairs of points, given to NewWindow
          window,      \* the Window it returned
          now

wvars == <<given, window, now>>

WeekLen == WeekDays * DayLen

(* slot.validate, on points whose time is less than a day *)
validate(s) ==
  /\ s.begin.weekday = EachDay \/ s.end.weekday = EachDay => s.begin.weekday = s.end.weekday
  /\ s.begin # s.end

(* slot.expand *)
expand(s) ==
  IF s.begin.weekday # EachDay
  THEN <<s>>
  ELSE [i \in 1..WeekDays |->
          [begin |-> [s.begin EXCEPT !.weekday = i - 1],
           end   |-> [s.end EXCEPT !.weekday =
                        IF s.begin.time > s.end.time THEN i % WeekDays ELSE i - 1]]]

(***************************************************************************)
(* The sort of NewWindow: by the first time the slot begins after the zero *)
(* time.  sort.Slice inserts in order, hence keeps the order of equal      *)
(* slots, on the few slots a window has.                                   *)
(***************************************************************************)
SortByBegin(w) ==
  LET numbered == [i \in DOMAIN w |-> <<NextWeekdayTime(w[i].begin, 0), i>>]
      sorted   == SortSeq(numbered, LAMBDA a, b : a[1] < b[1] \/ (a[1] = b[1] /\ a[2] < b[2]))
  IN  [i \in DOMAIN w |-> w[sorted[i][2]]]

(* Mutant: a slot that overlaps is dropped, the end is not extended. *)
JoinSlotDrops(acc, s) ==
  LET b == NextWeekdayTime(s.begin, acc.t)
  IN  IF b > NextWeekdayTime(Last(acc.out).end, acc.t)
      THEN [t |-> b, out |-> Append(acc.out, s)]
      ELSE acc

(* One iteration of joinSlots: acc is the rolling time and the slots so far. *)
JoinSlot(acc, s) ==
  LET cur == Last(acc.out)
      e   == NextWeekdayTime(cur.end, acc.t)
      b   == NextWeekdayTime(s.begin, acc.t)
  IN  IF b > e
      THEN [t |-> b, out |-> Append(acc.out, s)]
      ELSE IF NextWeekdayTime(s.end, acc.t) > e
           THEN [acc EXCEPT !.out = Append(Front(acc.out), [cur EXCEPT !.end = s.end])]
           ELSE acc

(* The wrap around: the last slot ingests the first if it reaches it. *)
WrapAround(acc) ==
  LET first == Head(acc.out)
      cur   == Last(acc.out)
      e     == NextWeekdayTime(cur.end, acc.t)
  IN  IF /\ Len(acc.out) > 1
         /\ NextWeekdayTime(first.begin, acc.t) <= e
         /\ NextWeekdayTime(first.end, acc.t) > e
      THEN Append(Front(Tail(acc.out)), [cur EXCEPT !.end = first.end])
      ELSE acc.out

joinSlots(w) == WrapAround(FoldLeft(JoinSlot, [t |-> 0, out |-> <<w[1]>>], Tail(w)))

NewWindow(slots) == joinSlots(SortByBegin(FlattenSeq([i \in DOMAIN slots |-> expand(slots[i])])))

-----------------------------------------------------------------------------
Points == IF EachDaySlots THEN WeekdayTime ELSE {p \in WeekdayTime : p.weekday # EachDay}

GivenSlots == {s \in [begin: Points, end: Points] : validate(s)}

Init ==
  /\ given \in UNION {[1..n -> GivenSlots] : n \in 1..MaxSlots}
  /\ window = NewWindow(given)
  /\ now = WeekLen

(* Time goes by for a week. *)
Next == now < 2 * WeekLen /\ now' = now + 1 /\ UNCHANGED <<given, window>>

Spec == Init /\ [][Next]_wvars

-----------------------------------------------------------------------------
(* Reference: the ticks of the week a slot covers, those of [begin, end). *)
Offset(p) == (p.weekday * DayLen + p.time) % WeekLen

Covered(s) ==
  LET len == (Offset(s.end) - Offset(s.begin)) % WeekLen
  IN  {(Offset(s.begin) + i) % WeekLen : i \in 0..(len - 1)}

(* Tick t of the model's calendar, whose time 0 is a Monday, in the week. *)
InWeek(t) == (t + DayLen) % WeekLen

Open(t) == \E i \in DOMAIN given : \E j \in DOMAIN expand(given[i]) :
             InWeek(t) \in Covered(expand(given[i])[j])

Answer == WindowNext(window, now)

(***************************************************************************)
(* A task never runs outside the window: every tick between the begin and  *)
(* the end that Window.Next returns is covered by a slot the user gave,    *)
(* and the returned times do not precede now.                              *)
(***************************************************************************)
NeverOutside ==
  /\ now <= Answer.begin /\ Answer.begin <= Answer.end
  /\ \A t \in Answer.begin..(Answer.end - 1) : Open(t)

(* Slots overlap or touch when they share a tick or one begins where the other ends. *)
Disjoint == \A i, j \in DOMAIN given : i # j =>
              \A a \in Range(expand(given[i])), b \in Range(expand(given[j])) :
                 /\ Covered(a) \cap Covered(b) = {}
                 /\ Offset(a.end) # Offset(b.begin)

AtSlotEnd == \E s \in Range(window) : Offset(s.end) = InWeek(now)

(***************************************************************************)
(* Window.Next, "returns the closest open slot": the task starts at now    *)
(* when the window is open, at the first tick it opens otherwise, and is   *)
(* stopped when the window closes, not before.  The tick a slot ends is    *)
(* left out: WeekdayTime.Next answers begin = end = now there.             *)
(***************************************************************************)
ClosestOpenSlot ==
  ~AtSlotEnd =>
    /\ \A t \in now..(Answer.begin - 1) : ~Open(t)
    /\ Open(Answer.end) => \A t \in now..(now + WeekLen) : Open(t)

(* No slot runs over Monday midnight, where the order of the slots starts. *)
NoneOverMonday == \A i \in DOMAIN given : \A s \in Range(expand(given[i])) :
                     NextWeekdayTime(s.begin, 0) < NextWeekdayTime(s.end, 0)

(***************************************************************************)
(* The same for the windows where it holds: those whose slots do not meet, *)
(* or do meet but never over Monday midnight.                              *)
(***************************************************************************)
ClosestOpenSlotMostly == Disjoint \/ NoneOverMonday => ClosestOpenSlot

=============================================================================
