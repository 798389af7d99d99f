------------------------------- MODULE Window -------------------------------
(***************************************************************************)
(* Maintenance windows, pkg/scheduler/window.go.  A week has WeekDays days *)
(* of DayLen ticks.  Time 0 is the zero time.Time, a Monday (weekday 1).   *)
(***************************************************************************)
EXTENDS Integers, Sequences

CONSTANTS DayLen,      \* ticks in a day (24h in the code)
          WeekDays     \* days in a week (7 in the code)

ASSUME CalendarAssumption == /\ DayLen \in Nat \ {0}
                             /\ WeekDays \in Nat \ {0}

(* The marker weekday that matches any day: time.Weekday(7). *)
EachDay == WeekDays

WeekdayTime == [weekday: 0..WeekDays, time: 0..(DayLen - 1)]

(* A slot of the week; pos, used in error messages only, is left out. *)
Slot == [begin: WeekdayTime, end: WeekdayTime]

Midnight(t) == (t \div DayLen) * DayLen

WeekdayOf(t) == ((t \div DayLen) + 1) % WeekDays

(***************************************************************************)
(* WeekdayTime.Next: count the days to the weekday from the midnight that  *)
(* precedes now, one week more when that point has already passed.         *)
(***************************************************************************)
NextWeekdayTime(i, now) ==
  LET t == Midnight(now)
      w == i.weekday - WeekdayOf(t)
      d == IF w < 0 \/ (w = 0 /\ now - t > i.time) THEN w + WeekDays ELSE w
  IN  t + d * DayLen + i.time

(***************************************************************************)
(* Window.Next.  The slot that ends first is looked for with sort.Search,  *)
(* a binary search for the first index whose End.Next is below that of     *)
(* index 0; indices are those of the Go slice, and an index without a slot *)
(* stands for slot 0.                                                      *)
(***************************************************************************)
EndsBeforeFirst(w, h, now) ==
  NextWeekdayTime(w[h + 1].end, now) < NextWeekdayTime(w[1].end, now)

Search(w, now) ==
  LET search[i \in 0..Len(w), j \in 0..Len(w)] ==
        LET h == (i + j) \div 2
        IN  IF i >= j THEN i
            ELSE IF EndsBeforeFirst(w, h, now) THEN search[i, h] ELSE search[h + 1, j]
  IN  search[0, Len(w)]

SearchSlot(w, now) ==
  LET i == Search(w, now) + 1
  IN  IF i \in DOMAIN w THEN i ELSE 1

(* Mutant: an open slot is not recognised, its begin is that of next week. *)
WindowNextClosed(w, now) ==
  IF w = <<>>
  THEN [begin |-> now, end |-> 0]
  ELSE LET s == w[SearchSlot(w, now)]
       IN  [begin |-> NextWeekdayTime(s.begin, now), end |-> NextWeekdayTime(s.end, now)]

(* A nil window is the empty sequence: always open, never ends. *)
WindowNext(w, now) ==
  IF w = <<>>
  THEN [begin |-> now, end |-> 0]
  ELSE LET s     == w[SearchSlot(w, now)]
           begin == NextWeekdayTime(s.begin, now)
           end   == NextWeekdayTime(s.end, now)
       IN  [begin |-> IF begin > end THEN now ELSE begin, end |-> end]

=============================================================================
