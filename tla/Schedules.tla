----------------------------- MODULE Schedules -----------------------------
(***************************************************************************)
(* The triggers of v3/pkg/util/schedules and the retry backoff of          *)
(* v3/pkg/util/retry, as operators on their (immutable) description and on *)
(* the mutable part that the Go objects hide: the flag of a once trigger   *)
(* and the counter of a backoff.  Time is an integer, 0 is Go's zero time. *)
(***************************************************************************)
EXTENDS Integers

(* time.Time{}, "a zero time can be returned to indicate no more executions" *)
NoTime == 0

(***************************************************************************)
(* A trigger joins an optional once trigger with a cron ("cron") or        *)
(* legacy interval ("legacy") trigger; period = 0 is an interval of zero.  *)
(***************************************************************************)
Trigger == [once: BOOLEAN, kind: {"cron", "legacy"}, start: Int, period: Nat]

(***************************************************************************)
(* Cron.Next: the inner schedule is asked from the start date on.  The     *)
(* inner cron schedule (robfig/cron) yields the first point of its grid    *)
(* strictly after the given time.                                          *)
(***************************************************************************)
CronNext(tr, t) ==
  LET from == IF tr.start > t THEN tr.start ELSE t
  IN  ((from \div tr.period) + 1) * tr.period

(***************************************************************************)
(* legacy.Next: the start date while it lies ahead, then the first         *)
(* multiple of the interval after it that is not before t (Round and the   *)
(* loop that follows it compute this ceiling).                             *)
(***************************************************************************)
LegacyNext(tr, t) ==
  IF tr.start > t
  THEN tr.start
  ELSE IF tr.period = 0
       THEN NoTime
       ELSE tr.start + (((t - tr.start) + tr.period - 1) \div tr.period) * tr.period

(* once.Next: t the first time it is asked, the zero time ever after. *)
OnceNext(fired, t) == IF fired THEN NoTime ELSE t

(* multi.Next: the earliest of the times that are not zero. *)
EarlierNonZero(a, b) ==
  IF a = NoTime \/ (b # NoTime /\ b < a) THEN b ELSE a

(* Trigger.Next; asking a trigger with a once part always marks it fired. *)
TriggerNext(tr, fired, t) ==
  LET periodic == IF tr.kind = "cron" THEN CronNext(tr, t) ELSE LegacyNext(tr, t)
  IN  IF tr.once
      THEN EarlierNonZero(OnceNext(fired, t), periodic)
      ELSE periodic

=============================================================================
