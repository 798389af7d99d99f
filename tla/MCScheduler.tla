---------------------------- MODULE MCScheduler ----------------------------
(***************************************************************************)
(* Small instances of Scheduler for TLC.                                   *)
(***************************************************************************)
EXTENDS Scheduler, TLC

CONSTANTS p1, p2      \* two property values

(* Delays of the exponential backoff: initial interval one step, doubling. *)
MCBackoffDelay == [n \in 0..3 |-> ClockStep * 2^n]

(* Triggers; periods are given in steps of the clock. *)
Cron(n) == [once |-> FALSE, kind |-> "cron", start |-> 0, period |-> n * ClockStep]
OneShot == [once |-> TRUE, kind |-> "legacy", start |-> ClockStep, period |-> 0]

At(day, steps) == [weekday |-> day, time |-> steps * ClockStep]

(* The window of the second half of each day of a two day week. *)
HalfDays == << [begin |-> At(1, 1), end |-> At(0, 0)],
               [begin |-> At(0, 1), end |-> At(1, 0)] >>

Details1(p, tr, n, w) == [props |-> p, trigger |-> tr, retries |-> n, window |-> w]

(* A one-shot task and a cron task, neither retried. *)
PlainSpecs == {Details1(p1, OneShot, 0, <<>>), Details1(p1, Cron(2), 0, <<>>)}

(* A cron task that is retried once, with and without a maintenance window, and a one-shot. *)
SequenceSpecs == {Details1(p1, Cron(2), 1, <<>>),
                  Details1(p2, Cron(3), 1, HalfDays),
                  Details1(p1, OneShot, 0, HalfDays)}

=============================================================================
