-------------------------- MODULE MCSchedulerLive --------------------------
EXTENDS MCScheduler

(***************************************************************************)
(* Liveness is checked for callers that make finitely many calls: without  *)
(* that a caller that unschedules and schedules a key over and over can    *)
(* keep the main loop busy with pushing activations back.                  *)
(***************************************************************************)
CONSTANT MaxCalls     \* bound on the calls of the callers

VARIABLE calls

LiveInit == Init /\ calls = 0

LiveNext ==
  \/ Callers /\ calls < MaxCalls /\ calls' = calls + 1
  \/ (Wait \/ Loop \/ Runs \/ Tick) /\ UNCHANGED calls

LiveSpec == LiveInit /\ [][LiveNext]_<<vars, calls>> /\ Fairness

=============================================================================
