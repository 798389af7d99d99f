-------------------------- MODULE SchedulerPromise ---------------------------
(***************************************************************************)
(* What a scheduler of pkg/scheduler promises to its user: the life of a   *)
(* key between Schedule and Unschedule, without times, activations,        *)
(* wakeups and goroutines.  Scheduler is shown to implement it, and each   *)
(* scheduler of TaskService to behave as it says.                          *)
(*                                                                         *)
(* A key is unknown, queued or running, and it runs at most once at a      *)
(* time.  It leaves the scheduler when it is unscheduled or its trigger    *)
(* has no next activation, never otherwise.                                *)
(***************************************************************************)
CONSTANTS Keys,
          Runs,      \* identities of runs
          None

VARIABLES details,   \* key |-> what its trigger will still yield, or None
          queue,     \* the keys with an activation
          run,       \* run |-> state of its context, or None
          closed,
          late       \* closed, but the main loop may still start one run

vars == <<details, queue, run, closed, late>>

(* A trigger: a NewOnce that was not asked yet, and whether the rest of it *)
(* has a next activation.                                                  *)
Trigger == [once : BOOLEAN, rest : {"always", "sometimes", "never"}]
MayActivate(d) == d.once \/ d.rest # "never"
MayExpire(d) == ~d.once /\ d.rest # "always"
Asked(d) == [d EXCEPT !.once = FALSE]

(* window: the context has a deadline, the end of the maintenance window.  *)
(* result: of the RunFunc, whether it failed with an error to be retried.  *)
Cause == {"none", "stopped", "window", "closed"}
Run == [key : Keys, window : BOOLEAN, cause : Cause, result : {"none", "done", "failed"}]

IsRunning(k) == \E r \in Runs : run[r] # None /\ run[r].key = k

Init ==
  /\ details = [k \in Keys |-> None]
  /\ queue = {}
  /\ run = [r \in Runs |-> None]
  /\ closed = FALSE
  /\ late = FALSE

Enqueue(k, d) == /\ queue' = queue \cup {k}
                 /\ details' = [details EXCEPT ![k] = Asked(d)]
Forget(k) == /\ queue' = queue \ {k}
             /\ details' = [details EXCEPT ![k] = None]

(* A running key is queued when its run ends. *)
Schedule(k, d) ==
  /\ UNCHANGED <<run, closed, late>>
  /\ \/ /\ IsRunning(k)
        /\ details' = [details EXCEPT ![k] = d]
        /\ UNCHANGED queue
     \/ ~IsRunning(k) /\ MayActivate(d) /\ Enqueue(k, d)
     \/ ~IsRunning(k) /\ MayExpire(d) /\ Forget(k)

Unschedule(k) == Forget(k) /\ UNCHANGED <<run, closed, late>>

(* The deadline may be over when the context is made. *)
NewRun(r, k, w) ==
  /\ run[r] = None
  /\ \E c \in {"none", "window"} :
       /\ c = "window" => w
       /\ run' = [run EXCEPT ![r] = [key |-> k, window |-> w, cause |-> c, result |-> "none"]]

(* A run that is triggered is not bound to the maintenance window. *)
TriggerRuns(k, r) ==
  /\ details[k] # None /\ ~IsRunning(k)
  /\ queue' = queue \ {k}
  /\ NewRun(r, k, FALSE)
  /\ UNCHANGED <<details, closed, late>>

(* The main loop: a closed scheduler starts one more run at most. *)
Activate(k, r) ==
  /\ k \in queue /\ ~IsRunning(k)
  /\ closed => late
  /\ queue' = queue \ {k}
  /\ late' = FALSE
  /\ \E w \in BOOLEAN : NewRun(r, k, w)
  /\ UNCHANGED <<details, closed>>
LoopExits == late /\ late' = FALSE /\ UNCHANGED <<details, queue, run, closed>>

(* A context keeps the first cause it was cancelled with. *)
Cancel(r, cause) == IF run[r].cause = "none" THEN [run[r] EXCEPT !.cause = cause] ELSE run[r]

Stop(k) ==
  /\ run' = [r \in Runs |-> IF run[r] # None /\ run[r].key = k THEN Cancel(r, "stopped") ELSE run[r]]
  /\ UNCHANGED <<details, queue, closed, late>>
WindowEnds(r) ==
  /\ run[r] # None /\ run[r].window
  /\ run' = [run EXCEPT ![r] = Cancel(r, "window")]
  /\ UNCHANGED <<details, queue, closed, late>>
Close ==
  /\ closed' = TRUE
  /\ closed => late' = late
  /\ late' \in BOOLEAN
  /\ run' = [r \in Runs |-> IF run[r] # None THEN Cancel(r, "closed") ELSE None]
  /\ UNCHANGED <<details, queue>>

Return(r) ==
  /\ run[r] # None /\ run[r].result = "none"
  /\ \E e \in {"done", "failed"} : run' = [run EXCEPT ![r].result = e]
  /\ UNCHANGED <<details, queue, closed, late>>

(* The key of a run that ended is queued again: at once if its window      *)
(* closed, whatever the RunFunc returned, for a retry if it failed and was *)
(* not stopped, else as its trigger says.                                  *)
Continues(r) == run[r].cause = "window"
MayRetry(r) == run[r].result = "failed" /\ run[r].cause # "stopped"

End(r) ==
  LET k == run[r].key
      d == details[k]
  IN
  /\ run[r] # None /\ run[r].result # "none"
  /\ run' = [run EXCEPT ![r] = None]
  /\ \/ /\ closed \/ d = None
        /\ UNCHANGED <<details, queue>>
     \/ /\ ~closed /\ d # None
        /\ Continues(r) \/ MayRetry(r) \/ MayActivate(d)
        /\ Enqueue(k, d)
     \/ /\ ~closed /\ d # None
        /\ ~Continues(r) /\ MayExpire(d)
        /\ Forget(k)
  /\ UNCHANGED <<closed, late>>

Next ==
  \/ \E r \in Runs : WindowEnds(r) \/ Return(r) \/ End(r)
  \/ LoopExits \/ Close
  \/ \E k \in Keys : \/ Unschedule(k) \/ Stop(k)
                     \/ \E r \in Runs : TriggerRuns(k, r) \/ Activate(k, r)
                     \/ \E d \in Trigger : Schedule(k, d)

Spec == Init /\ [][Next]_vars
=============================================================================
