--------------------------- MODULE MCTaskService ---------------------------
(***************************************************************************)
(* Small instances of TaskService for TLC: one repair, one backup and one  *)
(* suspend task.                                                           *)
(***************************************************************************)
EXTENDS TaskService, TLC

CONSTANTS t1, t2, t3

Types3 == [t \in Tasks |-> IF t = t1 THEN "repair" ELSE IF t = t2 THEN "backup" ELSE "suspend"]

(* Requests.  flag is Enabled of a put and disable of a stop. *)
OfTask(op, t, flag) == [op |-> op, task |-> t, flag |-> flag]
SuspendCall(allow, fail, scratch) ==
  [op |-> "suspend", task |-> None, flag |-> FALSE, allow |-> allow, fail |-> fail, scratch |-> scratch]
ResumeCall(start, missed, scratch) ==
  [op |-> "resume", task |-> None, flag |-> FALSE, start |-> start, missed |-> missed, scratch |-> scratch]

AllowRepair == SuspendCall("repair", FALSE, FALSE)
AllowBackup == SuspendCall("backup", FALSE, FALSE)

StopRequests == {OfTask("stop", t1, FALSE), OfTask("stop", t1, TRUE), OfTask("start", t1, FALSE),
                 OfTask("delete", t1, FALSE)}
SuspendRequests == {OfTask("start", t1, FALSE), OfTask("put", t1, TRUE),
                    SuspendCall(Nothing, TRUE, FALSE), SuspendCall("repair", FALSE, TRUE),
                    ResumeCall(TRUE, TRUE, TRUE)}

Symmetry == Permutations(Callers)
=============================================================================
