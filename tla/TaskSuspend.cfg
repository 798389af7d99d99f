\* A repair and a suspend task: the suspend task and one call against each other and against runs.
SPECIFICATION Spec
CONSTANTS
  Tasks = {t1, t3}
  t1 = t1
  t2 = t2
  t3 = t3
  TypeOf <- Types3
  Existing = {t1, t3}
  Windowed = {}
  Callers = {c1}
  Requests <- SuspendRequests
  SuspendProperties <- AllowBackup
  MaxRuns = 2
  MaxSchedulers = 3
  MaxRestarts = 0
  MaxFaults = 1
  Main = Main
  None = None
INVARIANTS SuspendedSchedulerIsClean OneRunnerPerTask
PROPERTIES LocksFollowPolicy SchedulersKeepPromise
CHECK_DEADLOCK FALSE
