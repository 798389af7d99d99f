\* One task, stopped, started, updated and deleted by two calls; crashes and failing statements.
SPECIFICATION Spec
CONSTANTS
  Tasks = {t1}
  t1 = t1
  t2 = t2
  t3 = t3
  TypeOf <- Types3
  Existing = {t1}
  Windowed = {t1}
  Callers = {c1, c2}
  Requests <- StopRequests
  SuspendProperties <- AllowRepair
  MaxRuns = 2
  MaxSchedulers = 1
  MaxRestarts = 1
  MaxFaults = 1
  Main = Main
  None = None
INVARIANTS ListedRunIsOn LastRunIsSettled
PROPERTIES FinalStatusStands
SYMMETRY Symmetry
CHECK_DEADLOCK FALSE
