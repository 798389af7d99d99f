\* Two keys: every interleaving of finitely many calls, the main loop and runs.
SPECIFICATION LiveSpec
CONSTANTS
  Keys = {k1, k2}
  RunIds = {r1, r2}
  Properties = {p1, p2}
  p1 = p1
  p2 = p2
  None = None
  Specs <- PlainSpecs
  BackoffDelay <- MCBackoffDelay
  ClockStep = 2
  MaxTime = 4
  MaxCalls = 4
  DayLen = 4
  WeekDays = 2
INVARIANTS SingleInstance NothingLost NoMissedWakeup
PROPERTIES DueKeyRuns ClosedLoopExits
CHECK_DEADLOCK FALSE
