\* One key: retries, windows, continuations and long runs over six clock steps.
SPECIFICATION Spec
CONSTANTS
  Keys = {k1}
  RunIds = {r1, r2}
  Properties = {p1, p2}
  p1 = p1
  p2 = p2
  None = None
  Specs <- SequenceSpecs
  BackoffDelay <- MCBackoffDelay
  ClockStep = 2
  MaxTime = 12
  DayLen = 4
  WeekDays = 2
PROPERTIES StoppedStartsAfresh ActivationsNotSkipped KeepsPromise
CHECK_DEADLOCK FALSE
