\* One task that is disturbed twice and continued.
SPECIFICATION Spec
CONSTANTS
  n1 = n1
  n2 = n2
  A = A
  B = B
  a = a
  b = b
  Nodes = {n1}
  Tasks = {A}
  Names = {a, b}
  Contents = {"x", "y"}
  Snapshots <- OneNode
  Retention <- Keep
  AgeMax = 1
  Only = {FALSE}
  Continues = {TRUE}
  Beside = {}
  MaxTime = 1
  MaxRuns <- Three
  MaxEvents = 2
  MaxCalls = 0
INVARIANTS CompletedIsWhole
CHECK_DEADLOCK FALSE
