\* Two tasks, three snapshots, a node whose files change and one without files.
SPECIFICATION Spec
CONSTANTS
  n1 = n1
  n2 = n2
  A = A
  B = B
  a = a
  b = b
  Nodes = {n1, n2}
  Tasks = {A, B}
  Names = {a, b}
  Contents = {"x", "y"}
  Snapshots <- TwoNodes
  Retention <- Keep
  AgeMax = 1
  Only = {FALSE}
  Continues = {TRUE}
  Beside = {}
  MaxTime = 3
  MaxRuns <- TwoAndOne
  MaxEvents = 1
  MaxCalls = 1
INVARIANTS TypeOK ListedIsRestorable NoOrphans NeverStuck
PROPERTIES  RetentionKept
CHECK_DEADLOCK FALSE
