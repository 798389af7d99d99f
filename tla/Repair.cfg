\* A table repaired range by range and a small one, over three runs.
SPECIFICATION Spec
CONSTANTS
  n1 = n1
  n2 = n2
  n3 = n3
  n4 = n4
  t1 = t1
  t2 = t2
  Tables <- TwoTables
  Tablet = {}
  SmallSets = {{t2}}
  Nodes = {n1, n2, n3, n4}
  ReplicaSets = {"A", "B", "C", "D"}
  Replicas <- FourSets
  RangesOf <- FourRanges
  Intensities = {1}
  Parallels = {1}
  Controls = {0, 1}
  MaxParallel = 2
  FailFasts = {TRUE, FALSE}
  Continues = {TRUE}
  MayDelete = {t1}
  MaxRuns = 3
  MaxEvents = 2
  MaxCompleted = 1
INVARIANTS TypeOK OneJobPerNode ContinuedNotRepeated NeverStuck
PROPERTIES CompletedIsRepaired
CHECK_DEADLOCK FALSE
