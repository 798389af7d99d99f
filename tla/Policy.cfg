\* Two clusters, three calls, the task types that go through the policy.
SPECIFICATION Spec
CONSTANTS
  Clusters = {c1, c2}
  Calls = {k1, k2, k3}
  TaskTypes = {"repair", "tablet_repair", "backup", "restore"}
  Exclusive = {"restore"}
INVARIANTS SharedSafely LocksMatch
