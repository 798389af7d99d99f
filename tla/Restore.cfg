\* Two hosts, three sstables of two data centers; runs that fail, stop or crash.
SPECIFICATION Spec
CONSTANTS
  h1 = h1
  h2 = h2
  d1 = d1
  d2 = d2
  a = a
  b = b
  c = c
  Hosts = {h1, h2}
  DCs = {d1, d2}
  SSTables = {a, b, c}
  Dir <- DirOf
  DC <- DCOf
  BatchType <- TypeOf
  Size <- Ten
  Files <- Ten
  Access <- Both
  Shards <- One
  NativeHosts = {h1}
  Method = "auto"
  BatchSize = 1
  FileLimit = 100
  Tables = {"t"}
  Views = {"v"}
  DirRank <- Ranks
  HostRank <- Order
  Parallel = 2
  AllowCompaction = FALSE
  UnpinAgentCPU = TRUE
  Continues = {TRUE, FALSE}
  CrashInCleanup = FALSE
  MaxRuns = 3
  MaxEvents = 2
INVARIANTS NothingSkipped ClusterIsBack LoadedIsProtected WaitsForSomebody NoneLostNoneTwice
PROPERTIES RunEnds
CHECK_DEADLOCK FALSE
