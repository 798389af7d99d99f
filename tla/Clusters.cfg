SPECIFICATION Spec
CONSTANTS
  None = None
  h1 = h1
  h2 = h2
  KindOrder <- TwoKinds
  AutoTasks <- OneTask
  Hosts = {h1, h2}
  Rings <- RingSets
  Given <- NoneOrAll
  RequireAuth = TRUE
  MaxReads = 2
  MaxCalls = 2
  MaxEvents = 1
  Scenes <- FourScenes
  MaxBusy = 2
INVARIANTS TypeOK ClientIsCurrent
PROPERTIES SecretsRolledBack DeletedIsGone ConfigCatchesUp
CHECK_DEADLOCK FALSE
