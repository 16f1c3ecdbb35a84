\* One task of two chained subtasks, failing store writes and crashes.
SPECIFICATION Spec
CONSTANTS
  a = a
  b = b
  Subtasks = {a, b}
  DependsOn <- Chain
  HasFinalizer = TRUE
  AttemptBound = 1
  MaxTasks = 1
  NoTask = NoTask
  StoreMayFail = TRUE
INVARIANTS
  TypeOK
  RollUpConsistent
  OutputsEarned
  OneFinalizer
  CheckpointBehindStore
PROPERTIES
  DurableProgress
  CleanRestart
