\* The durable run's report property with a store whose writes may fail.
SPECIFICATION Spec
CONSTANTS
  a = a
  b = b
  Subtasks = {a}
  DependsOn <- Independent
  HasFinalizer = FALSE
  AttemptBound = 1
  MaxTasks = 1
  NoTask = NoTask
  StoreMayFail = TRUE
INVARIANTS
  ReportedCompletionIsDurable
