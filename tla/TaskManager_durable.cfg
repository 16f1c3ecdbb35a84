\* Two chained subtasks on a store that never fails: what Wait reports, who
\* owns synthesis, and the ledger refinement.
SPECIFICATION FairSpec
CONSTANTS
  a = a
  b = b
  Subtasks = {a, b}
  DependsOn <- Chain
  HasFinalizer = TRUE
  AttemptBound = 2
  MaxTasks = 1
  NoTask = NoTask
  StoreMayFail = FALSE
INVARIANTS
  SynthesisOwned
  ReportedCompletionIsDurable
PROPERTIES
  ImplementsLedger
  SynthesisEnds
