SPECIFICATION FairSpec
CONSTANTS
  a = a
  b = b
  t1 = t1
  w1 = w1
  w2 = w2
  p1 = p1
  p2 = p2
  p3 = p3
  NoTask = NoTask
  Free = Free
  Tasks = {t1}
  Workers = {w1}
  Pairs = {p1, p2}
  Subtasks = {a, b}
  DependsOn <- Chain
  Order <- ChainOrder
  HasFinalizer = TRUE
  AttemptBound = 8
  maxAttempts = 2
  MaxRetries = 0
  QueueLimit = 1
  MaxResumes = 1
INVARIANTS
  TypeOK
  RecordsConsistent
  PrerequisitesFirst
  EachPairOnce
PROPERTIES
  NoAttemptOnceCancelled
  
  
