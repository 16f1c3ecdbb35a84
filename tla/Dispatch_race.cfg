SPECIFICATION Spec
CONSTANTS
  a = a
  b = b
  t1 = t1
  w1 = w1
  w2 = w2
  p1 = p1
  p2 = p2
  p3 = p3
  NoTask = NoTask
  Free = Free
  Tasks = {t1}
  Workers = {w1, w2}
  Pairs = {p1, p2}
  Subtasks = {a}
  DependsOn <- Single
  Order <- SingleOrder
  HasFinalizer = TRUE
  AttemptBound = 8
  maxAttempts = 2
  MaxRetries = 1
  QueueLimit = 1
  MaxResumes = 1
SYMMETRY Interchangeable
INVARIANTS
  NoSubtaskDropped
  RecordsConsistent
