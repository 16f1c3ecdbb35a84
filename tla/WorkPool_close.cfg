\* Submissions racing Close on a buffered and on an unbuffered queue.
SPECIFICATION FairSpec
CONSTANTS
  s1 = s1
  s2 = s2
  s3 = s3
  w1 = w1
  NoJob = NoJob
  Submitters = {s1, s2, s3}
  Workers = {w1}
  QueueCaps = {0, 1}
INVARIANTS
  TypeOK
  JobsAccounted
  ClosedIsQuiet
PROPERTIES
  NothingAfterClose
  CloseReturns
  SubmissionsAnswered
CHECK_DEADLOCK FALSE
