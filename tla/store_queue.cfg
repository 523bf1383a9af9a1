CONSTANTS
  q1 = q1
  q2 = q2
  s1 = s1
  p1 = p1
  Submitters = {q1, q2}
  Savers = {s1}
  Posters = {p1}
  WriteLoop = WriteLoop
  None = None
  QueueDepth = 2
  BatchRows = 3
  MaxFailures = 1
  MayClose = TRUE
SPECIFICATION FairSpec
INVARIANTS TypeOK ReplyHonest NoOrphanWaiter SaverTaskOver
PROPERTIES AtomicTasks AnsweredWhileOpen
CHECK_DEADLOCK FALSE
