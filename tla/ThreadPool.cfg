SPECIFICATION FairSpec
CONSTANTS
  Workers = {w1, w2}
  Clients = {c1, c2}
  Tasks = {t1, t2, t3, t4}
  MaxQueueSize = 1
  NoTask = NoTask
INVARIANTS
  TypeOK
  AdmissionBound
  NoSleepOnWork
PROPERTIES
  ServesTasks
  QueuedTasksComplete
CHECK_DEADLOCK FALSE
