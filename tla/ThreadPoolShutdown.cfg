SPECIFICATION FairSpec
CONSTANTS
  Workers = {w1}
  Clients = {c1}
  Tasks = {t1}
  MaxQueueSize = 1
  NoTask = NoTask
PROPERTIES
  ShutdownReturns
CHECK_DEADLOCK FALSE
