SPECIFICATION Spec
CONSTANTS
  Bytes <- MCBytes
  Zero <- MCZero
  Requests <- MCRequests
  Garbage <- MCGarbage
  Lines <- MCLines
  PrependSize = 1
  InitialSize = 6
  ReadSize = 4
  MaxStream = 16
INVARIANTS
  TypeOK
  CapacityFollowsBacklog
  FramesComeOutWhole
PROPERTY ReceivesTheStream
CHECK_DEADLOCK FALSE
