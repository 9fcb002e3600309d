SPECIFICATION FairSpec
CONSTANTS
  Lines = {l1, l2, l3}
  Threshold = 2
  MaxStarts = 2
INVARIANTS
  TypeOK
  StopWritesAll
PROPERTIES
  WritesInOrder
  LinesAreFlushed
  StopReturns
CHECK_DEADLOCK FALSE
