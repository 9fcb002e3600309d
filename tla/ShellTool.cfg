SPECIFICATION FairSpec
CONSTANTS
  MaxBytes = 2
  PipeRoom = 2
INVARIANTS
  OutputIsWhole
CHECK_DEADLOCK FALSE
PROPERTIES
  CallReturns
  WritersAreNotBlocked
