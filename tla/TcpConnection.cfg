SPECIFICATION FairSpec
CONSTANTS
  Sync = {}
  Async = {a}
  GoodAuth = {g}
  BadAuth = {b}
  AuthEnabled = TRUE
  SendRoom = 1
INVARIANTS
  TypeOK
  HandlersRunOnLive
  NothingWaitsUnseen
  AnsweredOnceInOrder
  PoolIsGated
PROPERTIES
  ServedIsAnswered
  ClosedIsFreed
CHECK_DEADLOCK FALSE
