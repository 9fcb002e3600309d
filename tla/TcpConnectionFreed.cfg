SPECIFICATION Spec
CONSTANTS
  Sync = {s}
  Async = {}
  GoodAuth = {g}
  BadAuth = {}
  AuthEnabled = FALSE
  SendRoom = 1
INVARIANT ChannelRemovedBeforeDestruction
CHECK_DEADLOCK FALSE
