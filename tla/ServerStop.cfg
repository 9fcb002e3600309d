SPECIFICATION Spec
CONSTANTS
  Sockets = {s1, s2}
  Asking = {s1}
  Base = base
  w1 = w1
  w2 = w2
  Workers <- TwoWorkers
INVARIANT RepliesFindALoop
CHECK_DEADLOCK FALSE
