SPECIFICATION FairSpec
CONSTANTS
  Posters = {p1, p2}
  Foreign = {f1, f2}
  ByHandler = {h1}
  Nested = {n1, n2}
INVARIANTS
  TypeOK
  NoStrandedFunctor
PROPERTIES
  RunsInOrder
  ForeignRunsUnlessQuit
  QuitEndsLoop
CHECK_DEADLOCK FALSE
