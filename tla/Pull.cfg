CONSTANTS
  u1 = u1
  u2 = u2
  Uris <- Two
  Spans = {1, 2}
  Messages <- Bounds
  Starts <- Either
SPECIFICATION PullSpec
INVARIANTS PullsSettle ProgressPaired
PROPERTIES ReportsOneWorkspace
SYMMETRY Symmetric
CHECK_DEADLOCK FALSE
