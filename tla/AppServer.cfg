SPECIFICATION ServerSpec
CONSTANTS
  Procs = {p1, p2, p3, p4}
  Cluster = 3
  ClusterMin = 2
  AutoScale = TRUE
  AutoScaleStreak = 2
  SlowStart = FALSE
  MaxMemory = TRUE
SYMMETRY Symmetry
INVARIANTS
  RunningBound
  ReplacementIsAlone
CHECK_DEADLOCK FALSE
