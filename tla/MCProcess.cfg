SPECIFICATION Spec
CONSTANTS
  Checks = {c1, c2}
  HealthyThreshold = 2
  UnhealthyThreshold = 0
  Procs = {p1, p2, p3}
  Cluster = 2
  ClusterMin = 1
  AutoScale = FALSE
  AutoScaleStreak = 1
  SlowStart = TRUE
  MaxMemory = TRUE
  Walks <- MCWalks
  Fold <- MCFold
  QueueCap = 2
  Writers = {"a", "b"}
  Tails = {t1}
  LineLimits = {0, 1}
  MaxLines = 3
  MaxStamp = 2
  Hosts = {"h1", "h2"}
  LogTimes <- MCTimes
  FlushTime = 4
INVARIANTS
  MergeExact
  TailCorrect
  WalkCorrect
PROPERTIES
  ProcessSettles
  ReportsSound
CHECK_DEADLOCK FALSE
