SPECIFICATION Spec
CONSTANTS
  Tasks = {t1}
  Workers = {w1, w2}
  Attempts = 1
  NoDeadLetter = FALSE
  MaxFaults = 2
  Count = 2
  Period = 3
  Nodes = {n1, n2}
  Interval = 3
  Jitter = 1
  Skew = 1
  MaxErrors = 1
  Requests = {r1, r2, r3, r4}
  Limit = 2
  Burst = 2
  BlockAfter = 1
  MaxTick = 3
INVARIANTS
  TasksCorrect
PROPERTIES
  ScheduleKept
  RatesKept
  TasksEnd
CHECK_DEADLOCK FALSE
