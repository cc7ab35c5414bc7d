SPECIFICATION ProcFairSpec
CONSTANTS
  Requests = {r1}
  StopTimeout = 3
  StartBy = 2
  MaxTime = 7
PROPERTIES
  TerminationSound
  StopEndsProcess
CHECK_DEADLOCK FALSE
