SPECIFICATION Spec
CONSTANTS
  Names = {n1, n2}
  Proxies = {n1}
  States = {x1, x2}
  MaxGen = 2
  Starts = {s1}
  Archives = {a1, a2, a3}
  Sums = {v1, v2}
INVARIANTS
  BuildSound
  RunDirKept
PROPERTIES
  SessionSound
  DeployEnds
CHECK_DEADLOCK FALSE
