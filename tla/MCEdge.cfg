SPECIFICATION Spec
CONSTANTS
  Protos = {"h2"}
  Subs = {s1, s2}
  Conns = {c1, c2}
  Backlog = 1
  Machines = {m1, m2}
  HostOf <- MCHostOf
  Timeout = 1
  MaxTime = 2
  MaxFailures = 1
  Topologies <- MCTopologies
  Buckets = 2
  Callers = {r1, r2}
  Values = {0, 1}
  Null = 0
  MaxStep = 1
  MaxRev = 3
  MaxLost = 1
INVARIANTS
  MuxCorrect
  PeersCorrect
  NodeCorrect
PROPERTIES
  CasIsAtomic
  EdgeSettles
CHECK_DEADLOCK FALSE
