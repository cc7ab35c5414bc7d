SPECIFICATION Spec
CONSTANTS
  Calls = {c1, c2}
  Seqs = 2
  Users = {u1, u2}
  MaxConns = 1
  MaxClients = 4
  Keys = {k1, k2}
  Dialers = {d1, d2}
  MaxTickers = 2
  Streams = {s1, s2}
  Requests = {r1, r2}
  CertIds = {"root", "h1"}
  Askers = {"a1", "a2"}
  MaxMade = 4
  Procs = {"p", "q", "r"}
  MaxLocks = 2
  MaxLives = 3
  Addresses = 3
  Takers = {k1, k2}
  Tries = 3
  MaxSteps = 8
INVARIANTS
  HomeIsOwned
  CallsAnswered
  PoolCorrect
  CacheCorrect
  DialCorrect
  ServeCorrect
PROPERTIES
  CertsCorrect
  RpcEnds
CHECK_DEADLOCK FALSE
