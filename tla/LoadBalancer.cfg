SPECIFICATION LbFairSpec
CONSTANTS
  Upstreams = {u1, u2}
  Calls = {a, b}
  Gets = {a}
  LeastConn = TRUE
  Sticky = TRUE
  ErrorOpts = TRUE
  RetryAttempts = 1
PROPERTIES
  BalanceCorrect
  RequestEnds
CHECK_DEADLOCK FALSE
