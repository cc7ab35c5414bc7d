SPECIFICATION LbSpec
CONSTANTS
  Upstreams = {u1, u2}
  Calls = {a}
  Gets = {a}
  LeastConn = TRUE
  Sticky = TRUE
  ErrorOpts = FALSE
  RetryAttempts = 1
INVARIANT StickyStored
CHECK_DEADLOCK FALSE
