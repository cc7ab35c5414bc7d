SPECIFICATION SessionSpec
CONSTANTS
  Names = {n1}
  Proxies = {n1}
  States = {x1, x2, x3}
  MaxGen = 2
INVARIANT ProxyHasUpstreams
CHECK_DEADLOCK FALSE
