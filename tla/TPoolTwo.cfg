CONSTANTS
  t1 = t1
  t2 = t2
  t3 = t3
  k1 = k1
  k2 = k2
  k3 = k3
  k4 = k4
  Nobody = Nobody
  NoTask = NoTask
  Closer = Closer
  Threads <- MCThreads
  Tasks = {k1, k2, k3}
  NumQs = 1
  MaxCounts = {3}
  MaxPending = 4
  Setups <- MCTwo
CHECK_DEADLOCK FALSE
SPECIFICATION Spec
INVARIANT SolePause
