CONSTANTS
  t1 = t1
  t2 = t2
  t3 = t3
  k1 = k1
  k2 = k2
  k3 = k3
  k4 = k4
  Nobody = Nobody
  NoTask = NoTask
  Closer = Closer
  Threads <- MCThreads
  Tasks = {k1, k2, k3, k4}
  NumQs = 1
  MaxCounts = {2, 3}
  MaxPending = 4
  Setups <- MCBusy
CHECK_DEADLOCK FALSE
SYMMETRY MCThreadSym
SPECIFICATION Spec
INVARIANT CountsExact
PROPERTY LastThreadStays
