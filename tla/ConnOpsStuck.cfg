CONSTANTS
  MaxOps = 4
  PoolMax = 2
  MaxPending = 3
  Setups <- MCBinding
CHECK_DEADLOCK FALSE
SPECIFICATION FairSpec
PROPERTY OpEnds
