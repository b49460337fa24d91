CONSTANTS
  MaxOps = 4
  PoolMax = 4
  MaxPending = 2
  Setups <- MCClients
CHECK_DEADLOCK FALSE
SPECIFICATION FairSpec
INVARIANTS CountersExact BindAlone CancelledStays
PROPERTIES NoOvertaking PlainOpEnds ClosingDestroyed
