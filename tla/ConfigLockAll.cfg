CONSTANTS
  t1 = t1
  t2 = t2
  t3 = t3
  Nobody = Nobody
  Threads <- MCThreads
  Setups <- MCAll
CHECK_DEADLOCK FALSE
SPECIFICATION FairSpec
INVARIANTS ChangeAlone LocksExact
PROPERTY PlainConfigEnds
