CONSTANTS
  o1 = o1
  o2 = o2
  o3 = o3
  Listener = Listener
  Nobody = Nobody
  Ops <- MCOps3
  MaxPdu = 1
  WaitFails = {FALSE, TRUE}
CHECK_DEADLOCK FALSE
SPECIFICATION FairSpec
INVARIANTS OnePduAtATime DestroyedQuiet WritersCounted
PROPERTY PatientClosingEnds
