CONSTANTS
  o1 = o1
  o2 = o2
  o3 = o3
  Ops <- MCOps
  Sids = {1, 2}
  LocalSid = 1
  MaxTs = 3
  NoOp = NoOp
SYMMETRY Symmetry
SPECIFICATION Spec
INVARIANTS TypeOK PendingListOrdered PublishedIsStored LockedCookieExact
 
