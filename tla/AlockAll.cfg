CONSTANTS
  p1 = p1
  p2 = p2
  None = None
  Procs <- MCTwo
  MaxSlots = 7
  MaxStarts = 4
  MaxCrashes = 3
CHECK_DEADLOCK FALSE
SPECIFICATION FairSpec
   
PROPERTY OpenCloseEnd
