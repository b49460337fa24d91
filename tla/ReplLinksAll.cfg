CONSTANTS
  l1 = l1
  l2 = l2
  Links <- MCLinks
  Rid <- MCRid
  SidSet = {1, 2}
  Setups <- MCCases
SPECIFICATION Spec
INVARIANTS CountsMatch  ReadyMeansRefreshed
PROPERTIES  VerdictKept
