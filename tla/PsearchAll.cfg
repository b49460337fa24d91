SPECIFICATION FairSpec
CONSTANTS
  s1 = s1
  s2 = s2
  w1 = w1
  w2 = w2
  e1 = e1
  e2 = e2
  Searches = {s1, s2}
  Changes = {w1, w2}
  Entries = {e1, e2}
  Nobody = Nobody
  Setups <- MCSetups
INVARIANTS ReferencesHeld NothingLost Drained 
PROPERTIES QueuedIsPlayed AbandonedIsFreed 
CHECK_DEADLOCK FALSE
