CONSTANTS
  r1 = r1
  n1 = n1
  None = None
  Senders = {r1, n1}
  Requesters = {r1}
  Responders = {n1}
  Count <- OneTwo
SPECIFICATION FairSpec
INVARIANTS InOrderUnlessOverlapping
PROPERTIES UnmatchedOnlyBeforeStored DeliversAtMostOnce EveryMessageWritten
CHECK_DEADLOCK FALSE
