CONSTANTS
  r1 = r1
  n1 = n1
  None = None
  Senders = {r1, n1}
  Requesters = {r1}
  Responders = {n1}
  Count <- OneEach
SPECIFICATION Spec
INVARIANT ResumedUponResponse
CHECK_DEADLOCK FALSE
