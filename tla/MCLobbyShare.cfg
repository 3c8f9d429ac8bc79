CONSTANTS
  s1 = s1
  s2 = s2
  s3 = s3
  alice = alice
  bob = bob
  Absent = Absent
  Null = Null
  Sockets = {s1, s2, s3}
  PeerId <- Reconnecting
SPECIFICATION Spec
INVARIANT PeersShareRoom
CHECK_DEADLOCK FALSE
