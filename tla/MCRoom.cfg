CONSTANTS
  p1 = p1
  p2 = p2
  p3 = p3
  a = a
  b = b
  None = None
  Peers = {p1, p2}
  Producers = {a, b}
  Owner <- Each
  Shareable = {a, b}
  WriterPreferring = FALSE
SPECIFICATION FairSpec
INVARIANTS EveryoneConsumes OneVideoShared MirrorsWorker NoStaleConsumer PeersKnowEachOther NullNeedsClosedProducer LocksAreReleased
PROPERTY HandlersEnd
CHECK_DEADLOCK FALSE
