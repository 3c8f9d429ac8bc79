CONSTANTS
  p1 = p1
  p2 = p2
  p3 = p3
  a = a
  b = b
  None = None
  Peers = {p1, p2, p3}
  Producers = {a, b}
  Owner <- Each
  Shareable = {}
  WriterPreferring = TRUE
SPECIFICATION Spec
CONSTRAINT LateJoiner
SYMMETRY Swapped
INVARIANTS HaltsOnlyInLockCycle
CHECK_DEADLOCK FALSE
