CONSTANTS
  c1 = c1
  c2 = c2
  Consumers = {c1, c2}
  Pool = Pool
  Closer = Closer
  None = None
  Layers <- MCLayers
  Calls = 2
SYMMETRY Symmetric
SPECIFICATION Spec
INVARIANTS LastWordIsTrue CrashNeedsOverlap
CHECK_DEADLOCK FALSE
