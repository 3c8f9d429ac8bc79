SPECIFICATION Spec
CONSTANTS
  Calls = {c1, c2}
  MaxId = 2
  None = None
INVARIANTS
  NotificationWaitsForResponse
CHECK_DEADLOCK FALSE
