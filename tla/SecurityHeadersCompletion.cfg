\* Three requests in production.
SPECIFICATION HeadersSpec
CONSTANTS
  Requests = {r1, r2, r3}
  None = None
  IsDev = FALSE
  Capacity = 6
SYMMETRY Symmetry
INVARIANTS HeadersTypeOK PolicyIsCompleted
CHECK_DEADLOCK FALSE
