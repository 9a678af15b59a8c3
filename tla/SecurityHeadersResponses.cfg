\* Two requests in production.
SPECIFICATION HeadersSpec
CONSTANTS
  Requests = {r1, r2}
  None = None
  IsDev = FALSE
  Capacity = 4
INVARIANT ResponsesAreStrict
CHECK_DEADLOCK FALSE
