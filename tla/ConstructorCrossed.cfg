CONSTANTS
  Literal <- Numbers
  Effects <- Calls
  Scenarios = {"crossed"}
SPECIFICATION MCSpec
CHECK_DEADLOCK FALSE
INVARIANT BodiesReadOwnParams
