CONSTANTS
  Literal <- Numbers
  Effects <- Calls
  Scenarios = {"modifiers", "lines", "returns"}
SPECIFICATION MCSpec
CHECK_DEADLOCK FALSE
INVARIANTS WrapsFaithfully MergesFaithfully
