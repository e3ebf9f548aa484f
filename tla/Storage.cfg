\* Statements on variables of fourteen types; four variables of twelve types laid out.
CONSTANTS
  Scenarios = {"statements", "planner"}
  Lanes = 4
  Keys = 2
  Types <- MCTypes
  MaxLen <- MCMaxLen
  MaxWords <- MCMaxWords
  Effects <- MCEffects
  Dangling = FALSE
  InlineRows = FALSE
  Beside = 1
SPECIFICATION MCSpec
INVARIANTS
  NothingLeftBehind
  StatementsKeepValues
  PlacesAsSolidity
CHECK_DEADLOCK FALSE
