CONSTANTS
    Byte = 2
    WordBytes = 3
    AddressBytes = 2
    Types <- MCTypes
    Limit = 12
    Depth = 2
    Numbers <- MCNumbers
    Fixed <- MCFixed
    Constants <- MCConstants
    Scenarios = {"registers", "constants"}
SPECIFICATION MCSpec
INVARIANTS OperatorsAreExact FoldIsExact
PROPERTIES FieldsAndCounters
CHECK_DEADLOCK FALSE
