SPECIFICATION HelperSpec
CONSTANTS
    Runs = {1, 2}
    Traces = {"t"}
    Trace <- MCTrace
    MaxHelpers = 2
INVARIANTS
    HelperHolds
PROPERTIES
    TurnsSettle
CHECK_DEADLOCK FALSE
