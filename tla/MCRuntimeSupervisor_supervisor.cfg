SPECIFICATION Spec
CONSTANTS
    r1 = r1
    Recoveries = {r1}
    Threshold = 2
    MaxRestarts = 1
    MaxFaults = 2
INVARIANTS
    RuntimeHolds
PROPERTIES
    TasksSettle
