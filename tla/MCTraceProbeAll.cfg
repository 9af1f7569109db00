SPECIFICATION TraceSpec
CHECK_DEADLOCK FALSE
CONSTANTS
    NumExpected = 3
    MaxHops = 4
INVARIANTS
    AllMeansAll
