SPECIFICATION Spec
CHECK_DEADLOCK FALSE
CONSTANTS
    a = a
    b = b
    NumJobs = 3
    Accepted = {1, 3}
    Once = {3}
    NameOf <- TwoNames
    Watchable = {0, 3}
    MaxRuns = 2
INVARIANTS
    JobAnswered
    ListInOrder
    ExitsClean
    ExitCodes
PROPERTIES
    SignalEnds
    WatchedChangeEnds
