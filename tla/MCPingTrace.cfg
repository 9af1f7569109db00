SPECIFICATION PingThenTrace
CHECK_DEADLOCK FALSE
CONSTANTS
    NumHosts = 3
    Hosts = {a, b}
    NumExpected = 3
    MaxHops = 4
SYMMETRY Interchangeable
INVARIANTS
    ResultByHost
    AnswerOfTrace
