SPECIFICATION Spec
CHECK_DEADLOCK FALSE
CONSTANTS
    NumUrls = 2
    a = a
    b = b
    Keys = {a, b}
    Wrong = wrong
    Lists <- ListsOfTwo
    Empty = empty
    Texts = {text}
INVARIANTS
    VerdictByUrl
    EverythingExported
PROPERTIES
    ResultFinal
    RunnerReturns
