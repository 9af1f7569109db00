SPECIFICATION Spec
CONSTANTS
    MaxRuns = 3
INVARIANTS
    NoHandleBetweenRuns
    NoOrphan
    NoCrash
PROPERTIES
    StoppedAtScriptEnd
    ReturnsByContract
    BackgroundEnds
