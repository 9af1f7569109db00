SPECIFICATION Spec
CONSTANTS
    NumTasks = 3
    NumGroups = 2
    GroupOf <- GroupsOneTwo
    Kind <- KindsMixed
    MaxRuns = 2
INVARIANTS
    TypeOK
    GroupsInOrder
    VerdictSound
    PublishOrder
    CleanSlate
    NeverRefused
PROPERTIES
    FinishedAtScriptEnd
    RunEnds
    ImplementsJobRun
