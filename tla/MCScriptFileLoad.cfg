SPECIFICATION FileSpec
CHECK_DEADLOCK FALSE
CONSTANTS
    Names = {n1, n2}
    Uids = {u1, u2}
    Omitted = omitted
    MaxTasks = 5
    a = a
    b = b
    TaskNames = {a, b}
    MaxText = 4
    FileStructs <- StructsInFile
    Scalars <- AllScalars
    Default = 1
    Rejected = {3}
    ScalarOf <- TextScalars
    WordsOf <- TextWords
    Programs <- FilePrograms
    ContentOf <- FileContents
    VarsOfJobs <- JobVars
SYMMETRY Interchangeable
CONSTRAINT Bounded
INVARIANTS
    FileOrder
    NeighboursByName
    OverridesApplied
    AllOrNothing
