SPECIFICATION ReportSpec
CONSTANTS
    NumTasks = 2
    NumGroups = 2
    GroupOf <- GroupsOneOne
    Kind <- KindsPlainCmd
    MaxRuns = 2
INVARIANTS
    NoStalePart
    WholeIfOneRun
PROPERTIES
    NeverBack
