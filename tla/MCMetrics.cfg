SPECIFICATION Spec
CHECK_DEADLOCK FALSE
CONSTANTS
    Tables <- MCTables
    NotLabels = {"a-b"}
    Garbled <- MCGarbled
INVARIANTS
    LabelsOfTask
    ScrapeAnswered
