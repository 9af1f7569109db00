SPECIFICATION Spec
CHECK_DEADLOCK FALSE
CONSTANTS
    Codes <- CodesOfTwo
    Empty = Empty
    Texts = {text}
INVARIANTS
    VerdictByOutput
    FieldsExported
    ContractKept
PROPERTIES
    RunnerReturns
