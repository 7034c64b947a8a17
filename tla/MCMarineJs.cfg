CONSTANTS
    NotSet = NotSet
    Bad = Bad
    Unreadable = Bad
    ArgsOfJson <- JsonToIValues
    JsonOfResults <- IValuesToJson
    FormsOfArgs <- ArgsForms
    FormsOfResults <- ResultForms
    Instances = {i1, i2}
    c1 = c1
    c2 = c2
    Calls = {c1, c2}
    Modules = {m}
    Ranges <- MCRanges
    RecordTypes <- MCRecordTypes
    Functions <- MCFunctions
    Inputs <- MCInputs
    MaxLogs = 1
    MaxPanics = 2
CHECK_DEADLOCK FALSE
SPECIFICATION Spec
INVARIANT MarineJsTypeOK
INVARIANT LogsReachService
INVARIANT CallsAnswered
PROPERTY CallsSettle
