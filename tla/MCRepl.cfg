CONSTANTS
    Absent = Absent
    BasePath <- MCBasePath
    WasmFile <- MCWasmFile
    Configs <- MCConfigs
    ServiceIds = {"s1", "s2"}
    ServiceEnvs <- MCServiceEnvs
    WorkingDir <- MCWorkingDir
    Files <- MCFiles
    Filters <- MCFilters
    Names <- MCNames
SPECIFICATION Spec
CHECK_DEADLOCK FALSE
INVARIANT ReplTypeOK
INVARIANT LevelIsAsDirected
INVARIANT ServiceComplete
INVARIANT OwnEnvironment
INVARIANT DirsMade
INVARIANT FacadeStands
PROPERTY ReplacedWhole
PROPERTY CallsEnd
