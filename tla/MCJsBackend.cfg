CONSTANTS
    Absent = Absent
    Binaries <- MCBinaries
    MaxAttempts = 3
    MaxDepth = 7
    MaxPanics = 2
    MaxU32 = 3
SPECIFICATION Spec
CHECK_DEADLOCK FALSE
INVARIANT JsTypeOK
INVARIANT CallerIsExecuting
INVARIANT ExportsBound
INVARIANT AccessInside
