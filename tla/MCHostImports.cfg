\* Three calls of ten imports, with all that a guest may lack.
CONSTANTS
    Descriptors <- MCDescriptors
    MaxCalls = 3
SPECIFICATION HostSpec
\* The calls are bounded, and a panic ends everything.
CHECK_DEADLOCK FALSE
INVARIANTS
    HostTypeOK
    ResultBelongsToCall
    FailureNotSilent
    LiftFitsSignature
    PanicOnlyUnhandled
