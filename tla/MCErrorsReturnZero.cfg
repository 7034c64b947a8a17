\* A result that cannot be lowered.
CONSTANTS
    Descriptors <- MCDescriptors
    MaxCalls = 3
SPECIFICATION HostSpec
\* The calls are bounded, and a panic ends everything.
CHECK_DEADLOCK FALSE
INVARIANT ErrorsReturnZero
