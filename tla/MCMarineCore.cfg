\* Load, unload, reload and call two names with three binaries.
CONSTANTS
    Names <- MCNames
    Funcs <- MCFuncs
    Binaries <- MCBinaries
    MemGrowths <- MCMemGrowths
    TblGrowths <- MCTblGrowths
    TotalLimit = 8
    EntrySize = 2
    MaxRejects = 1
    MaxLoads = 3
    MaxDepth = 8
SPECIFICATION Spec
INVARIANTS
    TypeOK
    BudgetCoversInstances
    PublishedReady
    ImportsAnswered
    NoCallback
    FramesReady
    OwnWasi
    Bookkeeping
PROPERTY ImplementsRegistry
