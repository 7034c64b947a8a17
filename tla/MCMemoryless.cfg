\* A module without a memory is loaded, and memory_size expects one.
CONSTANTS
    Names <- MCNames
    Funcs <- MCFuncs
    Binaries <- MCAllBinaries
    MemGrowths <- MCMemGrowths
    TblGrowths <- MCTblGrowths
    TotalLimit = 8
    EntrySize = 2
    MaxRejects = 1
    MaxLoads = 2
    MaxDepth = 6
SPECIFICATION Spec
INVARIANT EveryModuleHasMemory
