\* Build, call with and without JSON, unload and load again.
CONSTANTS
    Names <- MCNames
    Funcs <- MCFuncs
    Binaries <- MCBinaries
    MemGrowths <- MCMemGrowths
    TblGrowths <- MCTblGrowths
    Particles <- MCParticles
    Configs <- MCConfigs
    Unset = Unset
    TotalLimit = 4
    EntrySize = 2
    MaxRejects = 2
    MaxLoads = 3
    MaxDepth = 6
SPECIFICATION MarineSpec
\* A construction that failed leaves no Marine to call.
CHECK_DEADLOCK FALSE
INVARIANTS
    MarineTypeOK
    ForeignInterfaceByClash
    RefusalNeverMissed
PROPERTY ReadyIsComplete
