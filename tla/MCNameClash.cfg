\* A module is named like a function of another one.
CONSTANTS
    Names <- MCNames
    Funcs <- MCFuncs
    Binaries <- ClashBinaries
    MemGrowths <- MCMemGrowths
    TblGrowths <- MCTblGrowths
    Particles <- MCParticles
    Configs <- ClashConfigs
    Unset = Unset
    TotalLimit = 4
    EntrySize = 2
    MaxRejects = 2
    MaxLoads = 3
    MaxDepth = 6
SPECIFICATION MarineSpec
\* A construction that failed leaves no Marine to call.
CHECK_DEADLOCK FALSE
INVARIANT CallUsesItsInterface
