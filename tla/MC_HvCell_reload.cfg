CONSTANTS
    Types <- MC_Types
    Sizes <- MC_Sizes
    HBLOCK_SIZE = 64
    MaxBlocks = 4
    HCELL_NIL = HCELL_NIL
INIT Init
NEXT NextWithRestart
VIEW RestartView
INVARIANT PersistedImageLoads
