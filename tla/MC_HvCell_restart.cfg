\* Restarts from the written image, with stable and volatile storage in
\* use at once: one 96-byte block per storage holds up to four 16-byte
\* cells, and no cell crosses or starts at a block boundary.
CONSTANTS
    Types <- MC_BothTypes
    Sizes <- MC_OneBlockSizes
    HBLOCK_SIZE = 96
    MaxBlocks = 1
    HCELL_NIL = HCELL_NIL
INIT Init
NEXT NextWithRestart
VIEW RestartView
INVARIANTS
    BinsTiled
    OwnedAllocated
    FreeListsExact
    PersistedImageLoads
