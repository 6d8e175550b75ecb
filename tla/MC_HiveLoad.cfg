CONSTANTS
    HBLOCK_SIZE = 64
    MaxBlocks = 3
    Operations = {"HINIT_CREATE", "HINIT_MEMORY", "HINIT_FLAT", "HINIT_FILE", "HINIT_MEMORY_INPLACE"}
    Images <- MC_Images
SPECIFICATION Spec
\* HvInitialize returns, and the hive may be freed: then no step is left.
CHECK_DEADLOCK FALSE
INVARIANTS
    TypeOK
    BlockListInBounds
    FreeCellsInBins
    FreedHiveSafe
PROPERTIES
    LoadTerminates
    LoadRefinesSpec
