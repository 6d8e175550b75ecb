CONSTANTS
    HBLOCK_SIZE = 64
    MaxBlocks = 3
    Operations = {"HINIT_FILE"}
    Images <- Oversized
SPECIFICATION Spec
\* HvInitialize returns, and the hive may be freed: then no step is left.
CHECK_DEADLOCK FALSE
INVARIANT
    BlockListInBounds
