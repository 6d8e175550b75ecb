\* Memory and file loads, each followed by HvFree: every leak and double
\* free of the load is a reachable violation; TLC reports the shortest.
CONSTANTS
    HBLOCK_SIZE = 64
    MaxBlocks = 3
    Operations = {"HINIT_MEMORY", "HINIT_FILE"}
    Images <- MC_Images
SPECIFICATION Spec
\* HvInitialize returns, and the hive may be freed: then no step is left.
CHECK_DEADLOCK FALSE
INVARIANT
    HvFreeReleasesAll
