\* Hash leaves (hive version 5) in a free build, where an allocation of
\* CmpAddSubKey may fail.  The system stops after a NIL dereference, so a
\* state without successors is expected.
CONSTANTS
    Names <- MC_Names
    CellIds <- MC_CellIds
    StorageOf <- MC_StableOnly
    StorageTypeCount = 1
    Versions = {5}
    HBLOCK_SIZE = 56
    NIL = NIL
    MaxFailAt = 1
    SlackAllocs = {}
    MaxSplits = 2
    CheckedBuild = FALSE
    c1 = c1  c2 = c2  c3 = c3  c4 = c4  c5 = c5
    c6 = c6  c7 = c7  c8 = c8  c9 = c9  c10 = c10
INIT Init
NEXT Next
CHECK_DEADLOCK FALSE
INVARIANT IndexWellFormed
