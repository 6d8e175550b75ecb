\* Hives of version 1 (index leaves), version 3 (fast leaves, converted
\* to index leaves when full) and version 5 (hash leaves), stable and
\* volatile subkeys, restarts, writes of the hive (HvSyncHive), no
\* allocation failure.
CONSTANTS
    Names <- MC_Names
    CellIds <- MC_CellIds
    StorageOf <- MC_Mixed
    StorageTypeCount = 2
    Versions = {1, 3, 5}
    HBLOCK_SIZE = 56
    NIL = NIL
    MaxFailAt = 0
    SlackAllocs = {1}
    MaxSplits = 2
    CheckedBuild = TRUE
    c1 = c1  c2 = c2  c3 = c3  c4 = c4  c5 = c5
    c6 = c6  c7 = c7  c8 = c8  c9 = c9  c10 = c10
VIEW IndexView
INIT Init
NEXT Next
INVARIANTS
    TypeOK
    IndexWellFormed
    IndexSorted
    LookupAgrees
    EnumerationAgrees
    NoCellLeak
    EntriesFitCells
    NoFault
PROPERTIES
    AbsSpec
    IndexWritesDirty
