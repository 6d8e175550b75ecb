CONSTANTS
    Chars <- MC_Chars
    Upcase <- MC_Upcase
    Versions <- MC_Versions
    ValueNames <- MC_ValueNames
    MaxLen = 2
    MaxValues = 3
    None = None
    HCELL_NIL = HCELL_NIL
INIT Init
NEXT Next
INVARIANTS
    TypeOK
    ValueNamesDistinct
    QueryAgrees
