CONSTANTS
    Chars <- MC_Chars
    Upcase <- MC_Upcase
    Versions <- MC_Versions
    MaxLen = 2
    None = None
INIT Init
NEXT Next
INVARIANTS
    TypeOK
    NodeSizeAgrees
    NameRoundTrip
    CompareAgrees
    HashAgrees
