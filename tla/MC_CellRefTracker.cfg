CONSTANTS
    c1 = c1
    c2 = c2
    Cells <- MC_Cells
    Zero = Zero
    STATIC_CELL_PAIR_COUNT = 4
    CELL_REF_INCREMENT = 10
    MaxRefs = 15
SYMMETRY MC_Symmetry
INIT Init
NEXT Next
INVARIANTS
    TypeOK
    RefsTracked
    TableConsistent
