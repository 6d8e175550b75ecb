-------------------------- MODULE MC_CellRefTracker --------------------------
EXTENDS CellRefTracker, TLC

CONSTANTS c1, c2

MC_Cells == {c1, c2}

\* The two cells are interchangeable.
MC_Symmetry == Permutations(MC_Cells)
=============================================================================
