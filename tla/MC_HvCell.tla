------------------------------ MODULE MC_HvCell ------------------------------
EXTENDS HvCell

\* The stable storage only.
MC_Types == {Stable}
\* Requests rounding to 16, 48 and 144 bytes: a cell that fills a small
\* bin, one that splits a two-block bin, and one that needs a three-block
\* bin and whose frees produce cells of the upper free lists.
MC_Sizes == {12, 44, 140}
\* Both storage classes: the volatile one has its own bins and free lists
\* and is never marked dirty.
MC_BothTypes == {Stable, Volatile}
\* Requests rounding to 16 bytes, with one block per storage: the bin holds
\* (HBLOCK_SIZE - HBIN) / 16 cells, none crossing or starting at a block
\* boundary.
MC_OneBlockSizes == {12}
====
