------------------------------ MODULE HiveImage ------------------------------
(***************************************************************************)
(* The primary file of a hive, past its base block, as HvLoadHive reads   *)
(* it: a sequence of bins, each starting on a block with an HBIN header   *)
(* (signature, Size, FileOffset) followed by cells, each starting with a  *)
(* signed size (negative for an allocated cell).  Offsets are bytes from  *)
(* the first bin, which is also the cell index of a stable cell.           *)
(*                                                                         *)
(* An image is a record:                                                   *)
(*   length  the base block's Length, in bytes;                           *)
(*   hdrOk   whether HvpVerifyHiveHeader accepts the base block;          *)
(*   bin[b]  the HBIN header at block b (sig FALSE where none is);        *)
(*   cell[o] the 4 bytes at offset o read as a cell size (0 where no      *)
(*           cell was written);                                           *)
(*   intact  whether the image is one the writer produced;                *)
(*   free    the free cells of an intact image, [cell, size].             *)
(***************************************************************************)
EXTENDS Integers, Sequences

CONSTANTS
    HBLOCK_SIZE,    \* the block size
    MaxBlocks       \* the largest image, in blocks

HBIN == 32          \* sizeof(HBIN)

\* Block headers and cell offsets, including one block past the largest
\* image, which a bin size running past the end makes the loader read.
Blocks == 0..MaxBlocks
Offsets == {16 * k : k \in 0..((MaxBlocks + 1) * HBLOCK_SIZE) \div 16 - 1}

RECURSIVE SumTo(_, _)
\* s[1] + ... + s[k]
SumTo(s, k) == IF k = 0 THEN 0 ELSE SumTo(s, k - 1) + s[k]

Magnitude(x) == IF x < 0 THEN -x ELSE x

(***************************************************************************)
(* A layout L is the bins of a file in order, each [size, cells] with     *)
(* cells the signed sizes of its cells in order.                          *)
(***************************************************************************)
BinStart(L, k) == SumTo([i \in 1..Len(L) |-> L[i].size], k - 1)

CellStart(L, k, j) ==
    BinStart(L, k) + HBIN + SumTo([i \in 1..Len(L[k].cells) |-> Magnitude(L[k].cells[i])], j - 1)

\* The file the hive writer produces for layout L (the writer is not in
\* this repository): the bins back to back, each header giving the bin's
\* size and its own offset.
Written(L) ==
    LET cs == {kj \in (1..Len(L)) \X UNION {DOMAIN L[i].cells : i \in 1..Len(L)} :
                  kj[2] \in DOMAIN L[kj[1]].cells}
        starts == {BinStart(L, k) : k \in 1..Len(L)}
    IN [length |-> SumTo([i \in 1..Len(L) |-> L[i].size], Len(L)),
        hdrOk |-> TRUE,
        bin |-> [b \in Blocks |->
                    IF b * HBLOCK_SIZE \in starts
                    THEN LET k == CHOOSE k \in 1..Len(L) : BinStart(L, k) = b * HBLOCK_SIZE
                         IN [sig |-> TRUE, size |-> L[k].size, file |-> b * HBLOCK_SIZE]
                    ELSE [sig |-> FALSE, size |-> 0, file |-> 0]],
        cell |-> [o \in Offsets |->
                    IF \E kj \in cs : CellStart(L, kj[1], kj[2]) = o
                    THEN LET kj == CHOOSE kj \in cs : CellStart(L, kj[1], kj[2]) = o
                         IN L[kj[1]].cells[kj[2]]
                    ELSE 0],
        intact |-> TRUE,
        free |-> {[cell |-> CellStart(L, kj[1], kj[2]), size |-> L[kj[1]].cells[kj[2]]] :
                      kj \in {x \in cs : L[x[1]].cells[x[2]] > 0}}]
=============================================================================
