---------------------------- MODULE CellRefTracker ----------------------------
(***************************************************************************)
(* The cell reference tracker (sdk/lib/cmlib/hivecell.c, HvTrackCellRef   *)
(* and HvReleaseFreeCellRefArray).  A traversal that acquires cells with  *)
(* HvGetCell records each reference in an HV_TRACK_CELL_REF and releases  *)
(* them all at once at the end.  The first STATIC_CELL_PAIR_COUNT go in a *)
(* static array, the rest in a dynamic table grown by CELL_REF_INCREMENT  *)
(* entries, whose allocation may fail.                                     *)
(*                                                                         *)
(* HvReleaseCell is not in this repository: by the spec each successful   *)
(* acquire is released exactly once, and it is modelled as dropping one   *)
(* of the caller's references to the cell.                                 *)
(***************************************************************************)
EXTENDS Naturals, Sequences, FiniteSets

CONSTANTS
    Cells,                  \* cell indexes (model values)
    STATIC_CELL_PAIR_COUNT, \* the size of the static array
    CELL_REF_INCREMENT,     \* the growth of the dynamic table
    MaxRefs,                \* the most references a traversal holds at once
    Zero                    \* a zeroed table entry (Hive NULL, Cell 0)

VARIABLES
    staticArray,    \* CellRef->StaticArray[0 .. StaticCount - 1]
    cellArray,      \* CellRef->CellArray, all Max entries; <<>> when NULL
    count,          \* CellRef->Count
    max,            \* CellRef->Max
    tables,         \* dynamic tables allocated and not yet freed
    refs            \* refs[c]: references to cell c acquired and not released

vars == <<staticArray, cellArray, count, max, tables, refs>>

\* The references to c the tracker holds.
Tracked(c) == Cardinality({i \in 1..Len(staticArray) : staticArray[i] = c})
              + Cardinality({i \in 1..count : cellArray[i] = c})

\* The references the tracker holds; a caller holding MaxRefs stops.
Held == Len(staticArray) + count

\* A reference table tracking nothing, as callers declare it.
Init ==
    /\ staticArray = <<>>
    /\ cellArray = <<>>
    /\ count = 0
    /\ max = 0
    /\ tables = 0
    /\ refs = [c \in Cells |-> 0]

\* HvReleaseCell: one reference to c released.
HvReleaseCell(r, c) == [r EXCEPT ![c] = @ - 1]

\* The new table: Max + CELL_REF_INCREMENT zeroed entries with the old
\* ones copied in.
GrowTable ==
    [i \in 1..max + CELL_REF_INCREMENT |-> IF i <= max THEN cellArray[i] ELSE Zero]

(***************************************************************************)
(* HvTrackCellRef(CellRef, Hive, c), after the caller's HvGetCell of c,   *)
(* with allocOk the outcome of CmpAllocate should the table have to grow. *)
(* One action per branch: room in the static array; room in the dynamic  *)
(* table; the table grown (the old one freed); the growth failed and the  *)
(* reference released.                                                    *)
(***************************************************************************)

\* Mutant: the static array used while StaticCount <= 4.
TrackStatic_OffByOne(c, allocOk) ==
    /\ Len(staticArray) <= STATIC_CELL_PAIR_COUNT
    /\ staticArray' = Append(staticArray, c)
    /\ refs' = [refs EXCEPT ![c] = @ + 1]
    /\ UNCHANGED <<cellArray, count, max, tables>>

TrackStatic(c, allocOk) ==
    /\ Len(staticArray) < STATIC_CELL_PAIR_COUNT
    /\ staticArray' = Append(staticArray, c)
    /\ refs' = [refs EXCEPT ![c] = @ + 1]
    /\ UNCHANGED <<cellArray, count, max, tables>>

TrackDynamic(c, allocOk) ==
    /\ Len(staticArray) >= STATIC_CELL_PAIR_COUNT /\ count < max
    /\ cellArray' = [cellArray EXCEPT ![count + 1] = c]
    /\ count' = count + 1
    /\ refs' = [refs EXCEPT ![c] = @ + 1]
    /\ UNCHANGED <<staticArray, max, tables>>

\* Mutant: the old table not freed when a larger one replaces it.
TrackGrow_KeepsOld(c, allocOk) ==
    /\ Len(staticArray) >= STATIC_CELL_PAIR_COUNT /\ count = max /\ allocOk
    /\ cellArray' = [GrowTable EXCEPT ![count + 1] = c]
    /\ max' = max + CELL_REF_INCREMENT
    /\ count' = count + 1
    /\ tables' = tables + 1
    /\ refs' = [refs EXCEPT ![c] = @ + 1]
    /\ UNCHANGED staticArray

TrackGrow(c, allocOk) ==
    /\ Len(staticArray) >= STATIC_CELL_PAIR_COUNT /\ count = max /\ allocOk
    /\ cellArray' = [GrowTable EXCEPT ![count + 1] = c]
    /\ max' = max + CELL_REF_INCREMENT
    /\ count' = count + 1
    /\ tables' = IF max > 0 THEN tables ELSE tables + 1
    /\ refs' = [refs EXCEPT ![c] = @ + 1]
    /\ UNCHANGED staticArray

\* Mutant: the reference not released when the table cannot grow.
TrackFail_KeepsRef(c, allocOk) ==
    /\ Len(staticArray) >= STATIC_CELL_PAIR_COUNT /\ count = max /\ ~allocOk
    /\ refs' = [refs EXCEPT ![c] = @ + 1]
    /\ UNCHANGED <<staticArray, cellArray, count, max, tables>>

TrackFail(c, allocOk) ==
    /\ Len(staticArray) >= STATIC_CELL_PAIR_COUNT /\ count = max /\ ~allocOk
    /\ refs' = HvReleaseCell([refs EXCEPT ![c] = @ + 1], c)
    /\ UNCHANGED <<staticArray, cellArray, count, max, tables>>

HvTrackCellRef(c, allocOk) ==
    /\ Held < MaxRefs
    /\ \/ TrackStatic(c, allocOk)
       \/ TrackDynamic(c, allocOk)
       \/ TrackGrow(c, allocOk)
       \/ TrackFail(c, allocOk)

\* HvReleaseFreeCellRefArray: every entry of the static array, then of the
\* dynamic table, released; the static array reused, the table freed.
HvReleaseFreeCellRefArray ==
    /\ refs' = [c \in Cells |-> refs[c] - Tracked(c)]
    /\ staticArray' = <<>>
    /\ IF count > 0
       THEN /\ cellArray' = <<>>
            /\ tables' = tables - 1
            /\ count' = 0
            /\ max' = 0
       ELSE UNCHANGED <<cellArray, tables, count, max>>

Next ==
    \/ \E c \in Cells, allocOk \in BOOLEAN : HvTrackCellRef(c, allocOk)
    \/ HvReleaseFreeCellRefArray

Spec == Init /\ [][Next]_vars

-----------------------------------------------------------------------------
(* Properties.                                                              *)

TypeOK ==
    /\ staticArray \in Seq(Cells) /\ Len(staticArray) <= STATIC_CELL_PAIR_COUNT
    /\ cellArray \in Seq(Cells \cup {Zero})
    /\ count \in Nat /\ max \in Nat /\ tables \in Nat
    /\ refs \in [Cells -> Nat]

\* Every reference the caller acquired and has not released is in the
\* tracker exactly once, so the final HvReleaseFreeCellRefArray releases
\* each exactly once: a failed growth releases the reference it could not
\* record, and growing the table keeps every entry.
RefsTracked == \A c \in Cells : refs[c] = Tracked(c)

\* The table agrees with its bookkeeping (the ASSERTs of both functions:
\* Count <= Max, CellArray allocated exactly when Max > 0), and the only
\* table allocated is the one in use: replacing a table frees the old one.
TableConsistent ==
    /\ count <= max
    /\ Len(cellArray) = max
    /\ (max = 0) = (cellArray = <<>>)
    /\ tables = IF max > 0 THEN 1 ELSE 0
=============================================================================
