---------------------------- MODULE MC_CmIndex ----------------------------
(* Instantiation of CmIndex for TLC: six subkey names, one storage class  *)
(* or two, and a block size that makes leaves and roots fill up after a   *)
(* handful of entries.                                                     *)
EXTENDS CmIndex

CONSTANTS c1, c2, c3, c4, c5, c6, c7, c8, c9, c10

MC_Names == 1..6
MC_CellIds == {c1, c2, c3, c4, c5, c6, c7, c8, c9, c10}
\* All subkeys stable.
MC_StableOnly == [n \in MC_Names |-> 0]
\* Name 6 is a volatile subkey.
MC_Mixed == [n \in MC_Names |-> IF n = 6 THEN 1 ELSE 0]

(***************************************************************************)
(* The view TLC fingerprints states by.  Cell indexes are interchangeable: *)
(* the allocator hands out any free one, and nothing but equality is ever *)
(* asked of them, so two states whose indexes have the same shape (each   *)
(* list replaced by the contents of the cells it names) behave alike.     *)
(* A reference to a cell that is not allocated is kept as "dangling", and *)
(* cells no list reaches are kept by their number, which is all a later   *)
(* step can tell of them (NoCellLeak fails on the first such state).      *)
(* Each reachable cell carries its dirty bit; a dirty cell that is not   *)
(* allocated is forgotten, since allocating it again marks it anyway.    *)
(***************************************************************************)
LeafShape(c) == IF c \in DOMAIN cells THEN <<cells[c], c \in dirty>> ELSE "dangling"

ListShape(c) ==
    IF c = NIL THEN "nil"
    ELSE IF c \notin DOMAIN cells THEN "dangling"
    ELSE IF cells[c].sig = "ri"
         THEN <<[cells[c] EXCEPT !.list = [i \in DOMAIN @ |-> LeafShape(@[i])]], c \in dirty>>
         ELSE LeafShape(c)

IndexView ==
    <<[t \in Types |-> ListShape(subKeyLists[t])], subKeyCounts, fault, Version,
      Cardinality(DOMAIN cells \ UNION {IndexCells(t) : t \in Types})>>
=============================================================================
