------------------------------ MODULE CmIndex ------------------------------
(***************************************************************************)
(* The subkey index of one key node (sdk/lib/cmlib/cmindex.c,              *)
(* cmfindsubkey.c, compareindex.c).                                        *)
(*                                                                         *)
(* For each storage class t the parent key node keeps SubKeyCounts[t] and *)
(* SubKeyLists[t]; the list cell is either a leaf ("li" index leaf, "lf"  *)
(* fast leaf, "lh" hash leaf) or a root ("ri") whose entries are leaves.  *)
(* A cell is [sig, list, size]: its signature, its entries (subkey names  *)
(* for a leaf, leaf cells for a root) and its payload size in bytes, which *)
(* decides when the code grows it with HvReallocateCell.                   *)
(*                                                                         *)
(* Names are abstracted to integers that are already upcased:             *)
(* CmpDoCompareKeyName is the order of the integers, and a fast-leaf name *)
(* hint never decides a comparison differently from the full comparison   *)
(* (NameCodec checks that).  The cell allocator is abstracted to a pool   *)
(* of cell indexes with the allocator's size rounding; an allocation may  *)
(* be made to fail to model an exhausted pool.  Each operation is one     *)
(* atomic step: the hive is used under the caller's exclusive lock.       *)
(***************************************************************************)
EXTENDS Integers, Sequences, FiniteSets, SequencesExt, TLC

CONSTANTS
    Names,            \* subkey names (integers, compared case-insensitively)
    StorageOf,        \* [Names -> 0..1]: storage class of each subkey's cell
    StorageTypeCount, \* Hive->StorageTypeCount
    Versions,         \* the values Hive->Version, the minor version of the hive format, may have
    HBLOCK_SIZE,      \* block size the per-block capacities are computed from
    CellIds,          \* cell indexes the index cells are allocated from
    NIL,              \* HCELL_NIL
    MaxFailAt,        \* an AddSubKey may fail its k-th allocation, k \in 1..MaxFailAt
    SlackAllocs,      \* allocations of an operation that may get 16 bytes of slack
    MaxSplits,        \* bound on the iterations of the CmpSelectLeaf loop
    CheckedBuild      \* TRUE: a failed ASSERT stops the system (DBG build)

ASSUME /\ Names \subseteq Nat
       /\ StorageTypeCount \in {1, 2}
       /\ StorageOf \in [Names -> 0..(StorageTypeCount - 1)]
       /\ NIL \notin CellIds
       /\ MaxFailAt \in Nat /\ MaxSplits \in Nat
       /\ SlackAllocs \subseteq Nat /\ CheckedBuild \in BOOLEAN

VARIABLES
    cells,         \* allocated index cells: cell index -> [sig, list, size]
    subKeyCounts,  \* KeyNode->SubKeyCounts
    subKeyLists,   \* KeyNode->SubKeyLists
    fault,         \* "none", or what stopped the system: a failed ASSERT
                   \* ("assert"), a dereference of HCELL_NIL ("crash"), or
                   \* the CmpSelectLeaf loop running past MaxSplits ("loop")
    Version,       \* Hive->Version, set when the hive is created or loaded
    dirty          \* the cells HvMarkCellDirty has marked in Hive->DirtyVector
                   \* since the hive was last written out

vars == <<cells, subKeyCounts, subKeyLists, fault, Version, dirty>>
Faults == {"none", "assert", "crash", "loop"}

Stable == 0
Volatile == 1
Types == 0..(StorageTypeCount - 1)

-----------------------------------------------------------------------------
(* Layout constants of the cell and index structures (bytes).              *)
HCELL == 4          \* sizeof(HCELL), the cell size header
HBIN == 32          \* sizeof(HBIN)
ListOffset == 4     \* FIELD_OFFSET(CM_KEY_INDEX, List)
EntrySize(sig) == IF sig \in {"li", "ri"} THEN 4 ELSE 8   \* HCELL_INDEX or CM_INDEX
LeafSigs == {"li", "lf", "lh"}

CmpMaxFastIndexPerHblock ==
    (HBLOCK_SIZE - (HBIN + HCELL + ListOffset)) \div 8
CmpMaxIndexPerHblock ==
    (HBLOCK_SIZE - (HBIN + HCELL + ListOffset)) \div 4 - 1

\* A ULONG difference.  A negative one wraps to at least 2^31 here, which
\* TLC's 32-bit integers cannot hold: 2^31 - 1 stands for every such value
\* (the code only compares it with entry sizes and with 0).
ULONG(x) == IF x >= 0 THEN x ELSE 2147483647
\* HvGetCellSize of the cell HvAllocateCell(Size) returns.
CellPayload(size) == ((size + HCELL + 15) \div 16) * 16 - HCELL

\* CmpDoCompareKeyName: -1, 0 or 1.
Cmp(a, b) == IF a = b THEN 0 ELSE IF a < b THEN -1 ELSE 1

Count(node) == Len(node.list)
Entry(node, i) == node.list[i + 1]           \* 0-based, like List[i]
FirstName(leaf) == Entry(leaf, 0)
LastName(leaf) == Entry(leaf, Count(leaf) - 1)

-----------------------------------------------------------------------------
(* The hive as seen by one operation on storage class t: all index cells, *)
(* the parent's count and list head for t, the number of allocations made *)
(* so far, which of them fails (failAt) or gets slack (slackAt), the     *)
(* fault the operation has run into, and the dirty marks.                  *)
HiveOf(t, failAt, slackAt) ==
    [cells |-> cells, cnt |-> subKeyCounts[t], lst |-> subKeyLists[t],
     nalloc |-> 0, failAt |-> failAt, slackAt |-> slackAt, fault |-> "none",
     type |-> t, dirty |-> dirty]

\* HvMarkCellDirty: a volatile cell is never written out, so only a cell of
\* the stable storage is marked.  The operation's cells are all of its
\* storage class h.type (HvGetCellType of the index).
HvMarkCellDirty(h, c) ==
    IF h.type = Stable THEN [h EXCEPT !.dirty = @ \cup {c}] ELSE h

\* ASSERT(cond): stops a checked build, does nothing in a free build.
ASSERT(h, cond) ==
    IF cond \/ ~CheckedBuild THEN h ELSE [h EXCEPT !.fault = "assert"]
\* HvGetCell(HCELL_NIL) maps a block that does not exist.
Crash(h) == [h EXCEPT !.fault = "crash"]
Ok(h) == h.fault = "none"

\* HvAllocateCell: the cell is ROUND_UP(Size + 4, 16) bytes, or 16 bytes
\* more when the free cell it takes is too small to split (Size + 16).
\* It fails (HCELL_NIL) when HvpAddBin cannot get memory; the cell it
\* returns is marked dirty.
HvAllocateCell(h, size, node) ==
    LET k == h.nalloc + 1
        free == CellIds \ DOMAIN h.cells
        payload == CellPayload(size) + (IF k \in h.slackAt THEN 16 ELSE 0)
    IN IF k = h.failAt \/ free = {}
       THEN [h |-> [h EXCEPT !.nalloc = k], cell |-> NIL]
       ELSE LET c == CHOOSE x \in free : TRUE
                h1 == [h EXCEPT !.nalloc = k,
                                !.cells = h.cells @@ (c :> [node EXCEPT !.size = payload])]
            IN [h |-> HvMarkCellDirty(h1, c), cell |-> c]

\* HvFreeCell returns the cell to the free lists and marks it dirty.
HvFreeCell(h, c) ==
    [HvMarkCellDirty(h, c) EXCEPT !.cells = [d \in DOMAIN h.cells \ {c} |-> h.cells[d]]]

\* Mutant: the old cell is not freed.
ReallocMove_KeepsOld(a, c) == a

\* The second half of HvReallocateCell: after a successful allocation of
\* the copy (a), the old cell c is freed.
ReallocMove(a, c) ==
    IF a.cell = NIL THEN a ELSE [h |-> HvFreeCell(a.h, c), cell |-> a.cell]

\* Grows only: a cell already big enough is returned unchanged; otherwise
\* a new cell gets a copy of the old one, which is freed.
HvReallocateCell(h, c, size) ==
    IF size > h.cells[c].size THEN ReallocMove(HvAllocateCell(h, size, h.cells[c]), c)
    ELSE [h |-> h, cell |-> c]

-----------------------------------------------------------------------------
(* Searches.                                                                *)

\* CmpFindSubKeyInLeaf: binary search; returns the index of the match or of
\* the entry next to which the name belongs, and the matching subkey or NIL.
RECURSIVE LeafSearch(_, _, _, _, _)
LeafSearch(leaf, name, low, high, i) ==
    LET r == Cmp(name, Entry(leaf, i))
        lo == IF r < 0 THEN low ELSE i
        hi == IF r < 0 THEN i ELSE high
    IN IF r = 0 THEN [idx |-> i, sub |-> Entry(leaf, i)]
       ELSE IF hi - lo > 1 THEN LeafSearch(leaf, name, lo, hi, (hi - lo) \div 2 + lo)
       ELSE IF Cmp(name, Entry(leaf, lo)) = 0 THEN [idx |-> lo, sub |-> Entry(leaf, lo)]
       ELSE IF Cmp(name, Entry(leaf, lo)) < 0 THEN [idx |-> lo, sub |-> NIL]
       ELSE [idx |-> hi,
             sub |-> IF Cmp(name, Entry(leaf, hi)) = 0 THEN Entry(leaf, hi) ELSE NIL]

CmpFindSubKeyInLeaf(leaf, name) ==
    IF Count(leaf) = 0 THEN [idx |-> 0, sub |-> NIL]
    ELSE LeafSearch(leaf, name, 0, Count(leaf) - 1, (Count(leaf) - 1) \div 2)

\* CmpFindSubKeyInRoot: binary search over the leaves with the two probes
\* (last entry, then first entry) per leaf; returns the leaf index and the
\* leaf cell, or NIL when the name falls between leaves.
RootHit(root, i) == [idx |-> i, leaf |-> Entry(root, i)]
RootMiss(i) == [idx |-> i, leaf |-> NIL]

\* Mutant: the high leaf is never probed.
RootFinal_NoHighProbe(cs, root, name, low, high) ==
    LET lo == cs[Entry(root, low)]
    IN IF Cmp(name, LastName(lo)) = 0 THEN RootHit(root, low)
       ELSE IF Cmp(name, LastName(lo)) < 0 /\ Cmp(name, FirstName(lo)) >= 0
       THEN RootHit(root, low)
       ELSE RootMiss(low)

RootFinal(cs, root, name, low, high) ==
    LET lo == cs[Entry(root, low)]
        hi == cs[Entry(root, high)]
    IN IF Cmp(name, LastName(lo)) = 0 THEN RootHit(root, low)
       ELSE IF Cmp(name, LastName(lo)) < 0
            THEN IF Cmp(name, FirstName(lo)) >= 0 THEN RootHit(root, low)
                 ELSE RootMiss(low)
       ELSE IF Cmp(name, LastName(hi)) <= 0 THEN RootHit(root, high)
       ELSE RootMiss(high)

RECURSIVE RootSearch(_, _, _, _, _)
RootSearch(cs, root, name, low, high) ==
    LET i == (high - low) \div 2 + low
        leaf == cs[Entry(root, i)]
        r == Cmp(name, LastName(leaf))
        lo == IF r < 0 THEN low ELSE i
        hi == IF r < 0 THEN i ELSE high
    IN IF r = 0 \/ (r < 0 /\ Cmp(name, FirstName(leaf)) >= 0) THEN RootHit(root, i)
       ELSE IF hi - lo <= 1 THEN RootFinal(cs, root, name, lo, hi)
       ELSE RootSearch(cs, root, name, lo, hi)

CmpFindSubKeyInRoot(cs, root, name) == RootSearch(cs, root, name, 0, Count(root) - 1)

\* CmpFindSubKeyByHash: linear scan; equal hashes are confirmed by a full
\* name comparison, so a hash collision never yields a wrong subkey.
CmpFindSubKeyByHash(leaf, name) ==
    IF \E i \in 1..Count(leaf) : leaf.list[i] = name THEN name ELSE NIL

FindInStorage(t, name) ==
    IF subKeyCounts[t] = 0 THEN NIL
    ELSE LET top == cells[subKeyLists[t]]
             r == IF top.sig = "ri" THEN CmpFindSubKeyInRoot(cells, top, name)
                  ELSE [idx |-> 0, leaf |-> subKeyLists[t]]
         IN IF r.leaf = NIL THEN NIL
            ELSE IF cells[r.leaf].sig = "lh" THEN CmpFindSubKeyByHash(cells[r.leaf], name)
            ELSE CmpFindSubKeyInLeaf(cells[r.leaf], name).sub

CmpFindSubKeyByName(name) ==
    IF FindInStorage(Stable, name) # NIL THEN FindInStorage(Stable, name)
    ELSE IF StorageTypeCount > Volatile THEN FindInStorage(Volatile, name)
    ELSE NIL

\* Mutant: the skipped leaf's count is not subtracted from Number.
RECURSIVE ByNumberInRoot_NoSubtract(_, _, _)
ByNumberInRoot_NoSubtract(root, i, number) ==
    IF i = Count(root)
    THEN IF number < Count(root) THEN Entry(root, number) ELSE NIL
    ELSE IF number < Count(cells[Entry(root, i)]) THEN Entry(cells[Entry(root, i)], number)
    ELSE ByNumberInRoot_NoSubtract(root, i + 1, number)

RECURSIVE ByNumberInRoot(_, _, _)
ByNumberInRoot(root, i, number) ==
    IF i = Count(root)
    THEN IF number < Count(root) THEN Entry(root, number) ELSE NIL
    ELSE IF number < Count(cells[Entry(root, i)]) THEN Entry(cells[Entry(root, i)], number)
    ELSE ByNumberInRoot(root, i + 1, number - Count(cells[Entry(root, i)]))

CmpDoFindSubKeyByNumber(index, number) ==
    IF index.sig = "ri" THEN ByNumberInRoot(index, 0, number)
    ELSE Entry(index, number)

CmpFindSubKeyByNumber(number) ==
    IF number < subKeyCounts[Stable]
    THEN CmpDoFindSubKeyByNumber(cells[subKeyLists[Stable]], number)
    ELSE IF StorageTypeCount > Volatile
            /\ number - subKeyCounts[Stable] < subKeyCounts[Volatile]
    THEN CmpDoFindSubKeyByNumber(cells[subKeyLists[Volatile]], number - subKeyCounts[Stable])
    ELSE NIL

-----------------------------------------------------------------------------
(* Updates.  An operation is a chain of operators, each taking the result  *)
(* of the previous call ([h |-> hive, cell |-> cell or NIL, ...]) in the   *)
(* order the C code makes its calls and takes its early returns.           *)

\* The entries that still fit in a leaf cell, computed unsigned.
LeafFreeEntries(leaf) ==
    ULONG(leaf.size - (EntrySize(leaf.sig) * Count(leaf) + ListOffset)) \div EntrySize(leaf.sig)

\* A full leaf grows to 1.5 times its size, and by at least one entry.
LeafGrownSize(leaf) ==
    IF leaf.size + leaf.size \div 2 < leaf.size + EntrySize(leaf.sig)
    THEN leaf.size + EntrySize(leaf.sig) ELSE leaf.size + leaf.size \div 2

\* Mutants: the leaf cell is stored instead of the new key; the name is
\* inserted before the entry it sorts after.
InsertInLeaf_StoresLeafCell(r, name) ==
    IF r.cell = NIL THEN r
    ELSE LET leaf == r.h.cells[r.cell]
             i0 == CmpFindSubKeyInLeaf(leaf, name).idx
             i == IF i0 # Count(leaf) /\ Cmp(name, Entry(leaf, i0)) > 0 THEN i0 + 1 ELSE i0
         IN [h |-> [r.h EXCEPT !.cells[r.cell].list = InsertAt(@, i + 1, r.cell)], cell |-> r.cell]
InsertInLeaf_NoStepPast(r, name) ==
    IF r.cell = NIL THEN r
    ELSE LET i == CmpFindSubKeyInLeaf(r.h.cells[r.cell], name).idx
         IN [h |-> [r.h EXCEPT !.cells[r.cell].list = InsertAt(@, i + 1, name)], cell |-> r.cell]

\* The second half of CmpAddToLeaf, on the leaf r.cell with room: find the
\* insertion point with the leaf search, step past an entry the name sorts
\* after, and insert.
InsertInLeaf(r, name) ==
    IF r.cell = NIL THEN r
    ELSE LET leaf == r.h.cells[r.cell]
             i0 == CmpFindSubKeyInLeaf(leaf, name).idx
             i == IF i0 # Count(leaf) /\ Cmp(name, Entry(leaf, i0)) > 0 THEN i0 + 1 ELSE i0
         IN [h |-> [r.h EXCEPT !.cells[r.cell].list = InsertAt(@, i + 1, name)], cell |-> r.cell]

\* CmpAddToLeaf: mark the leaf dirty, grow it with HvReallocateCell when
\* full (failing when that fails), then insert.
CmpAddToLeaf(h, leafCell, name) ==
    LET hm == HvMarkCellDirty(h, leafCell)
    IN InsertInLeaf(IF LeafFreeEntries(hm.cells[leafCell]) < 1
                    THEN HvReallocateCell(hm, leafCell, LeafGrownSize(hm.cells[leafCell]))
                    ELSE [h |-> hm, cell |-> leafCell],
                    name)

\* Mutants: the signatures swapped; the root's List offset forgotten; the
\* upper half copied from one entry too far.
SplitSig_Swapped == IF Version >= 5 THEN "li" ELSE "lh"
RootFull_NoListOffset(root) == (root.size - Count(root) * 4) \div 4 < 1
SplitHalves_OffByOne(list) ==
    [first |-> SubSeq(list, 1, Len(list) \div 2),
     last |-> SubSeq(list, Len(list) \div 2 + 2, Len(list))]

\* The leaf type CmpSplitLeaf expects and creates, by hive version.
SplitSig == IF Version >= 5 THEN "lh" ELSE "li"
\* No free HCELL_INDEX slot is left in the root cell.
RootFull(root) == (root.size - Count(root) * 4 - ListOffset) \div 4 < 1
\* FirstHalf = Count / 2 entries stay, LastHalf move to the new leaf.
SplitHalves(list) ==
    [first |-> SubSeq(list, 1, Len(list) \div 2),
     last |-> SubSeq(list, Len(list) \div 2 + 1, Len(list))]

\* The end of CmpSplitLeaf, with the root r.cell (possibly moved) and the
\* new leaf allocated: move the upper half and link the new leaf after the
\* split one.  When the root could not grow, the new leaf is freed.
SplitLink(r, newCell, sel, leafCell, halves) ==
    LET h2 == ASSERT(r.h, halves.first # <<>> /\ halves.last # <<>>)
    IN IF r.cell = NIL THEN [h |-> HvFreeCell(r.h, newCell), cell |-> NIL]
       ELSE IF ~Ok(h2) THEN [h |-> h2, cell |-> NIL]
       ELSE [h |-> [h2 EXCEPT !.cells[newCell].list = halves.last,
                              !.cells[leafCell].list = halves.first,
                              !.cells[r.cell].list = InsertAt(@, sel + 2, newCell)],
             cell |-> r.cell]

\* The middle of CmpSplitLeaf: with the new leaf allocated (a), grow the
\* root by one entry when it is full.
SplitGrowRoot(a, rootCell, sel, leafCell, halves) ==
    IF a.cell = NIL THEN [h |-> a.h, cell |-> NIL]
    ELSE SplitLink(IF RootFull(a.h.cells[rootCell])
                   THEN HvReallocateCell(a.h, rootCell, a.h.cells[rootCell].size + 4)
                   ELSE [h |-> a.h, cell |-> rootCell],
                   a.cell, sel, leafCell, halves)

\* CmpSplitLeaf: split leaf RootSelect of the root in two halves; the new
\* leaf's entry size and signature are chosen by the hive version.  The
\* split leaf is marked dirty.
CmpSplitLeaf(h, rootCell, sel) ==
    LET leafCell == Entry(h.cells[rootCell], sel)
        halves == SplitHalves(h.cells[leafCell].list)
        h1 == HvMarkCellDirty(ASSERT(h, h.cells[leafCell].sig = SplitSig), leafCell)
    IN IF ~Ok(h1) THEN [h |-> h1, cell |-> NIL]
       ELSE SplitGrowRoot(HvAllocateCell(h1, EntrySize(SplitSig) * Len(halves.last) + ListOffset + 1,
                                         [sig |-> SplitSig, list |-> <<>>, size |-> 0]),
                          rootCell, sel, leafCell, halves)

\* CmpSelectLeaf: find the leaf of the root the name belongs to (or the
\* leaves next to the gap it falls in), take the first of them with room,
\* or split the leaf the root search returned and search again.  The
\* result is the leaf cell and its slot in the root (RootPointer).
RECURSIVE SelectLoop(_, _, _), SelectIn(_, _, _, _), SelectAfterSplit(_, _, _)
SelectLoop(h, name, splits) ==
    SelectIn(h, name, splits, CmpFindSubKeyInRoot(h.cells, h.cells[h.lst], name))

\* One iteration, given the root search result f.
SelectIn(h, name, splits, f) ==
    LET root == h.cells[h.lst]
        above == Cmp(name, FirstName(h.cells[Entry(root, f.idx)])) >= 0
        tried == IF f.leaf # NIL THEN <<f.idx>>
                 ELSE IF above
                      THEN IF f.idx + 1 < Count(root) THEN <<f.idx, f.idx + 1>> ELSE <<f.idx>>
                 ELSE IF f.idx > 0 THEN <<f.idx - 1>> ELSE <<0>>
        Fits(j) == Count(h.cells[Entry(root, j)]) < CmpMaxIndexPerHblock
        fitting == SelectSeq(tried, Fits)
    IN IF fitting # <<>>
       THEN [h |-> h, cell |-> Entry(root, Head(fitting)), slot |-> Head(fitting)]
       ELSE IF splits = MaxSplits THEN [h |-> [h EXCEPT !.fault = "loop"], cell |-> NIL]
       ELSE SelectAfterSplit(CmpSplitLeaf(h, h.lst, f.idx), name, splits)

\* After a split: the new root becomes SubKeyLists, and the loop goes on.
SelectAfterSplit(s, name, splits) ==
    IF s.cell = NIL THEN [h |-> s.h, cell |-> NIL]
    ELSE SelectLoop([s.h EXCEPT !.lst = s.cell], name, splits + 1)

\* The root is marked dirty once, before the loop.
CmpSelectLeaf(h, name) == SelectLoop(HvMarkCellDirty(h, h.lst), name, 0)

\* "Not handled: ASSERT(FALSE)" followed by a use of the HCELL_NIL result.
Unhandled(h) == IF CheckedBuild THEN [h EXCEPT !.fault = "assert"] ELSE Crash(h)

FirstLeafSig == IF Version >= 5 THEN "lh" ELSE IF Version >= 3 THEN "lf" ELSE "li"
SizeofFastIndex == 12    \* sizeof(CM_KEY_FAST_INDEX): header and one CM_INDEX
SizeofIndex == 8         \* sizeof(CM_KEY_INDEX): header and one HCELL_INDEX

\* Mutant: the first leaf is created when SubKeyLists is HCELL_NIL rather
\* than when SubKeyCounts is 0; the stale volatile list left by a restart
\* is then used, and HvGetCell on a cell of the lost volatile storage
\* maps no memory.
PrepareIndex_ByList(h) ==
    LET index == h.cells[h.lst]
        NewIndex(size, node) ==
            LET a == HvAllocateCell(h, size, node)
            IN IF a.cell = NIL THEN Unhandled(a.h) ELSE [a.h EXCEPT !.lst = a.cell]
    IN IF h.lst = NIL
       THEN NewIndex(SizeofFastIndex, [sig |-> FirstLeafSig, list |-> <<>>, size |-> 0])
       ELSE IF h.lst \notin DOMAIN h.cells THEN Crash(h)
       ELSE IF index.sig = "lf" /\ Count(index) >= CmpMaxFastIndexPerHblock
       THEN [HvMarkCellDirty(h, h.lst) EXCEPT !.cells[h.lst].sig = "li"]
       ELSE IF index.sig \in {"li", "lh"} /\ Count(index) >= CmpMaxIndexPerHblock
       THEN NewIndex(SizeofIndex + 4, [sig |-> "ri", list |-> <<h.lst>>, size |-> 0])
       ELSE h

\* The first half of CmpAddSubKey: create the first leaf, convert a full
\* fast leaf into an index leaf in place (marked dirty first), or put a full
\* index or hash leaf under a new root.
PrepareIndex(h) ==
    LET index == h.cells[h.lst]
        NewIndex(size, node) ==
            LET a == HvAllocateCell(h, size, node)
            IN IF a.cell = NIL THEN Unhandled(a.h) ELSE [a.h EXCEPT !.lst = a.cell]
    IN IF h.cnt = 0
       THEN NewIndex(SizeofFastIndex, [sig |-> FirstLeafSig, list |-> <<>>, size |-> 0])
       ELSE IF index.sig = "lf" /\ Count(index) >= CmpMaxFastIndexPerHblock
       THEN [HvMarkCellDirty(h, h.lst) EXCEPT !.cells[h.lst].sig = "li"]
       ELSE IF index.sig \in {"li", "lh"} /\ Count(index) >= CmpMaxIndexPerHblock
       THEN NewIndex(SizeofIndex + 4, [sig |-> "ri", list |-> <<h.lst>>, size |-> 0])
       ELSE h

\* The end of CmpAddSubKey: count the subkey and store the (possibly
\* moved) leaf in the root slot or in SubKeyLists.  A failed CmpAddToLeaf
\* is not handled: a free build goes on and stores HCELL_NIL.
AddCommit(ad, slot, isRoot) ==
    LET h3 == [ASSERT(ad.h, ad.cell # NIL) EXCEPT !.cnt = @ + 1]
    IN IF ~Ok(h3) THEN h3
       ELSE IF isRoot THEN [h3 EXCEPT !.cells[h3.lst].list[slot + 1] = ad.cell]
       ELSE [h3 EXCEPT !.lst = ad.cell]

\* With the leaf selected (sl): add the name to it.
AddToSelected(sl, name) ==
    IF sl.cell = NIL THEN (IF Ok(sl.h) THEN Unhandled(sl.h) ELSE sl.h)
    ELSE AddCommit(CmpAddToLeaf(sl.h, sl.cell, name), sl.slot,
                   sl.h.cells[sl.h.lst].sig = "ri")

\* With the index prepared (h1): select the leaf when the index is a root.
AddPrepared(h1, name) ==
    IF ~Ok(h1) THEN h1
    ELSE AddToSelected(IF h1.cells[h1.lst].sig = "ri" THEN CmpSelectLeaf(h1, name)
                       ELSE [h |-> h1, cell |-> h1.lst, slot |-> 0],
                       name)

\* CmpAddSubKey: prepare the index, select the leaf, add the name to it,
\* count it, and store the leaf.
CmpAddSubKey(h0, name) == AddPrepared(PrepareIndex(h0), name)

\* Mutant: SubKeyLists is not cleared when the only leaf goes away.
DropLeaf_NoReset(h, top, rootIdx) ==
    IF top.sig # "ri" THEN h
    ELSE IF Count(top) = 1 THEN [HvFreeCell(h, h.lst) EXCEPT !.lst = NIL]
    ELSE [h EXCEPT !.cells[h.lst].list = RemoveAt(@, rootIdx + 1)]

\* The leaf has been emptied and freed: drop it from the root (freeing an
\* emptied root), or clear SubKeyLists when it was the index itself.
DropLeaf(h, top, rootIdx) ==
    IF top.sig # "ri" THEN [h EXCEPT !.lst = NIL]
    ELSE IF Count(top) = 1 THEN [HvFreeCell(h, h.lst) EXCEPT !.lst = NIL]
    ELSE [h EXCEPT !.cells[h.lst].list = RemoveAt(@, rootIdx + 1)]

\* CmpRemoveSubKey: find the leaf (through the root), find the entry,
\* uncount it and remove it; an emptied leaf is freed and dropped.
CmpRemoveSubKey(h, name) ==
    LET h0 == ASSERT(h, h.cnt # 0)
        top == h.cells[h.lst]
        rf == IF top.sig = "ri" THEN CmpFindSubKeyInRoot(h.cells, top, name)
              ELSE [idx |-> 0, leaf |-> h.lst]
        leaf == h.cells[rf.leaf]
        lf == CmpFindSubKeyInLeaf(leaf, name)
        h1 == ASSERT(h0, lf.sub # NIL)
        h2 == [h1 EXCEPT !.cnt = ULONG(@ - 1),
                         !.cells[rf.leaf].list = RemoveAt(@, lf.idx + 1)]
    IN IF ~Ok(h0) THEN h0
       ELSE IF h.lst = NIL \/ rf.leaf = NIL THEN Crash(h0)
       ELSE IF ~Ok(h1) THEN h1
       ELSE IF Count(leaf) > 1 THEN h2
       ELSE DropLeaf(HvFreeCell(h2, rf.leaf), top, rf.idx)

\* The mark HvMarkCellDirty makes on index cell c of storage class i.
StableMark(i, c) == IF i = Stable THEN {c} ELSE {}

\* Mutant: the root the name was found under is not marked.
RECURSIVE MarkLoop_NoRootMark(_, _, _)
MarkLoop_NoRootMark(name, i, marks) ==
    IF i = StorageTypeCount THEN [found |-> FALSE, marks |-> marks]
    ELSE IF subKeyCounts[i] = 0 THEN MarkLoop_NoRootMark(name, i + 1, marks)
    ELSE LET top == cells[subKeyLists[i]]
             rf == IF top.sig = "ri" THEN CmpFindSubKeyInRoot(cells, top, name)
                   ELSE [idx |-> 0, leaf |-> subKeyLists[i]]
         IN IF rf.leaf = NIL THEN MarkLoop_NoRootMark(name, i + 1, marks)
            ELSE IF CmpFindSubKeyInLeaf(cells[rf.leaf], name).sub # NIL
            THEN [found |-> TRUE, marks |-> marks \cup StableMark(i, rf.leaf)]
            ELSE MarkLoop_NoRootMark(name, i + 1, marks)

\* The loop of CmpMarkIndexDirty over the storage classes i..: a root the
\* name falls under is marked (even when the leaf then misses it), and the
\* leaf that holds the name is marked and ends the search.
RECURSIVE MarkLoop(_, _, _)
MarkLoop(name, i, marks) ==
    IF i = StorageTypeCount THEN [found |-> FALSE, marks |-> marks]
    ELSE IF subKeyCounts[i] = 0 THEN MarkLoop(name, i + 1, marks)
    ELSE LET top == cells[subKeyLists[i]]
             rf == IF top.sig = "ri" THEN CmpFindSubKeyInRoot(cells, top, name)
                   ELSE [idx |-> 0, leaf |-> subKeyLists[i]]
             m1 == IF top.sig = "ri" THEN marks \cup StableMark(i, subKeyLists[i]) ELSE marks
         IN IF rf.leaf = NIL THEN MarkLoop(name, i + 1, marks)
            ELSE IF CmpFindSubKeyInLeaf(cells[rf.leaf], name).sub # NIL
            THEN [found |-> TRUE, marks |-> m1 \cup StableMark(i, rf.leaf)]
            ELSE MarkLoop(name, i + 1, m1)

\* CmpMarkIndexDirty: marks the index cells a removal of the name will
\* write; FALSE when the name is in no index.  (The failure of the
\* CmpAllocate of a compressed name also returns FALSE, before any mark:
\* the caller then gives up, which is a stuttering step.)
CmpMarkIndexDirty(name) == MarkLoop(name, 0, dirty)

-----------------------------------------------------------------------------
(* The specification.  The parent key node starts with no subkeys.         *)

Init ==
    /\ cells = [c \in {} |-> [sig |-> "li", list |-> <<>>, size |-> 0]]
    /\ subKeyCounts = [t \in Types |-> 0]
    /\ subKeyLists = [t \in Types |-> NIL]
    /\ fault = "none"
    /\ Version \in Versions
    /\ dirty = {}

Commit(t, h) ==
    /\ cells' = h.cells
    /\ subKeyCounts' = [subKeyCounts EXCEPT ![t] = h.cnt]
    /\ subKeyLists' = [subKeyLists EXCEPT ![t] = h.lst]
    /\ fault' = h.fault
    /\ dirty' = h.dirty
    /\ UNCHANGED Version

\* The subkeys in storage class t, leaf by leaf, as the index stores them.
\* SubKeyCounts[t] = 0 means there is no index, whatever SubKeyLists[t]
\* holds (after a restart it still names a volatile cell that is gone).
LeafCells(t) ==
    IF subKeyCounts[t] = 0 \/ subKeyLists[t] \notin DOMAIN cells THEN <<>>
    ELSE IF cells[subKeyLists[t]].sig = "ri" THEN cells[subKeyLists[t]].list
    ELSE <<subKeyLists[t]>>
Keys(t) == FlattenSeq([i \in DOMAIN LeafCells(t) |-> cells[LeafCells(t)[i]].list])
Contents ==
    UNION {ToSet(cells[l].list) : l \in UNION {ToSet(LeafCells(t)) : t \in Types}}
\* The cells of the index of storage class t.
IndexCells(t) ==
    IF subKeyCounts[t] = 0 THEN {} ELSE {subKeyLists[t]} \cup ToSet(LeafCells(t))

\* CmpCreateKey adds a child only after CmpFindSubKeyByName missed it.
AddSubKey(n) ==
    /\ fault = "none"
    /\ CmpFindSubKeyByName(n) = NIL
    /\ \E failAt \in 0..MaxFailAt, slackAt \in SUBSET SlackAllocs :
          Commit(StorageOf[n], CmpAddSubKey(HiveOf(StorageOf[n], failAt, slackAt), n))

\* Deleting a key removes it from its parent's index, where it is: the
\* caller first has CmpMarkIndexDirty mark the index cells (and gives up
\* when it fails), then calls CmpRemoveSubKey.
RemoveSubKey(n) ==
    /\ fault = "none"
    /\ n \in ToSet(Keys(StorageOf[n]))
    /\ LET md == CmpMarkIndexDirty(n)
       IN /\ md.found
          /\ Commit(StorageOf[n],
                    CmpRemoveSubKey([HiveOf(StorageOf[n], 0, {}) EXCEPT !.dirty = md.marks], n))

\* A restart: HvInitialize loads the hive from its stable storage, so the
\* volatile storage and the volatile index cells in it are gone, and
\* CmPrepareHive walks the keys with CmpPrepareKey, which zeroes
\* SubKeyCounts[Volatile] and leaves SubKeyLists[Volatile] as it was (the
\* FIXME at cmprepare.c:64).  The stable index is taken as written out;
\* the loaded hive starts with a clear dirty vector (HvpInitializeMemoryHive).
CmPrepareHive ==
    /\ fault = "none"
    /\ Volatile \in Types
    /\ cells' = [c \in DOMAIN cells \ IndexCells(Volatile) |-> cells[c]]
    /\ subKeyCounts' = [subKeyCounts EXCEPT ![Volatile] = 0]
    /\ dirty' = {}
    /\ UNCHANGED <<subKeyLists, fault, Version>>

\* HvSyncHive (outside this library): the dirty blocks are written to the
\* hive file and the dirty vector is cleared.
HvSyncHive ==
    /\ fault = "none"
    /\ dirty # {}
    /\ dirty' = {}
    /\ UNCHANGED <<cells, subKeyCounts, subKeyLists, fault, Version>>

Next == (\E n \in Names : AddSubKey(n) \/ RemoveSubKey(n)) \/ CmPrepareHive \/ HvSyncHive

Spec == Init /\ [][Next]_vars

-----------------------------------------------------------------------------
(* Properties.                                                              *)

TypeOK ==
    /\ DOMAIN cells \subseteq CellIds
    /\ \A c \in DOMAIN cells :
          /\ cells[c].sig \in LeafSigs \cup {"ri"}
          /\ cells[c].size \in Nat
          /\ cells[c].list \in Seq(IF cells[c].sig = "ri" THEN CellIds ELSE Names)
    /\ subKeyCounts \in [Types -> Nat]
    /\ subKeyLists \in [Types -> CellIds \cup {NIL}]
    /\ fault \in Faults
    /\ Version \in Versions
    /\ dirty \subseteq CellIds

\* The index of each storage class is well formed after every CmpAddSubKey,
\* CmpRemoveSubKey and restart: a counted index names an allocated leaf or
\* root, every leaf of a root is an allocated, non-empty leaf, and
\* SubKeyCounts is the number of entries.  The stable SubKeyLists is
\* HCELL_NIL exactly when its count is 0; the volatile one keeps a stale
\* cell index across a restart (CmpPrepareKey), which only the count makes
\* harmless.
IndexWellFormed ==
    \A t \in Types :
        /\ t = Stable => ((subKeyCounts[t] = 0) = (subKeyLists[t] = NIL))
        /\ subKeyCounts[t] # 0 => subKeyLists[t] \in DOMAIN cells
        /\ \A i \in DOMAIN LeafCells(t) :
              /\ LeafCells(t)[i] \in DOMAIN cells
              /\ cells[LeafCells(t)[i]].sig \in LeafSigs
              /\ Count(cells[LeafCells(t)[i]]) > 0
        /\ subKeyCounts[t] = Len(Keys(t))

\* The binary searches of CmpFindSubKeyInLeaf and CmpFindSubKeyInRoot
\* depend on this: across the leaves of an index, in root order, the
\* subkeys are strictly increasing in the case-insensitive order, whatever
\* sequence of insertions (CmpAddToLeaf), splits (CmpSplitLeaf) and
\* removals built it.
IndexSorted ==
    IndexWellFormed => \A t \in Types : IsSorted(Keys(t), <)

\* CmpFindSubKeyByName finds exactly the subkeys the index holds, through
\* the root and leaf binary searches and the hash-leaf scan.
LookupAgrees ==
    IndexWellFormed =>
        \A n \in Names : CmpFindSubKeyByName(n) = IF n \in Contents THEN n ELSE NIL

\* CmpFindSubKeyByNumber enumerates the stable subkeys and then the
\* volatile ones, each in index order, with no gap and no repetition.
EnumerationAgrees ==
    IndexWellFormed =>
        LET all == FlattenSeq([t \in 1..StorageTypeCount |-> Keys(t - 1)])
        IN \A i \in 0..Len(all) :
              CmpFindSubKeyByNumber(i) = IF i < Len(all) THEN all[i + 1] ELSE NIL

\* Every allocated index cell is reachable from SubKeyLists: reallocation,
\* splitting and removal free every cell they stop using.
NoCellLeak ==
    DOMAIN cells = UNION {IndexCells(t) : t \in Types}

\* No entry is written past the end of its cell: CmpAddToLeaf grows a leaf
\* before it is full and CmpSplitLeaf grows the root before it is full.
EntriesFitCells ==
    \A c \in DOMAIN cells :
        ListOffset + EntrySize(cells[c].sig) * Count(cells[c]) <= cells[c].size

\* No ASSERT fails, no HCELL_NIL is dereferenced, and CmpSelectLeaf finds
\* room within MaxSplits splits.
NoFault == fault = "none"

\* No write to the stable index is lost by the next HvSyncHive: every
\* cell of the stable index that an add or a removal creates or changes
\* (CmpAddToLeaf, CmpSplitLeaf, the root slot CmpAddSubKey stores, the
\* fast-leaf conversion, the entry and root slot CmpRemoveSubKey drops) was
\* marked dirty by HvMarkCellDirty, HvAllocateCell or CmpMarkIndexDirty.
IndexWritesDirty ==
    [][\A c \in (IndexCells(Stable) \cup IndexCells(Stable)') \cap DOMAIN cells' :
          (c \notin DOMAIN cells \/ cells'[c] # cells[c]) => c \in dirty']_vars

\* The index implements the abstract set of subkeys.
Abs == INSTANCE SubkeySet WITH keys <- Contents,
                               Volatiles <- {n \in Names : StorageOf[n] = Volatile}
AbsSpec == Abs!Spec

=============================================================================
