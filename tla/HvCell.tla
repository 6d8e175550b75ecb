------------------------------- MODULE HvCell -------------------------------
(***************************************************************************)
(* The bin/cell allocator of a hive (sdk/lib/cmlib/hivecell.c, freecell.c, *)
(* cmlib_private.h).  Each storage class (Stable, Volatile) is a sequence  *)
(* of bins; a bin starts with a 32-byte HBIN header and is cut into cells. *)
(* A cell starts with a signed LONG size (negative: allocated) followed by *)
(* its payload; a free cell keeps in its first payload ULONG the index of  *)
(* the next free cell of its FreeDisplay bucket.                            *)
(*                                                                         *)
(* Memory is modelled at the granularity of 16 bytes, the unit every cell  *)
(* size is rounded to: hdr[t][g] is the LONG at offset g of storage t and  *)
(* link[t][g] the ULONG at g + 4.  Values left in memory by earlier cells  *)
(* stay there, as in the code.  Cell indexes are storage offsets; the type *)
(* bit is the storage parameter t.                                         *)
(***************************************************************************)
EXTENDS Integers, Sequences, FiniteSets, SequencesExt

CONSTANTS
    Types,          \* the storage classes in use: a subset of {Stable, Volatile}
    HBLOCK_SIZE,    \* the block size (4096 in the code; smaller in the models)
    MaxBlocks,      \* blocks a storage class can grow to before Allocate fails
    Sizes,          \* the request sizes the client uses
    HCELL_NIL       \* the nil cell index

VARIABLES
    hdr,            \* hdr[t][g]: the HCELL.Size LONG at offset g
    link,           \* link[t][g]: the HCELL_INDEX stored at offset g + 4
    bins,           \* bins[t]: the bins of storage t, [off, size], in order
    freeDisplay,    \* freeDisplay[t][i]: head of free list i (Storage[t].FreeDisplay)
    dirty,          \* the set of dirty stable blocks (Hive->DirtyVector)
    disk,           \* disk[g]: the stable image written at the last persistence point
    owned,          \* owned[t]: the cells the client holds (returned, not yet freed)
    saved           \* the stable cells the client held at the last persistence point

vars == <<hdr, link, bins, freeDisplay, dirty, disk, owned, saved>>

Stable == 0
Volatile == 1
HCELL == 4                  \* sizeof(HCELL)
HBIN == 32                  \* sizeof(HBIN)
FreeLists == 0..23
Granules == {k * 16 : k \in 0..(MaxBlocks * HBLOCK_SIZE) \div 16 - 1}
Blocks == 0..MaxBlocks - 1

ASSUME Types \subseteq {Stable, Volatile} /\ Types # {}
ASSUME HBLOCK_SIZE % 16 = 0 /\ HBLOCK_SIZE > HBIN
ASSUME HCELL_NIL \notin Int

RoundUp(x, m) == ((x + m - 1) \div m) * m
Magnitude(x) == IF x < 0 THEN -x ELSE x

\* HvGetCellBlock: the block a cell index lies in.
HvGetCellBlock(c) == c \div HBLOCK_SIZE

\* The length of storage t in bytes (Storage[t].Length blocks).
StorageLength(s, t) ==
    IF s.bins[t] = <<>> THEN 0
    ELSE s.bins[t][Len(s.bins[t])].off + s.bins[t][Len(s.bins[t])].size

\* The bin a cell lies in (Storage[t].BlockList[block].BinAddress).
BinOf(s, t, c) == CHOOSE b \in ToSet(s.bins[t]) : b.off <= c /\ c < b.off + b.size

\* FindFirstSet[i] of the code's table: the index of the highest set bit.
FindFirstSet(i) == CHOOSE k \in 0..6 : 2^k <= i /\ i < 2^(k + 1)

\* HvpComputeFreeListIndex: the FreeDisplay bucket of a cell size.
HvpComputeFreeListIndex(size) ==
    LET i == size \div 8 - 1
    IN IF i < 16 THEN i ELSE IF i > 127 THEN 23 ELSE FindFirstSet(i) + 16

\* HvMarkCellDirty: RtlSetBits(DirtyVector, CellBlock, CellLastBlock -
\* CellBlock) with CellLastBlock the block of CellIndex + HBLOCK_SIZE - 1;
\* volatile cells are not tracked.
HvMarkCellDirty(s, t, c) ==
    IF t # Stable THEN s
    ELSE [s EXCEPT !.dirty = @ \cup (HvGetCellBlock(c)..(HvGetCellBlock(c + HBLOCK_SIZE - 1) - 1))]

\* Mutant: the list gets the payload address (cell + HCELL), not the cell.
HvpAddFree_PayloadIndex(s, t, c) ==
    LET i == HvpComputeFreeListIndex(s.hdr[t][c])
    IN [s EXCEPT !.link[t][c] = s.freeDisplay[t][i], !.freeDisplay[t][i] = c + HCELL]

\* Mutant: the type bit of the cell index is lost, so the cell goes on the
\* stable list of its size.
HvpAddFree_TypeBitLost(s, t, c) ==
    LET i == HvpComputeFreeListIndex(s.hdr[t][c])
    IN [s EXCEPT !.link[t][c] = s.freeDisplay[Stable][i], !.freeDisplay[Stable][i] = c]

\* HvpAddFree: push the free cell c on the list of its size.
HvpAddFree(s, t, c) ==
    LET i == HvpComputeFreeListIndex(s.hdr[t][c])
    IN [s EXCEPT !.link[t][c] = s.freeDisplay[t][i], !.freeDisplay[t][i] = c]

\* Point the list slot prev (HCELL_NIL: the list head i) at cell next.
SetSlot(s, t, i, prev, next) ==
    IF prev = HCELL_NIL THEN [s EXCEPT !.freeDisplay[t][i] = next]
    ELSE [s EXCEPT !.link[t][prev] = next]

\* The walk of HvpRemoveFree along list i; a cell not on its list is left
\* alone (the code traces the lists and ASSERTs).  The walk is bounded by
\* the number of granules, which no acyclic list exceeds.
RECURSIVE Unlink(_, _, _, _, _, _, _)
Unlink(s, t, c, i, prev, cur, steps) ==
    IF cur = HCELL_NIL \/ steps = 0 THEN s
    ELSE IF cur = c THEN SetSlot(s, t, i, prev, s.link[t][c])
    ELSE Unlink(s, t, c, i, cur, s.link[t][cur], steps - 1)

HvpRemoveFree(s, t, c) ==
    LET i == HvpComputeFreeListIndex(s.hdr[t][c])
    IN Unlink(s, t, c, i, HCELL_NIL, s.freeDisplay[t][i], Cardinality(Granules))

\* HvpFindFree: first fit along list i from slot prev, then along the
\* following lists; the cell found is unlinked.
RECURSIVE FindInList(_, _, _, _, _, _, _)
FindInList(s, t, size, i, prev, cur, steps) ==
    IF cur = HCELL_NIL \/ steps = 0
         THEN IF i = 23 THEN [s |-> s, cell |-> HCELL_NIL]
              ELSE FindInList(s, t, size, i + 1, HCELL_NIL, s.freeDisplay[t][i + 1],
                              Cardinality(Granules))
    ELSE IF s.hdr[t][cur] >= size
         THEN [s |-> SetSlot(s, t, i, prev, s.link[t][cur]), cell |-> cur]
    ELSE FindInList(s, t, size, i, cur, s.link[t][cur], steps - 1)

\* Mutant: the search ignores the storage class and looks at stable lists.
HvpFindFree_StableLists(s, t, size) ==
    LET i == HvpComputeFreeListIndex(size)
    IN FindInList(s, Stable, size, i, HCELL_NIL, s.freeDisplay[Stable][i], Cardinality(Granules))

\* Mutant: the search starts one list above the request's own.
HvpFindFree_SkipOwnList(s, t, size) ==
    LET i == HvpComputeFreeListIndex(size) + 1
    IN FindInList(s, t, size, i, HCELL_NIL, s.freeDisplay[t][i], Cardinality(Granules))

HvpFindFree(s, t, size) ==
    LET i == HvpComputeFreeListIndex(size)
    IN FindInList(s, t, size, i, HCELL_NIL, s.freeDisplay[t][i], Cardinality(Granules))

\* HvpAddBin (not in this source tree; from the spec): a new bin of the
\* request plus the bin header, rounded up to whole blocks, appended to
\* the storage, holding one free cell; a stable bin is dirty as a whole.
\* It fails when the storage would grow past MaxBlocks blocks.
HvpAddBin(s, t, size) ==
    LET off == StorageLength(s, t)
        binSize == RoundUp(size + HBIN, HBLOCK_SIZE)
        s1 == [s EXCEPT !.bins[t] = Append(@, [off |-> off, size |-> binSize]),
                        !.hdr[t][off + HBIN] = binSize - HBIN]
    IN IF off + binSize > MaxBlocks * HBLOCK_SIZE THEN [s |-> s, cell |-> HCELL_NIL]
       ELSE [s |-> IF t = Stable
                   THEN [s1 EXCEPT !.dirty = @ \cup {b \in Blocks : off <= b * HBLOCK_SIZE
                                                     /\ b * HBLOCK_SIZE < off + binSize}]
                   ELSE s1,
             cell |-> off + HBIN]
\* RtlZeroMemory of the payload bytes 4 .. size - 1 of cell c.
ZeroPayload(s, t, c, size) ==
    [s EXCEPT !.link[t][c] = 0,
              !.hdr[t] = [g \in DOMAIN @ |-> IF c < g /\ g < c + size THEN 0 ELSE @[g]],
              !.link[t] = [g \in DOMAIN @ |-> IF c < g /\ g < c + size THEN 0 ELSE @[g]]]

\* Mutant: the split-off rest keeps the size of the whole free cell.
AllocFrom_RestKeepsSize(r, t, size) ==
    IF r.cell = HCELL_NIL THEN r
    ELSE LET c == r.cell
             split == r.s.hdr[t][c] > size + 16
             s1 == IF split
                   THEN HvMarkCellDirty(HvpAddFree([r.s EXCEPT !.hdr[t][c + size] = r.s.hdr[t][c],
                                                             !.hdr[t][c] = size],
                                                   t, c + size),
                                        t, c + size)
                   ELSE r.s
             s2 == HvMarkCellDirty(s1, t, c)
         IN [s |-> ZeroPayload([s2 EXCEPT !.hdr[t][c] = -@], t, c, size), cell |-> c]

\* The end of HvAllocateCell, with the free cell r.cell found or carved
\* from a new bin: split off the rest when it is more than 16 bytes over,
\* mark dirty, flip the size to allocated and zero the payload.
AllocFrom(r, t, size) ==
    IF r.cell = HCELL_NIL THEN r
    ELSE LET c == r.cell
             split == r.s.hdr[t][c] > size + 16
             s1 == IF split
                   THEN HvMarkCellDirty(HvpAddFree([r.s EXCEPT !.hdr[t][c + size] = r.s.hdr[t][c] - size,
                                                             !.hdr[t][c] = size],
                                                   t, c + size),
                                        t, c + size)
                   ELSE r.s
             s2 == HvMarkCellDirty(s1, t, c)
         IN [s |-> ZeroPayload([s2 EXCEPT !.hdr[t][c] = -@], t, c, size), cell |-> c]

\* HvAllocateCell: round the request up, take the first fit from the free
\* lists or else a new bin.
HvAllocateCell(s, t, size) ==
    LET rounded == RoundUp(size + HCELL, 16)
    IN AllocFrom(LET f == HvpFindFree(s, t, rounded)
                 IN IF f.cell # HCELL_NIL THEN f ELSE HvpAddBin(s, t, rounded),
                 t, rounded)

\* The backward scan of HvFreeCell: walk the cells of the bin from n on,
\* and return the free cell that ends at c, or HCELL_NIL.
RECURSIVE FreeNeighborBefore(_, _, _, _)
FreeNeighborBefore(s, t, n, c) ==
    IF n >= c \/ s.hdr[t][n] = 0 THEN HCELL_NIL
    ELSE IF s.hdr[t][n] > 0 /\ n + s.hdr[t][n] = c THEN n
    ELSE FreeNeighborBefore(s, t, n + Magnitude(s.hdr[t][n]), c)

\* Mutant: the grown cell stays on the list of its old size.
FreeMerge_NoRebucket(s, t, c, p) ==
    IF p = HCELL_NIL THEN HvMarkCellDirty(HvpAddFree(s, t, c), t, c)
    ELSE HvMarkCellDirty([s EXCEPT !.hdr[t][p] = s.hdr[t][p] + s.hdr[t][c]], t, p)

\* The end of HvFreeCell, given the free cell p that ends at c (or none):
\* grow p by c, moving it to another list when its bucket changes, or put
\* c on its list; mark the changed cell dirty.
FreeMerge(s, t, c, p) ==
    IF p = HCELL_NIL THEN HvMarkCellDirty(HvpAddFree(s, t, c), t, c)
    ELSE LET grown == s.hdr[t][p] + s.hdr[t][c]
         IN HvMarkCellDirty(
              IF HvpComputeFreeListIndex(s.hdr[t][p]) # HvpComputeFreeListIndex(grown)
              THEN HvpAddFree([HvpRemoveFree(s, t, p) EXCEPT !.hdr[t][p] = grown], t, p)
              ELSE [s EXCEPT !.hdr[t][p] = grown],
              t, p)

\* HvFreeCell after the merge with the following cell (s1): merge with
\* the preceding one.
FreeBackward(s1, t, c) ==
    FreeMerge(s1, t, c, FreeNeighborBefore(s1, t, BinOf(s1, t, c).off + HBIN, c))

\* Mutant: the end of the bin is taken as its size, without its offset.
FreeForward_NoBinOffset(s, t, c) ==
    LET bin == BinOf(s, t, c)
        n == c + s.hdr[t][c]
    IN IF n < bin.size /\ s.hdr[t][n] > 0
       THEN [HvpRemoveFree(s, t, n) EXCEPT !.hdr[t][c] = @ + s.hdr[t][n]]
       ELSE s

\* Merge the free cell c with the free cell that follows it in its bin.
FreeForward(s, t, c) ==
    LET bin == BinOf(s, t, c)
        n == c + s.hdr[t][c]
    IN IF n < bin.off + bin.size /\ s.hdr[t][n] > 0
       THEN [HvpRemoveFree(s, t, n) EXCEPT !.hdr[t][c] = @ + s.hdr[t][n]]
       ELSE s

\* HvFreeCell: flip the size to free, then coalesce with both neighbours.
HvFreeCell(s, t, c) == FreeBackward(FreeForward([s EXCEPT !.hdr[t][c] = -@], t, c), t, c)

\* Mutant: the old cell is not freed after the copy.
ReallocCopy_KeepsOld(a, t, c) ==
    IF a.cell = HCELL_NIL THEN a
    ELSE LET n == Magnitude(a.s.hdr[t][c])
             d == a.cell - c
             s1 == [a.s EXCEPT
                      !.link[t][a.cell] = a.s.link[t][c],
                      !.hdr[t] = [g \in DOMAIN @ |-> IF a.cell < g /\ g < a.cell + n THEN @[g - d] ELSE @[g]],
                      !.link[t] = [g \in DOMAIN @ |-> IF a.cell < g /\ g < a.cell + n THEN @[g - d] ELSE @[g]]]
         IN [s |-> s1, cell |-> a.cell]

\* The copy of HvReallocateCell: the OldCellSize payload bytes of c go to
\* the new cell a.cell, which is then the result; c is freed.
ReallocCopy(a, t, c) ==
    IF a.cell = HCELL_NIL THEN a
    ELSE LET n == Magnitude(a.s.hdr[t][c])
             d == a.cell - c
             s1 == [a.s EXCEPT
                      !.link[t][a.cell] = a.s.link[t][c],
                      !.hdr[t] = [g \in DOMAIN @ |-> IF a.cell < g /\ g < a.cell + n THEN @[g - d] ELSE @[g]],
                      !.link[t] = [g \in DOMAIN @ |-> IF a.cell < g /\ g < a.cell + n THEN @[g - d] ELSE @[g]]]
         IN [s |-> HvFreeCell(s1, t, c), cell |-> a.cell]

\* HvReallocateCell: only grows; a new cell, the copy, and the old freed.
HvReallocateCell(s, t, c, size) ==
    IF size > Magnitude(s.hdr[t][c]) - HCELL
    THEN ReallocCopy(HvAllocateCell(s, t, size), t, c)
    ELSE [s |-> s, cell |-> c]
-----------------------------------------------------------------------------
(* The specification.  The client allocates cells, frees and reallocates  *)
(* the cells it holds; the hive is written out at persistence points.     *)

S == [hdr |-> hdr, link |-> link, bins |-> bins, freeDisplay |-> freeDisplay, dirty |-> dirty]

\* The cells of bin b, walked by their sizes from the first one, as the
\* backward scan of HvFreeCell and HvpCreateHiveFreeCellList walk them.
RECURSIVE WalkBin(_, _, _, _)
WalkBin(s, t, o, end) ==
    IF o >= end \/ s.hdr[t][o] = 0 THEN <<>>
    ELSE <<o>> \o WalkBin(s, t, o + Magnitude(s.hdr[t][o]), end)

BinWalk(t, b) == WalkBin(S, t, b.off + HBIN, b.off + b.size)
Cells(t) == UNION {ToSet(BinWalk(t, b)) : b \in ToSet(bins[t])}
AllocatedCells(t) == {c \in Cells(t) : hdr[t][c] < 0}
FreeCells(t) == {c \in Cells(t) : hdr[t][c] > 0}

\* The persistent content of stable offset g: the bin header, the header of
\* a cell, the header and payload of an allocated cell; the interior of a
\* free cell is "junk" (free lists are rebuilt when a hive is loaded).
Content(kind, h, l) == [kind |-> kind, hdr |-> h, link |-> l]
Junk == Content("junk", 0, 0)

ImageAt(g) ==
    LET bs == {b \in ToSet(bins[Stable]) : b.off <= g /\ g < b.off + b.size}
        b == CHOOSE x \in bs : TRUE
        cs == {c \in ToSet(BinWalk(Stable, b)) : c <= g /\ g < c + Magnitude(hdr[Stable][c])}
        c == CHOOSE x \in cs : TRUE
    IN IF bs = {} THEN Content("none", 0, 0)
       ELSE IF g < b.off + HBIN THEN Content("bin", b.off, b.size)
       ELSE IF cs = {} THEN Junk
       ELSE IF hdr[Stable][c] < 0 THEN Content("used", hdr[Stable][g], link[Stable][g])
       ELSE IF g = c THEN Content("free", hdr[Stable][g], 0)
       ELSE Junk

Init ==
    /\ hdr = [t \in Types |-> [g \in Granules |-> 0]]
    /\ link = [t \in Types |-> [g \in Granules |-> 0]]
    /\ bins = [t \in Types |-> <<>>]
    /\ freeDisplay = [t \in Types |-> [i \in FreeLists |-> HCELL_NIL]]
    /\ dirty = {}
    /\ disk = [g \in Granules |-> Content("none", 0, 0)]
    /\ owned = [t \in Types |-> {}]
    /\ saved = {}

\* The new memory, bins, lists and dirty vector.  The functions are made
\* explicit (@@ <<>>) so that states can be stored in full although the
\* views fingerprint only part of them.
Commit(s) ==
    /\ hdr' = [t \in Types |-> s.hdr[t] @@ <<>>] @@ <<>>
    /\ link' = [t \in Types |-> s.link[t] @@ <<>>] @@ <<>>
    /\ bins' = s.bins
    /\ freeDisplay' = s.freeDisplay
    /\ dirty' = s.dirty

\* HvAllocateCell succeeds and the client holds the cell.  A failed call
\* changes nothing.
AllocateCell(t, size) ==
    LET r == HvAllocateCell(S, t, size)
    IN /\ r.cell # HCELL_NIL
       /\ Commit(r.s)
       /\ owned' = [owned EXCEPT ![t] = @ \cup {r.cell}]
       /\ UNCHANGED <<disk, saved>>

FreeCell(t, c) ==
    /\ c \in owned[t]
    /\ Commit(HvFreeCell(S, t, c))
    /\ owned' = [owned EXCEPT ![t] = @ \ {c}]
    /\ UNCHANGED <<disk, saved>>

\* HvReallocateCell moves the cell (a call that fails or keeps the cell
\* changes nothing).
ReallocateCell(t, c, size) ==
    LET r == HvReallocateCell(S, t, c, size)
    IN /\ c \in owned[t]
       /\ r.cell \notin {HCELL_NIL, c}
       /\ Commit(r.s)
       /\ owned' = [owned EXCEPT ![t] = (@ \ {c}) \cup {r.cell}]
       /\ UNCHANGED <<disk, saved>>

\* A persistence point (the hive writer, not in this source tree): the
\* dirty stable blocks are written and the dirty vector is cleared.
Persist ==
    /\ Stable \in Types
    /\ dirty # {}
    /\ disk' = [g \in Granules |-> IF HvGetCellBlock(g) \in dirty THEN ImageAt(g) ELSE disk[g]]
    /\ dirty' = {}
    /\ saved' = owned[Stable]
    /\ UNCHANGED <<hdr, link, bins, freeDisplay, owned>>

(* A restart: the hive is loaded again from its written image by         *)
(* HvInitialize(HINIT_FILE): HvLoadHive reads the base block and the      *)
(* image, HvpInitializeMemoryHive copies the bins, HvpCreateHiveFreeCellList *)
(* rebuilds the free lists, and the dirty vector starts clear.  Memory is *)
(* fresh, and the volatile storage starts empty.                          *)

\* The Length of the written base block: the writer writes every block of
\* the stable storage, all of which are dirty when their bin is added.
DiskLength == HBLOCK_SIZE * Cardinality({b \in Blocks : disk[b * HBLOCK_SIZE].kind # "none"})

\* The bins of the image, read block by block as HvpInitializeMemoryHive
\* reads them: a block that does not start with a bin header, or a bin
\* size that is not a multiple of HBLOCK_SIZE, is STATUS_REGISTRY_CORRUPT.
\* A bin size of 0 passes the check and the loop never ends; it fails here.
RECURSIVE LoadBins(_, _)
LoadBins(blockIndex, acc) ==
    LET h == disk[blockIndex * HBLOCK_SIZE]
    IN IF blockIndex * HBLOCK_SIZE >= DiskLength THEN [ok |-> TRUE, bins |-> acc]
       ELSE IF h.kind # "bin" \/ h.link % HBLOCK_SIZE # 0 \/ h.link = 0
            THEN [ok |-> FALSE, bins |-> acc]
       ELSE LoadBins(blockIndex + h.link \div HBLOCK_SIZE,
                     Append(acc, [off |-> blockIndex * HBLOCK_SIZE, size |-> h.link, file |-> h.hdr]))

\* The loop of HvpCreateHiveFreeCellList over one bin b: each free cell is
\* pushed by HvpAddFree under the index Bin->FileOffset + FreeOffset.  A
\* size of 0 never advances the loop; it fails here.
RECURSIVE ScanFree(_, _, _)
ScanFree(s, b, o) ==
    LET h == s.hdr[Stable][b.off + o]
    IN IF o >= b.size THEN [ok |-> TRUE, s |-> s]
       ELSE IF h = 0 THEN [ok |-> FALSE, s |-> s]
       ELSE IF h > 0 THEN ScanFree(HvpAddFree(s, Stable, b.file + o), b, o + h)
       ELSE ScanFree(s, b, o - h)

\* HvpCreateHiveFreeCellList: with every FreeDisplay head HCELL_NIL, scan
\* the bins bs in order from the k-th, stopping at the first failure.
RECURSIVE HvpCreateHiveFreeCellList(_, _, _)
HvpCreateHiveFreeCellList(r, bs, k) ==
    IF ~r.ok \/ k > Len(bs) THEN r
    ELSE HvpCreateHiveFreeCellList(ScanFree(r.s, bs[k], HBIN), bs, k + 1)

\* The memory copied from the image: the headers of cells and the payload
\* of allocated cells; everything else reads 0.
LoadedHdr(g) == IF disk[g].kind \in {"used", "free"} THEN disk[g].hdr ELSE 0
LoadedLink(g) == IF disk[g].kind = "used" THEN disk[g].link ELSE 0

\* The image as HvLoadHive hands it to HvpInitializeMemoryHive.
LoadedImage ==
    LET lb == LoadBins(0, <<>>)
    IN [bins |-> lb,
        s |-> [hdr |-> [t \in Types |-> [g \in Granules |-> IF t = Stable THEN LoadedHdr(g) ELSE 0]],
               link |-> [t \in Types |-> [g \in Granules |-> IF t = Stable THEN LoadedLink(g) ELSE 0]],
               bins |-> [t \in Types |-> IF t = Stable
                                          THEN [k \in DOMAIN lb.bins |-> [off |-> lb.bins[k].off,
                                                                          size |-> lb.bins[k].size]]
                                          ELSE <<>>],
               freeDisplay |-> [t \in Types |-> [i \in FreeLists |-> HCELL_NIL]],
               dirty |-> {}]]

\* Mutant: a hive of exactly one block is taken for too short.
HvpInitializeMemoryHive_RejectsOneBlock ==
    LET im == LoadedImage
    IN IF DiskLength <= HBLOCK_SIZE \/ ~im.bins.ok THEN [ok |-> FALSE, s |-> im.s]
       ELSE HvpCreateHiveFreeCellList([ok |-> TRUE, s |-> im.s], im.bins.bins, 1)

\* HvpInitializeMemoryHive: the length check, the bins copied, the free
\* lists rebuilt and the dirty vector clear; ok = FALSE on failure.
HvpInitializeMemoryHive ==
    LET im == LoadedImage
    IN IF DiskLength < HBLOCK_SIZE \/ ~im.bins.ok THEN [ok |-> FALSE, s |-> im.s]
       ELSE HvpCreateHiveFreeCellList([ok |-> TRUE, s |-> im.s], im.bins.bins, 1)

\* A restart that loads the hive; the client then holds the stable cells it
\* held when the image was written.  A hive that fails to load stays down.
Reload ==
    /\ Stable \in Types
    /\ HvpInitializeMemoryHive.ok
    /\ Commit(HvpInitializeMemoryHive.s)
    /\ owned' = [t \in Types |-> IF t = Stable THEN saved ELSE {}]
    /\ UNCHANGED <<disk, saved>>

Next ==
    \/ \E t \in Types, size \in Sizes :
          \/ AllocateCell(t, size)
          \/ \E c \in owned[t] : FreeCell(t, c) \/ ReallocateCell(t, c, size)
    \/ Persist

Spec == Init /\ [][Next]_vars

\* The allocator with restarts from the written image.
NextWithRestart == Next \/ Reload
SpecWithRestart == Init /\ [][NextWithRestart]_vars
-----------------------------------------------------------------------------
(* Properties.                                                              *)

\* The free list i of storage t, followed for at most one step more than a
\* list without a cycle can take.
RECURSIVE ChainFrom(_, _, _)
ChainFrom(t, cur, steps) ==
    IF cur = HCELL_NIL \/ steps = 0 THEN <<>>
    ELSE <<cur>> \o ChainFrom(t, link[t][cur], steps - 1)

FreeList(t, i) == ChainFrom(t, freeDisplay[t][i], Cardinality(Granules) + 1)

TypeOK ==
    /\ hdr \in [Types -> [Granules -> Int]]
    /\ link \in [Types -> [Granules -> Int \cup {HCELL_NIL}]]
    /\ \A t \in Types : \A k \in 1..Len(bins[t]) : bins[t][k].off % HBLOCK_SIZE = 0
    /\ freeDisplay \in [Types -> [FreeLists -> Granules \cup {HCELL_NIL}]]
    /\ dirty \subseteq Blocks
    /\ owned \in [Types -> SUBSET Granules]

\* Every bin is cut into cells that follow each other exactly from the end
\* of the bin header to the end of the bin, each a non-zero multiple of 16
\* bytes: the splits of HvAllocateCell and the merges of HvFreeCell keep
\* the sizes in the headers consistent with the layout.
BinsTiled ==
    \A t \in Types : \A b \in ToSet(bins[t]) :
        LET w == BinWalk(t, b)
        IN /\ w # <<>>
           /\ \A k \in 1..Len(w) : hdr[t][w[k]] % 16 = 0
           /\ w[Len(w)] + Magnitude(hdr[t][w[Len(w)]]) = b.off + b.size

\* The allocated cells are exactly the cells the client holds: no cell is
\* handed out twice, and no merge or split swallows or frees a held cell.
OwnedAllocated == \A t \in Types : AllocatedCells(t) = owned[t]

\* Each free list ends (no cycle) and holds exactly the free cells whose
\* size HvpComputeFreeListIndex puts in that bucket: HvpAddFree,
\* HvpRemoveFree and the re-bucketing of a cell grown by HvFreeCell keep
\* the lists in step with the sizes.
FreeListsExact ==
    \A t \in Types : \A i \in FreeLists :
        LET l == FreeList(t, i)
        IN /\ Len(l) <= Cardinality(Granules)
           /\ IsInjective(l)
           /\ ToSet(l) = {c \in FreeCells(t) : HvpComputeFreeListIndex(hdr[t][c]) = i}

\* No two free cells are next to each other in a bin: HvFreeCell merges a
\* freed cell with both free neighbours.
FreeCellsCoalesced ==
    \A t \in Types : \A b \in ToSet(bins[t]) :
        LET w == BinWalk(t, b)
        IN \A k \in 1..Len(w) - 1 : ~(hdr[t][w[k]] > 0 /\ hdr[t][w[k + 1]] > 0)

\* HvAllocateCell fails or grows the storage only when no free cell is
\* large enough: the bucket search of HvpFindFree starting at the bucket of
\* the request finds every free cell that fits.
FirstFitComplete ==
    \A t \in Types, size \in Sizes :
        LET r == HvAllocateCell(S, t, size)
        IN (r.cell = HCELL_NIL \/ Len(r.s.bins[t]) > Len(bins[t]))
              => \A f \in FreeCells(t) : hdr[t][f] < RoundUp(size + HCELL, 16)

\* Every stable block whose persistent content differs from what was last
\* written is dirty: HvAllocateCell and HvFreeCell mark every cell whose
\* header or payload they change (spec: the dirty bits span the cell).
CleanBlocksPersisted ==
    \A g \in Granules :
        HvGetCellBlock(g) \notin dirty => ImageAt(g) \in {Junk, disk[g]}
\* The written image always loads, and the loaded hive holds exactly the
\* stable cells the client held when it was written: the dirty marking of
\* HvAllocateCell and HvFreeCell, the write-out of the dirty blocks, and
\* the bin copy and free-list rebuild of HvpInitializeMemoryHive and
\* HvpCreateHiveFreeCellList together preserve every cell across a restart.
PersistedImageLoads ==
    Stable \in Types /\ DiskLength >= HBLOCK_SIZE =>
        LET r == HvpInitializeMemoryHive
        IN /\ r.ok
           /\ {c \in UNION {ToSet(WalkBin(r.s, Stable, b.off + HBIN, b.off + b.size)) :
                            b \in ToSet(r.s.bins[Stable])} : r.s.hdr[Stable][c] < 0} = saved

\* What the allocator reads of memory: the headers of the cells of every
\* bin walk and the links of the free cells.  Stale values elsewhere, the
\* dirty vector and the written image are never read by an allocator
\* decision, so states that agree on this view behave alike.
AllocatorView ==
    <<[t \in Types |-> [c \in Cells(t) |-> hdr[t][c]]],
      [t \in Types |-> [c \in FreeCells(t) |-> link[t][c]]],
      bins, freeDisplay, owned>>

\* With restarts, the written image, the dirty vector and the saved cells
\* decide what a later Reload produces.
RestartView == <<AllocatorView, disk, dirty, saved>>
====
