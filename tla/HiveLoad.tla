------------------------------ MODULE HiveLoad ------------------------------
(***************************************************************************)
(* Initializing a hive (HvInitialize.c HvInitialize) and freeing it      *)
(* (hivefree.c HvFree, free.c HvpFreeHiveBins).  HvInitialize dispatches  *)
(* on the operation: HvpCreateHive (create.c) allocates an empty base    *)
(* block; HvpInitializeFlatHive (flathive.c) adopts the caller's image    *)
(* read-only; HvpInitializeMemoryHive (memhive.c) copies the caller's     *)
(* image; HvLoadHive (hiveload.c, with HvpGetHiveHeader) reads the file   *)
(* into a buffer and initializes the hive from it as from memory.  The    *)
(* memory load checks the image, copies the base block, allocates the    *)
(* block list and walks the bins, copying each; HvpCreateHiveFreeCellList *)
(* (freecell.c) then walks every cell of every bin and puts the free ones *)
(* on the free lists (which HvCell models; here they are the set of free  *)
(* cells added); last the dirty vector is allocated.  One step per call   *)
(* that can fail and per iteration of the loops; any allocation and any   *)
(* read may fail.  Once HvInitialize has returned, the caller may HvFree  *)
(* the hive.                                                              *)
(*                                                                         *)
(* The image is one of HiveImage; the loader trusts each bin's Size and   *)
(* each cell's size as it reads them.  The memory allocated is tracked by *)
(* name: "header" (HvpGetHiveHeader's base block), "data" (the file       *)
(* buffer), "base" (the hive's base block), "list" (the block list),      *)
(* "bitmap" (the dirty vector), and the copy of each bin; "chunk" is the  *)
(* caller's image, which the hive does not own.                           *)
(***************************************************************************)
EXTENDS HiveImage, FiniteSets, TLC

CONSTANTS
    Images,         \* the images the hive may be initialized from
    Operations      \* the OperationType values HvInitialize may be given

VARIABLES
    operation,      \* the OperationType HvInitialize was given
    image,          \* the image (file or memory) the hive is initialized from
    pc,             \* the step of HvInitialize next, "done" or "freed"
    status,         \* "pending", then the NTSTATUS returned
    heap,           \* the allocations of the load not yet freed
    copies,         \* the blocks whose bin copy is allocated and not freed
    hiveBase,       \* the allocation Hive->BaseBlock points to, or "null"
    length,         \* Hive->Storage[Stable].Length, in blocks
    blockIndex,     \* BlockIndex of the loop running
    blockList,      \* BlockList: for each entry written, the block its bin starts at
    freeOffset,     \* FreeOffset in the bin being walked
    free,           \* the free cells HvpAddFree has put on the free lists
    freedUnowned    \* what HvFree freed that the hive did not own

vars == <<operation, freedUnowned, image, pc, status, heap, copies, hiveBase, length, blockIndex, blockList, freeOffset, free>>

\* The first step of each operation HvInitialize dispatches to; the
\* in-place memory and mapped-file operations are not implemented.
FirstStep(o) ==
    CASE o = "HINIT_CREATE" -> "create"
      [] o = "HINIT_MEMORY" -> "init"
      [] o = "HINIT_FLAT"   -> "flat"
      [] o = "HINIT_FILE"   -> "header"
      [] OTHER              -> "unimplemented"

\* HvInitialize zeroes the hive descriptor and dispatches.
Init ==
    /\ operation \in Operations
    /\ image \in Images
    /\ pc = FirstStep(operation)
    /\ status = "pending"
    /\ heap = {}
    /\ copies = {}
    /\ hiveBase = "null"
    /\ length = 0
    /\ blockIndex = 0
    /\ blockList = <<>>
    /\ freeOffset = 0
    /\ free = {}
    /\ freedUnowned = {}

\* Return s from HvLoadHive, with the allocations h left.
Return(s, h) ==
    /\ pc' = "done"
    /\ status' = s
    /\ heap' = h
    /\ UNCHANGED <<operation, freedUnowned, image, length, blockIndex, blockList, freeOffset, free>>

\* HvpGetHiveHeader allocates a base block, reads the first cluster into
\* it and checks it with HvpVerifyHiveHeader; HvLoadHive stores it in
\* Hive->BaseBlock.  A header that fails the check returns NotHive.
HvpGetHiveHeader ==
    /\ pc = "header"
    /\ \/ /\ ~image.hdrOk
          /\ Return("NOT_REGISTRY_FILE", heap \cup {"header"})
          /\ UNCHANGED <<copies, hiveBase>>
       \/ /\ image.hdrOk
          /\ pc' = "read"
          /\ heap' = heap \cup {"header"}
          /\ hiveBase' = "header"
          /\ UNCHANGED <<operation, freedUnowned, image, status, copies, length, blockIndex, blockList, freeOffset, free>>

\* The base block cannot be allocated (NoMemory), or the read fails (NotHive).
GetHeaderFails ==
    /\ pc = "header"
    /\ \/ Return("INSUFFICIENT_RESOURCES", heap)
       \/ Return("NOT_REGISTRY_FILE", heap \cup {"header"})
    /\ UNCHANGED <<copies, hiveBase>>

\* HvLoadHive allocates HBLOCK_SIZE + Length bytes, reads the whole file
\* into them, and frees its base block (Hive->BaseBlock still points at it).
ReadHive ==
    /\ pc = "read"
    /\ pc' = "init"
    /\ heap' = (heap \cup {"data"}) \ {"header"}
    /\ UNCHANGED <<operation, freedUnowned, image, status, copies, hiveBase, length, blockIndex, blockList, freeOffset, free>>

\* The buffer cannot be allocated, or the read fails; the base block and
\* the buffer are freed.
ReadHiveFails ==
    /\ pc = "read"
    /\ \/ Return("INSUFFICIENT_RESOURCES", heap \ {"header"})
       \/ Return("NOT_REGISTRY_FILE", heap \ {"header"})
    /\ UNCHANGED <<copies, hiveBase>>

\* HvpInitializeMemoryHive up to its bin loop: the Length and the header
\* checked, the base block copied into a new allocation, Length /
\* HBLOCK_SIZE set and the block list allocated.  Every failure of
\* HvpInitializeMemoryHive makes HvLoadHive free the buffer; a memory
\* hive's image is its caller's, and is never "data".
InitializeMemoryHive ==
    /\ pc = "init"
    /\ \/ /\ image.length < HBLOCK_SIZE \/ ~image.hdrOk
          /\ Return("REGISTRY_CORRUPT", heap \ {"data"})
          /\ UNCHANGED <<copies, hiveBase>>
       \/ /\ image.length >= HBLOCK_SIZE /\ image.hdrOk
          /\ pc' = "bins"
          /\ heap' = heap \cup {"base", "list"}
          /\ hiveBase' = "base"
          /\ length' = image.length \div HBLOCK_SIZE
          /\ UNCHANGED <<operation, freedUnowned, image, status, copies, blockIndex, blockList, freeOffset, free>>

\* The base block cannot be allocated (Hive->BaseBlock is NULL), or the
\* block list cannot: the base block is freed, Hive->BaseBlock still
\* points at it, and Length is already set while BlockList is NULL.
InitializeFails ==
    /\ pc = "init" /\ image.length >= HBLOCK_SIZE /\ image.hdrOk
    /\ \/ /\ Return("NO_MEMORY", heap \ {"data"})
          /\ hiveBase' = "null"
       \/ /\ pc' = "done"
          /\ status' = "NO_MEMORY"
          /\ heap' = heap \ {"data"}
          /\ hiveBase' = "base"
          /\ length' = image.length \div HBLOCK_SIZE
          /\ UNCHANGED <<operation, freedUnowned, image, blockIndex, blockList, freeOffset, free>>
    /\ UNCHANGED copies

\* The bin header the loop reads at BlockIndex.
Bin == image.bin[blockIndex]

\* The block list entries one iteration writes: BlockIndex, and
\* BlockIndex + i for 0 < i < Size / HBLOCK_SIZE; none is checked against
\* Length.
\* Mutant: the inner loop runs to i <= Size / HBLOCK_SIZE.
Entries_OneMore(b, size) == {b} \cup {b + i : i \in 1..size \div HBLOCK_SIZE}

Entries(b, size) == {b} \cup {b + i : i \in 1..size \div HBLOCK_SIZE - 1}

\* Mutant: the bin's signature not checked.
ReadBin_NoSignature ==
    /\ pc = "bins" /\ blockIndex < length
    /\ \/ /\ Bin.size % HBLOCK_SIZE # 0
          /\ Return("REGISTRY_CORRUPT", heap \ {"list", "base", "data"})
          /\ UNCHANGED <<copies, hiveBase>>
       \/ /\ Bin.size % HBLOCK_SIZE = 0
          /\ blockList' = [i \in Entries(blockIndex, Bin.size) |-> blockIndex] @@ blockList
          /\ blockIndex' = blockIndex + Bin.size \div HBLOCK_SIZE
          /\ copies' = copies \cup {blockIndex}
          /\ UNCHANGED <<operation, freedUnowned, image, pc, status, heap, hiveBase, length, freeOffset, free>>

\* One iteration of the bin loop of HvpInitializeMemoryHive: a bin whose
\* signature or Size is wrong rejects the hive (the block list and base
\* block freed, the copies made so far not); otherwise a copy of Size
\* bytes is allocated and filled, the block list entries of the bin set,
\* and BlockIndex advanced by Size / HBLOCK_SIZE.
ReadBin ==
    /\ pc = "bins" /\ blockIndex < length
    /\ \/ /\ ~Bin.sig \/ Bin.size % HBLOCK_SIZE # 0
          /\ Return("REGISTRY_CORRUPT", heap \ {"list", "base", "data"})
          /\ UNCHANGED <<copies, hiveBase>>
       \/ /\ Bin.sig /\ Bin.size % HBLOCK_SIZE = 0
          /\ blockList' = [i \in Entries(blockIndex, Bin.size) |-> blockIndex] @@ blockList
          /\ blockIndex' = blockIndex + Bin.size \div HBLOCK_SIZE
          /\ copies' = copies \cup {blockIndex}
          /\ UNCHANGED <<operation, freedUnowned, image, pc, status, heap, hiveBase, length, freeOffset, free>>

\* The allocation of a bin's copy fails; the block list and base block
\* are freed, the copies made so far not.
BinAllocFails ==
    /\ pc = "bins" /\ blockIndex < length
    /\ Bin.sig /\ Bin.size % HBLOCK_SIZE = 0
    /\ Return("NO_MEMORY", heap \ {"list", "base", "data"})
    /\ UNCHANGED <<copies, hiveBase>>

\* The bin loop done: HvpCreateHiveFreeCellList empties the free lists and
\* starts at the first block.
BinsLoaded ==
    /\ pc = "bins" /\ blockIndex >= length
    /\ pc' = "cells"
    /\ blockIndex' = 0
    /\ freeOffset' = HBIN
    /\ free' = {}
    /\ UNCHANGED <<operation, freedUnowned, image, status, heap, copies, hiveBase, length, blockList>>

\* The copy of the bin BlockList[BlockIndex].BinAddress points to, and the
\* cell size at FreeOffset in it.
ScanBin == image.bin[blockList[blockIndex]]
CellSize(o) ==
    LET at == blockList[blockIndex] * HBLOCK_SIZE + o
    IN IF at \in DOMAIN image.cell THEN image.cell[at] ELSE 0

\* Mutant: an allocated cell's size added, as a free one's is.
ScanCell_SignFlip ==
    /\ pc = "cells" /\ blockIndex < length /\ freeOffset < ScanBin.size
    /\ \/ /\ CellSize(freeOffset) > 0
          /\ free' = free \cup {[cell |-> ScanBin.file + freeOffset, size |-> CellSize(freeOffset)]}
          /\ freeOffset' = freeOffset + CellSize(freeOffset)
       \/ /\ CellSize(freeOffset) <= 0
          /\ freeOffset' = freeOffset + CellSize(freeOffset)
          /\ UNCHANGED free
    /\ UNCHANGED <<operation, freedUnowned, image, pc, status, heap, copies, hiveBase, length, blockIndex, blockList>>

\* Mutant: the free cell's index taken as its offset in its bin.
ScanCell_NoFileOffset ==
    /\ pc = "cells" /\ blockIndex < length /\ freeOffset < ScanBin.size
    /\ \/ /\ CellSize(freeOffset) > 0
          /\ free' = free \cup {[cell |-> freeOffset, size |-> CellSize(freeOffset)]}
          /\ freeOffset' = freeOffset + CellSize(freeOffset)
       \/ /\ CellSize(freeOffset) <= 0
          /\ freeOffset' = freeOffset - CellSize(freeOffset)
          /\ UNCHANGED free
    /\ UNCHANGED <<operation, freedUnowned, image, pc, status, heap, copies, hiveBase, length, blockIndex, blockList>>

\* One iteration of the inner loop of HvpCreateHiveFreeCellList: a cell of
\* positive size is free and goes on the free lists at index
\* Bin->FileOffset + FreeOffset; FreeOffset moves past the cell by the
\* magnitude of its size.  A size of 0 moves nothing.
ScanCell ==
    /\ pc = "cells" /\ blockIndex < length /\ freeOffset < ScanBin.size
    /\ \/ /\ CellSize(freeOffset) > 0
          /\ free' = free \cup {[cell |-> ScanBin.file + freeOffset, size |-> CellSize(freeOffset)]}
          /\ freeOffset' = freeOffset + CellSize(freeOffset)
       \/ /\ CellSize(freeOffset) <= 0
          /\ freeOffset' = freeOffset - CellSize(freeOffset)
          /\ UNCHANGED free
    /\ UNCHANGED <<operation, freedUnowned, image, pc, status, heap, copies, hiveBase, length, blockIndex, blockList>>

\* Mutant: BlockIndex advanced by the bin's size in bytes.
NextFreeBin_ByteStep ==
    /\ pc = "cells" /\ blockIndex < length /\ freeOffset >= ScanBin.size
    /\ blockIndex' = blockIndex + ScanBin.size
    /\ freeOffset' = HBIN
    /\ UNCHANGED <<operation, freedUnowned, image, pc, status, heap, copies, hiveBase, length, blockList, free>>

\* The end of a bin: BlockIndex advances by its Size / HBLOCK_SIZE and the
\* walk of the next bin starts past its header.
NextFreeBin ==
    /\ pc = "cells" /\ blockIndex < length /\ freeOffset >= ScanBin.size
    /\ blockIndex' = blockIndex + ScanBin.size \div HBLOCK_SIZE
    /\ freeOffset' = HBIN
    /\ UNCHANGED <<operation, freedUnowned, image, pc, status, heap, copies, hiveBase, length, blockList, free>>

\* Every bin walked: the dirty vector is allocated and cleared, and the
\* hive is loaded.  HvLoadHive frees the buffer only when the load fails.
AllocDirtyVector ==
    /\ pc = "cells" /\ blockIndex >= length
    /\ Return("SUCCESS", heap \cup {"bitmap"})
    /\ UNCHANGED <<copies, hiveBase>>

\* The allocation of the dirty vector fails: HvpFreeHiveBins frees every
\* copy and the block list, then the base block is freed.
DirtyVectorFails ==
    /\ pc = "cells" /\ blockIndex >= length
    /\ Return("NO_MEMORY", heap \ {"list", "base", "data"})
    /\ copies' = {}
    /\ UNCHANGED hiveBase

\* HvpCreateHive allocates and fills a base block; the hive has no bins.
HvpCreateHive ==
    /\ pc = "create"
    /\ Return("SUCCESS", heap \cup {"base"})
    /\ hiveBase' = "base"
    /\ UNCHANGED copies

\* The base block of a new hive cannot be allocated.
CreateFails ==
    /\ pc = "create"
    /\ Return("NO_MEMORY", heap)
    /\ UNCHANGED <<copies, hiveBase>>

\* HvpInitializeFlatHive checks the header of the caller's image and
\* adopts it as the hive's base block, read-only.
HvpInitializeFlatHive ==
    /\ pc = "flat"
    /\ \/ /\ ~image.hdrOk
          /\ Return("REGISTRY_CORRUPT", heap)
          /\ UNCHANGED hiveBase
       \/ /\ image.hdrOk
          /\ Return("SUCCESS", heap)
          /\ hiveBase' = "chunk"
    /\ UNCHANGED copies

\* The in-place memory and mapped-file operations return NOT_IMPLEMENTED
\* (after an ASSERT(FALSE) that only a checked build stops at).
NotImplemented ==
    /\ pc = "unimplemented"
    /\ Return("NOT_IMPLEMENTED", heap)
    /\ UNCHANGED <<copies, hiveBase>>

\* Hive->ReadOnly: set only by a successful HvpInitializeFlatHive.
ReadOnly == operation = "HINIT_FLAT" /\ status = "SUCCESS"

\* What HvFree frees of a hive that is not read-only: the dirty vector if
\* DirtyVector.Buffer is set; HvpFreeHiveBins's block list if Length is
\* not 0 (the volatile storage has Length 0); the base block if
\* Hive->BaseBlock is not NULL.  None of these is checked for being
\* allocated still.
Released ==
    ({"bitmap"} \cap heap)
    \cup (IF length > 0 THEN {"list"} ELSE {})
    \cup (IF hiveBase # "null" THEN {hiveBase} ELSE {})

\* Mutant: HvFree without its ReadOnly check.
HvFree_IgnoresReadOnly ==
    /\ pc = "done"
    /\ pc' = "freed"
    /\ freedUnowned' = Released \ heap
    /\ heap' = heap \ Released
    /\ copies' \in IF "list" \in heap THEN {{}} ELSE {copies, {}}
    /\ hiveBase' = "null"
    /\ UNCHANGED <<operation, image, status, length, blockIndex, blockList, freeOffset, free>>

\* HvFree, once HvInitialize has returned: nothing for a read-only hive;
\* otherwise Released is freed, and HvpFreeHiveBins frees the bin copy
\* each BlockList entry below Length points to.  When the block list is
\* no longer allocated, that loop reads freed memory (or NULL), which may
\* still hold the old entries or not.
HvFree ==
    /\ pc = "done"
    /\ pc' = "freed"
    /\ \/ /\ ReadOnly
          /\ UNCHANGED <<freedUnowned, heap, copies, hiveBase>>
       \/ /\ ~ReadOnly
          /\ freedUnowned' = Released \ heap
          /\ heap' = heap \ Released
          /\ copies' \in IF "list" \in heap THEN {{}} ELSE {copies, {}}
          /\ hiveBase' = "null"
    /\ UNCHANGED <<operation, image, status, length, blockIndex, blockList, freeOffset, free>>

\* The steps of HvInitialize, and the failures its environment may cause.
Progress ==
    \/ HvpCreateHive \/ HvpInitializeFlatHive \/ NotImplemented
    \/ HvpGetHiveHeader \/ ReadHive \/ InitializeMemoryHive
    \/ ReadBin \/ BinsLoaded \/ ScanCell \/ NextFreeBin \/ AllocDirtyVector
Failure ==
    \/ CreateFails \/ GetHeaderFails \/ ReadHiveFails \/ InitializeFails
    \/ BinAllocFails \/ DirtyVectorFails

\* The caller may free the hive once HvInitialize has returned, or not.
Next == Progress \/ Failure \/ HvFree

\* HvInitialize runs to completion on its caller's thread (spec.md: no
\* cmlib function suspends), so a step of it that can be taken is taken.
\* No allocation or read is assumed ever to fail, and the caller need not
\* ever free the hive: fairness is on HvInitialize's own steps only.
Spec == Init /\ [][Next]_vars /\ WF_vars(Progress)

-----------------------------------------------------------------------------
(* Properties.                                                              *)

Statuses == {"pending", "SUCCESS", "REGISTRY_CORRUPT", "NOT_REGISTRY_FILE",
             "NO_MEMORY", "INSUFFICIENT_RESOURCES", "NOT_IMPLEMENTED"}
Allocations == {"header", "data", "base", "list", "bitmap"}

TypeOK ==
    /\ operation \in Operations
    /\ image \in Images
    /\ pc \in {"create", "flat", "unimplemented", "header", "read", "init",
              "bins", "cells", "done", "freed"}
    /\ status \in Statuses
    /\ heap \subseteq Allocations
    /\ copies \subseteq 0..length
    /\ hiveBase \in Allocations \cup {"chunk", "null"}
    /\ length \in 0..MaxBlocks
    /\ blockIndex \in 0..length
    /\ freeOffset \in Nat
    /\ free \subseteq [cell : Offsets, size : Nat \ {0}]
    /\ freedUnowned \subseteq Allocations \cup {"chunk"}

\* Every block list entry the bin loop writes is inside the block list
\* of Length / HBLOCK_SIZE entries, and so every bin copied lies inside
\* the file read: no bin's Size runs past the end of the hive.
BlockListInBounds == DOMAIN blockList \subseteq 0..length - 1

\* Every cell put on the free lists lies wholly inside one bin of the file,
\* past its header: HvAllocateCell may hand it out whole.
FreeCellsInBins ==
    \A f \in free : \E b \in Blocks :
        /\ image.bin[b].sig
        /\ b * HBLOCK_SIZE + HBIN <= f.cell
        /\ f.cell + f.size <= b * HBLOCK_SIZE + image.bin[b].size

\* HvInitialize returns: none of the loader's loops runs forever.
LoadTerminates == <>(pc = "done")

\* HvInitialize implements LoadSpec: an image the writer produced is never
\* rejected and, when loaded, has exactly its free cells on the free lists;
\* a corrupt one is never loaded nor adopted; and HvInitialize returns.
\* HvFree is a step LoadSpec does not see.
Outcome ==
    CASE status = "pending"          -> "loading"
      [] status = "SUCCESS"          -> "loaded"
      [] status = "REGISTRY_CORRUPT" -> "rejected"
      [] status = "NOT_IMPLEMENTED"  -> "unsupported"
      [] OTHER                       -> "failed"

Abstract == INSTANCE LoadSpec WITH
    status <- Outcome,
    free <- IF status = "SUCCESS" THEN free ELSE {}

LoadRefinesSpec == Abstract!Spec

\* HvFree of a hive HvInitialize initialized frees every bin copy, and
\* frees nothing twice and nothing the hive does not own: a flat hive's
\* image, adopted read-only, stays its caller's.
FreedHiveSafe ==
    pc = "freed" /\ status = "SUCCESS" => freedUnowned = {} /\ copies = {}

\* Whatever HvInitialize returned, HvFree of the hive leaves nothing it
\* allocated allocated and frees nothing twice (spec.md: a failed entry
\* point leaves the hive untouched; a hive is destroyed by releasing its
\* bins, its dirty bitmap and its header block).
HvFreeReleasesAll ==
    pc = "freed" => heap = {} /\ copies = {} /\ freedUnowned = {}
=============================================================================
