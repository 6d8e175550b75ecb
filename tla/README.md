# TLA+ models of the ReactOS registry hive library (`sdk/lib/cmlib`)

This directory holds TLA+ models of the hive storage engine in
`src/sdk/lib/cmlib`, the TLC configurations that check them, and
`PROJECT.json`, which maps every definition to the source lines it models
and lists the runs, mutants, findings and hazards.

## The system

A hive is one binary image that holds a tree of registry keys. The library
has six parts:

| Part | Source | What it does |
|---|---|---|
| Allocator | `hivecell.c` (HvAllocateCell, HvFreeCell, HvReallocateCell, HvpFindFree, HvpRemoveFree), `freecell.c`, `cmlib_private.h` (HvpAddFree) | Cuts bins (one or more 4 KB blocks) into 16-byte-rounded cells, with 24 size-bucketed free lists. Freeing coalesces with neighbours. |
| CellAccessor | `HvGetCell.c`, `hivecell.c` (HvMarkCellDirty, HvIsCellDirty, HvTrackCellRef, HvReleaseFreeCellRefArray) | Turns a cell index (type bit, block, offset) into a pointer, tracks dirty blocks of stable storage, and records cell references. |
| NameCodec | `hashkey.c`, `comparename.c`, `compressedname.c`, `cmname.c` | Case-insensitive name comparison, hashing (`Hash * 37 + upcase(c)`), and compressed (one byte per char) names. |
| SubkeyIndex | `cmindex.c`, `cmfindsubkey.c`, `compareindex.c` | The subkeys of a key. A key's list cell is a leaf (`li` index leaf, `lf` fast leaf with name hints, `lh` hash leaf), or an `ri` root over leaves. Supports insertion with growth, conversion, rooting and splitting; deletion with collapse; and lookup by name, hash or ordinal. |
| ValueLookup | `valuename.c`, `valuedata.c` | Finds a value of a key by name in its value list, and reads a value's data (inline when small, otherwise in a cell). |
| HiveLifecycle | `HvInitialize.c`, `create.c`, `hiveload.c`, `memhive.c`, `flathive.c`, `verify.c`, `free.c`, `hivefree.c`, `cmprepare.c` | Creates, loads, verifies and frees hives. Rebuilds free lists after a load. |

How the parts interact: every SubkeyIndex operation obtains cells through
the CellAccessor, and grows, splits and frees index cells through the
Allocator. It compares names through the NameCodec.

The hive is single-threaded by design. The caller holds the hive lock, and
every entry point runs to completion. So the interesting behaviours are
these:
- long sequences of calls;
- the boundaries where cells fill up, grow, split or empty;
- allocation failures in the middle of a multi-step update.

They are not thread interleavings.

The rest of `src/` is outside the hive engine, and spec section 1 places it
out of scope:
- `boot/freeldr/.../arcname.c` parses boot paths;
- `win32ss/gdi/ntgdi/dibobj.c` converts bitmaps;
- `sdk/lib/gcc_ubsan` holds trap handlers;
- `sdk/include/crt` holds C runtime headers;
- `modules/rostests/apitests/opengl32` holds API tests.

## Modules

### `SubkeySet.tla`: what a subkey index promises

An abstract set of subkey names. Add requires an absent name, and Remove a
present one. A restart loses the volatile subkeys (`Volatiles`). `CmIndex`
refines it.

### `CmIndex.tla`: the subkey index of one key (SubkeyIndex)

State (VARIABLES):
- `cells`: the allocated index cells. Each maps to `[sig, list, size]`: its signature, its entries (names in a leaf, leaf cells in a root) and its payload size from `HvGetCellSize`.
- `subKeyCounts`, `subKeyLists`: `KeyNode->SubKeyCounts[t]` and `KeyNode->SubKeyLists[t]` for each storage class.
- `fault`: `"none"`, or what stopped the system: a failed ASSERT in a checked build, a dereference of `HCELL_NIL`, or a `CmpSelectLeaf` loop longer than `MaxSplits`.
- `Version`: `Hive->Version`, chosen from the constant set `Versions` at `Init` and never changed, as a hive's version is fixed when it is created or loaded. One run thus covers hives of several versions.
- `dirty`: the index cells marked in `Hive->DirtyVector` since the last write-out.

Actions:
- `AddSubKey(n)` is the whole of `CmpAddSubKey`. Its parts are:
  - `PrepareIndex`: the first leaf, fast-to-index conversion, and rooting;
  - `CmpSelectLeaf` with `CmpSplitLeaf`;
  - `CmpAddToLeaf` with `HvReallocateCell`;
  - the count update and the store of the (possibly moved) leaf.

  Its guard is that `CmpFindSubKeyByName` misses `n`, as callers check before adding a key.
- `RemoveSubKey(n)` is a key deletion's use of the index. The caller first runs `CmpMarkIndexDirty` (`MarkLoop`, `cmindex.c:27-176`) and gives up when it returns FALSE. The marking loop goes over the storage classes. It marks a root whenever the root search returns a leaf, even one that then misses the name, and it marks the leaf that holds the name. Then comes the whole of `CmpRemoveSubKey`, which writes the leaf and the root in place and marks nothing itself (only `HvFreeCell` marks). The guard is that `n` is in the index. A `CmpAllocate` failure for a compressed name returns FALSE before any mark, so the caller's step changes nothing and is a stutter.
- `CmPrepareHive` is a restart: the hive is loaded again, and `CmpPrepareKey` (`cmprepare.c:54-72`) prepares the key. Volatile storage is not saved, so the volatile index cells are gone (`IndexCells(Volatile)`). `SubKeyCounts[Volatile]` becomes 0, but `SubKeyLists[Volatile]` keeps the stale cell index, as the FIXME at `cmprepare.c:64` says. Every reader in `cmindex.c` and `cmfindsubkey.c` tests the count before the list, so the stale list is harmless while that holds. The mutant `PrepareIndex_ByList` (first leaf created when the list is `HCELL_NIL`) shows the crash that would follow otherwise. The loaded hive starts with a clear dirty vector.
- `HvSyncHive` is a write-out: the dirty blocks go to the file and `dirty` is cleared. It is the caller's persistence point. Its code is not in this library, so it is modelled from the spec.

An operation is computed by a chain of operators over a record `h` that
holds:
- the cells;
- the count and list of the storage class;
- an allocation counter;
- the fault;
- the storage class and the dirty marks.

Each operator returns the new `h`, or a cell and the new `h`, in the order
the C code makes its calls and early returns. `ASSERT` stops only a checked
build (`CheckedBuild`). In a free build the code goes on past it, as the
release binary does.

The lookups are the code's algorithms, with `RECURSIVE` operators for its
loops:
- `LeafSearch` / `RootSearch` / `RootFinal`: the binary searches with their two final probes;
- the hash-leaf scan;
- `CmpFindSubKeyByName` over stable, then volatile;
- `ByNumberInRoot`: walking the leaves and subtracting counts.

Abstractions:
- **Names** are integers that stand for upcased names. Their order is `CmpDoCompareKeyName`. A fast-leaf hint never decides a comparison differently from the full comparison. A hash match is confirmed by a full comparison, so a hash collision never returns a wrong key; the scan is modelled as membership.
- **The allocator** is a pool of cell indexes (`CellIds`). A request of `Size` bytes gets `ROUND_UP(Size + 4, 16) - 4` bytes of payload, or 16 more when the free cell it takes is too small to split (`Size + 16`; chosen per allocation by `SlackAllocs`). An allocation fails when it is the `failAt`-th of the operation or the pool is empty. Reallocation copies the cell and frees the old one.
- **Dirty marking** is kept per cell, at the calls the code makes:
  - `CmpAddToLeaf` (193);
  - `CmpSplitLeaf` (412);
  - `CmpSelectLeaf` on the root (537);
  - the fast-leaf conversion (855);
  - `HvAllocateCell` and `HvFreeCell` (`hivecell.c:239, 376`);
  - `CmpMarkIndexDirty` (120, 163).

  A volatile cell is never marked. This checks that the index asks for every cell it writes. `HvMarkCellDirty`'s own block arithmetic, which can still miss the block (see Findings), is `HvCell`'s subject.
- **Cell reference release** is left out here. It does not change the index.
- **Unsigned arithmetic**: a negative ULONG difference stands for a value of at least 2^31. The code only compares it with entry sizes.

Properties (see the comment above each in the module):
- `TypeOK`;
- `IndexWellFormed`: count versus entries, list versus count (for volatile storage only "a count makes the list valid", because of the stale list), leaves allocated and non-empty;
- `IndexSorted`: names strictly increasing across the leaves, which every binary search needs;
- `LookupAgrees`: find-by-name finds exactly the contents;
- `EnumerationAgrees`: find-by-number enumerates stable and then volatile subkeys in order;
- `NoCellLeak`: every allocated index cell is reachable;
- `EntriesFitCells`: no entry past its cell's payload;
- `NoFault`;
- `AbsSpec`: refinement of `SubkeySet` with `keys <- Contents`;
- `IndexWritesDirty` (an action property): every stable index cell that an add or a removal creates or changes is dirty after the step, so the next write-out carries it. Breaking it takes a root of two leaves, a write-out or a reload, and then the removal of the last name of one leaf. That removal shifts the root in place, and only `CmpMarkIndexDirty`'s root mark at line 120 covers it. The mutant `MarkLoop_NoRootMark` drops that mark.

### `HvCell.tla`: the bin/cell allocator (Allocator, and dirty marking of the CellAccessor)

State (VARIABLES):
- `hdr[t][g]`, `link[t][g]`: the memory of storage class `t`, one entry per 16-byte granule at offset `g`. `hdr` is the `HCELL.Size` LONG at `g`, negative for an allocated cell. `link` is the ULONG at `g + 4`, which is the next free cell of a free cell's list. Values written by earlier cells stay in memory, as in the code.
- `bins[t]`: the bins of the storage, as `[off, size]`. This is `Storage[t].BlockList`.
- `freeDisplay[t][i]`: the heads of the 24 free lists (`Storage[t].FreeDisplay`).
- `dirty`: the dirty stable blocks (`Hive->DirtyVector`).
- `disk`: the persistent content of every stable granule at the last persistence point.
- `owned[t]`: the cells the client holds.
- `saved`: the stable cells the client held at the last persistence point, which are the cells a reload must give back.

Actions:
- `AllocateCell` is `HvAllocateCell`. It rounds the request, then runs `HvpFindFree`: first fit along the bucket chains from the request's bucket up. When nothing fits, it calls `HvpAddBin`. It then splits when the rest is more than 16 bytes, calls `HvpAddFree` for the rest, calls `HvMarkCellDirty` on the rest and the cell, flips the sign and zeroes the payload.
- `FreeCell` is `HvFreeCell`: it merges forward with `HvpRemoveFree`, then scans backward from the bin start. The preceding free cell is grown in place, or moved between lists when its bucket changes.
- `ReallocateCell` is `HvReallocateCell`. It allocates, copies `OldCellSize` bytes and frees the old cell. It only grows.
- `Persist` is a persistence point: the dirty blocks' content goes to `disk`, `dirty` is cleared, and `saved` becomes the client's stable cells.
- `Reload` (in `NextWithRestart`) is a restart followed by `HvLoadHive` of the written image. `HvpInitializeMemoryHive` walks the bin headers of the image (`LoadBins`: a bin size of 0 or not a multiple of the block size fails the load), then `HvpCreateHiveFreeCellList` walks each bin's cells (`ScanFree`). Every free cell goes back on its list through `HvpAddFree`, and a cell size of 0 fails the load. That second failure stands for the code's `FreeOffset += 0` loop, which never ends. The bin size of 0 likewise stands for a loop that never ends. `HiveLoad` models both loops step by step and shows that they never end. Volatile storage starts empty. The client holds `saved` again.

What comes from the spec:
- `HvpAddBin` and the hive writer are not in this source tree, so both are modelled from the spec.
- `HvpAddBin` creates a bin of the request plus its header, rounded to blocks. The bin holds one free cell, which is not on a list, and a stable bin is dirty as a whole.
- `HvpAddBin` fails when the storage would pass `MaxBlocks` blocks.

`DirtyCount` is a statistic that nothing in the library reads, and it is left out.

Properties:
- `TypeOK`;
- `BinsTiled`: the sizes walk each bin exactly;
- `OwnedAllocated`: the allocated cells are exactly the client's;
- `FreeListsExact`: each list is acyclic and holds exactly the free cells of its bucket;
- `FreeCellsCoalesced`: no two free cells are adjacent;
- `FirstFitComplete`: `HvAllocateCell` fails or grows the storage only when no free cell is large enough;
- `CleanBlocksPersisted`: a stable block whose persistent content changed since the last write is dirty. `HvMarkCellDirty` breaks it (see Findings), and no run carries it: `reload_unloadable` shows the consequence.
- `PersistedImageLoads`: the image written at the last persistence point loads, and the allocated cells it holds are exactly `saved`.

`AllocatorView` projects a state onto what the allocator reads: the headers of the cells on the bin walks, the links of free cells, the bins, the lists and the owned cells. Stale memory, the dirty vector and the disk image never influence an allocator decision. The `alloc_stable` run uses the view. The restart runs use `RestartView`, which adds `disk`, `dirty` and `saved`.

Under a `VIEW`, TLC fingerprints only the view and keeps the rest of the state as it was built. `Commit` therefore turns the `hdr` and `link` functions into explicit values (`@@ <<>>`) before they enter a state.

### `CellRefTracker.tla`: the cell reference tracker (CellAccessor)

This module covers `HvTrackCellRef` and `HvReleaseFreeCellRefArray`.

State:
- `staticArray` is the static array, up to `STATIC_CELL_PAIR_COUNT` = 4 entries.
- `cellArray`, `count` and `max` are the dynamic table: all `Max` entries, zeroed past `Count`, and `<<>>` when NULL.
- `tables` counts the dynamic tables allocated and not freed.
- `refs[c]` counts the caller's references to cell `c` that are not yet released.

`HvTrackCellRef` runs after the caller's `HvGetCell`, which adds the reference. It has one action per branch:
- `TrackStatic`: there is room in the static array.
- `TrackDynamic`: there is room in the table.
- `TrackGrow`: a table of `Max + 10` entries is allocated, the old entries are copied in, and the old table is freed.
- `TrackFail`: the allocation fails, and the reference is released.

`HvReleaseFreeCellRefArray` releases every entry and frees the table. `HvReleaseCell` is not in this repository; following the spec, it drops one reference.

Properties:
- `RefsTracked`: every reference held is in the tracker exactly once.
- `TableConsistent`: this checks the functions' ASSERTs, `Count <= Max` and the table allocated exactly when `Max > 0`. It also checks that no replaced table leaks.

`MaxRefs = 15` reaches the full static array, the first table, and its growth from 10 to 20 entries. The two cells are symmetric model values.

### `NameCodec.tla`: key names (NameCodec)

This module holds pure operators, one for each routine. A name is a sequence of UTF-16 code units, and a stored name is a sequence of bytes.
- `CmpCopyName` and `CmpNameSize` (`cmname.c`). Version 1 hives, and names with a character above 255, are copied as UTF-16. Other names are copied one byte per character.
- `CmpCompressedNameSize` keeps its USHORT truncation. `CmpCopyCompressedName` copies up to the destination size.
- `CmpCompareCompressedName` is a `RECURSIVE` loop, `CompareFrom`. It upcases only the characters that differ, and at the end returns the difference of the remaining lengths.
- `CmpDoCompareKeyName` compares by the node's encoding and normalises the result to -1, 0 or 1.
- `CmpComputeHashKey` is the `HashFrom` loop. `HashValue` upcases a to y by hand and goes through `RtlUpcaseUnicodeChar` from 'z' up.
- `KeyName` rebuilds a name from a node the way `cmindex.c` does before every index operation.
- `RtlCompareUnicodeString` and `RtlUpcaseUnicodeChar` are outside this repository. The first is the reference definition: a case-insensitive comparison of the original names. The second is the constant `Upcase`.
- `KeyNode` creates a key node, which is kernel code and so modelled from the spec. The cell holds `CmpNameSize` bytes, `CmpCopyName` fills it, and `KEY_COMP_NAME` is set when the copy returned fewer bytes than UTF-16 would take.

The state is one key node and one comparison. `CreateKey` replaces the key, and `CompareKeyName` compares a search name with it. Init and the inputs range over every name.

Properties:
- `NodeSizeAgrees`: the size allocated is what the copy writes.
- `NameRoundTrip`: the name read back is the name created.
- `CompareAgrees`: the comparison orders names as the reference does.
- `HashAgrees`: names that compare equal hash equally, so a hash-leaf lookup that compares hashes first still finds the key.

The hash is taken modulo 2^32 in the code. An `ASSUME` checks that no hash of a name within the bounds reaches 2^30, so the wrap is never needed there and the sum is kept exact. TLC's integers stop at 2^31.

### `ValueList.tla`: the value list of a key (ValueLookup)

This module uses the `NameCodec` operators through `INSTANCE`.
- `CmpFindNameInList` (`FindFrom`) scans the list. It compares the search name with each value by that value's encoding, and returns the first match's 0-based position and cell, or `Count` and `HCELL_NIL`.
- `CmpFindValueByName` returns only the cell.
- `SetValue` and `DeleteValue` model how the kernel's `CmpSetValueKey` and `CmpDeleteValueKey` use the lookup, and are modelled from the spec. A value not found is inserted at the returned position, and a value found is removed.
- `QueryValue` is `CmpFindValueByName`.
- `names` records the name each value was set with.

The paths that return FALSE when `HvGetCell` fails are not modelled. `HvGetCell` returns the cell header plus one, which is never NULL.

Properties:
- `ValueNamesDistinct`: no two values compare equal.
- `QueryAgrees`: the lookup finds exactly the value whose name equals the query ignoring case.

`valuedata.c` is not modelled. It picks inline data or a data cell by `CmpIsKeyValueSmall`, a header macro outside this repository, on a length whose flag is bit 31.

### `HiveLoad.tla`: initializing and freeing a hive (HiveLifecycle)

`HiveImage.tla` describes the file, with no variables:
- the base block's `Length` and whether `HvpVerifyHiveHeader` accepts it;
- the `HBIN` header at each block (signature, `Size`, `FileOffset`);
- the signed size at each 16-byte offset.

`Written(L)` is the file the writer produces from a layout `L`. A layout is the bins in order, each with its cells' signed sizes. The writer is not in this repository. `Written` puts the bins back to back, and records the image's free cells as `free`.

`LoadSpec.tla` is the contract (spec.md, load entry points and error taxonomy). `HvInitialize` is one step, and it always happens (`WF`). From a file or from memory, an intact image is loaded with exactly its free cells on the free lists, or fails for want of memory or a read; a damaged one is rejected, or fails the same way. A flat image is adopted when its header is sound. A new hive is created or fails. The other operations are unsupported.

`HiveLoad.tla` starts at `HvInitialize`'s switch. `operation` is one of `Operations`, and `FirstStep` is the step it dispatches to. From there it takes one step per call that can fail and per loop iteration:
- `HvpCreateHive` (one base block, no bins);
- `HvpInitializeFlatHive` (the caller's image adopted read-only, after the header check);
- `NotImplemented` (`HINIT_MEMORY_INPLACE`, `HINIT_MAPFILE`; the `ASSERT(FALSE)` there stops only a checked build, and the model follows the free build);
- `HvpGetHiveHeader`;
- `ReadHive` (the rest of `HvLoadHive`);
- `InitializeMemoryHive` (the prologue of `HvpInitializeMemoryHive`);
- `ReadBin`, one iteration of its bin loop;
- `BinsLoaded`, `ScanCell` and `NextFreeBin`, the two loops of `HvpCreateHiveFreeCellList`;
- `AllocDirtyVector`;
- `HvFree`, which the caller may take once `HvInitialize` has returned. For a hive that is not `ReadOnly` it frees `Released`: the dirty vector if set, the block list if `Length` is not 0 (`HvpFreeHiveBins`, which also frees each bin copy the list points to), and whatever `Hive->BaseBlock` points at. Nothing there checks that these are still allocated. When the block list is already freed or NULL, reading it is undefined, and the model lets the copies be freed or not.

`HINIT_MEMORY` starts at `InitializeMemoryHive`, as `HvLoadHive` does after reading the file; the image is then the caller's, never `"data"`.

Every allocation or read failure is an action of its own (`...Fails`), with the frees the code does on that path. `heap`, `copies` and `hiveBase` record the memory the load allocated and not yet freed, and what `Hive->BaseBlock` points at (`"chunk"` for a flat hive's image, which the hive does not own). `freedUnowned` is what `HvFree` freed that was not allocated: a double free, a free of NULL, or the caller's image. The free lists themselves are `HvCell`'s. Here they are the set of cells `HvpAddFree` was given.

Fairness is `WF_vars(Progress)`. `Progress` is `HvInitialize`'s own steps. The failure actions and `HvFree` are left out: a caller need not free the hive. `HvLoadHive` runs to completion on the caller's thread (spec: no function suspends), so a step that can be taken is taken. Nothing in the code makes an allocation eventually fail, so no failure is assumed to happen. Fairness on all of `Next` would be wrong: it would force an always-enabled allocation failure to end a loop that never advances.

Properties:
- `BlockListInBounds`: every block list entry written is below `Length`.
- `FreeCellsInBins`: every cell put on the free lists lies inside one bin, past its header.
- `LoadTerminates`: `<>(pc = "done")`.
- `LoadRefinesSpec`: `LoadSpec!Spec` under the mapping of NTSTATUS to loaded, rejected, failed or unsupported. `HvFree` is a stuttering step of the contract.
- `FreedHiveSafe`: `HvFree` of a hive `HvInitialize` initialized frees every bin copy, frees nothing twice, and never frees the caller's flat image.
- `HvFreeReleasesAll`: whatever `HvInitialize` returned, `HvFree` leaves nothing allocated and frees nothing twice. The code breaks it in several ways (see Findings), so only a violation run checks it.

`MC_HiveLoad.tla` builds the files:
- every layout of up to three 64-byte blocks in bins of one or two blocks, with up to three cells per bin of ±16, 32, 48 or 96 bytes (1,064 files);
- 488 files damaged in ways the loader checks: a bad header, a `Length` under one block, a bad bin signature, a bin `Size` off the block size;
- for the violation runs, damage it does not check: a bin `Size` of 0, a last bin one block too long.

### `MC_CmIndex.tla`

Defines the model constants:
- six names;
- ten cell indexes as model values;
- a storage map with all subkeys stable (the OOM run), or name 6 volatile (the pass run);
- `IndexView`, the pass run's VIEW. It fingerprints the shape of the index (each list cell's record with its leaves' records in place of their indexes) and not which free cell index the allocator happened to pick. Cell indexes are interchangeable: every allocation takes any free one, and the model only compares them for equality. A dangling reference stays visible as `"dangling"`, and unreachable cells are counted, so a leak or a stale pointer still changes the view. Each reachable cell carries its dirty bit. A dirty cell that has been freed is forgotten: allocating it again marks it anyway.

## Runs

| Run | Config | Expect | What it shows |
|---|---|---|---|
| `index` | `MC_CmIndex.cfg` | pass | Hives of version 1 (index leaves), version 3 (fast leaves converted to index leaves at `CmpMaxFastIndexPerHblock`) and version 5 (hash leaves), with five stable names and one volatile name. Every sequence of adds, removes, write-outs and restarts (`CmPrepareHive`, with the stale volatile list) keeps all ten properties. It goes through leaf growth by reallocation, rooting at `CmpMaxIndexPerHblock`, splits, a three-leaf root that must grow, root collapse, cells with and without allocator slack, and the ordinal enumeration across storage classes. About 53,000 distinct view states, about 20 seconds. |
| `index_oom_free` | `MC_CmIndex_oom.cfg` | violation of `IndexWellFormed` | Free build: a failed reallocation in `CmpAddToLeaf` leaves `SubKeyCounts` = 2 and `SubKeyLists` = `HCELL_NIL`. |
| `alloc_stable` | `MC_HvCell.cfg` | pass | Stable storage of up to 4 blocks of 64 bytes. Requests round to 16, 48 and 144 bytes. Every sequence of allocations, frees, reallocations and persistence points keeps the six allocator properties. It goes through splits, whole-cell slack, new bins of one, two and three blocks, forward and backward merges across buckets (including buckets 20 and up) and failure at the storage limit. About 56,000 distinct view states, 30 seconds. |
| `restart` | `MC_HvCell_restart.cfg` | pass | Restarts are allowed (`NextWithRestart`), with stable and volatile storage at once. One 96-byte block per storage holds up to four 16-byte cells, so no cell starts on a block boundary. Each class keeps its own cells and lists, and every load of the written image succeeds, gives back the saved cells (the volatile storage comes back empty), and rebuilds tiled bins and exact free lists. About 1,600 distinct view states. |
| `reload_unloadable` | `MC_HvCell_reload.cfg` | violation of `PersistedImageLoads` | A 16-byte allocation at offset 48 of a two-block bin splits off a free rest at offset 64, on the block boundary. `HvMarkCellDirty` marks no block for it, the write-out leaves junk there, and the reload reads a cell size of 0. |
| `names` | `MC_NameCodec.cfg` | pass | Every name of up to two characters from {A, Z, a, z, '{', É, é, ÿ, Ÿ}, in hives of versions 1 and 3, against every search name. About 17,000 states. |
| `values` | `MC_ValueList.cfg` | pass | Every sequence of sets, deletes and queries with seven value names, making lists of up to three values. The names include pairs that differ only in case and are stored with different encodings ("ÿ" compressed, "Ÿ" as UTF-16). About 2,600 states. |
| `cell_refs` | `MC_CellRefTracker.cfg` | pass | Up to 15 references to two cells. Every growth can fail or succeed, and a release can come at any point. About 33,000 states. |
| `load` | `MC_HiveLoad.cfg` | pass | Every operation over all 1,552 images, with any allocation or read failing, and `HvFree` afterwards. `HvInitialize` always returns, rejects exactly the damaged images, never writes past the block list, and loads each intact image with exactly its free cells. `HvFree` of an initialized hive is safe. About 87,000 states, 20 seconds. |
| `load_zero_bin` | `MC_HiveLoad_zerosize.cfg` | violation of `LoadTerminates` | A bin with `Size` 0 passes the check, and the bin loop never advances. |
| `load_oversized_bin` | `MC_HiveLoad_oversized.cfg` | violation of `BlockListInBounds` | A last bin one block longer than the file writes `BlockList[Length]`. |
| `free_after_failed_init` | `MC_HiveLoad_free.cfg` | violation of `HvFreeReleasesAll` | `HINIT_MEMORY` and `HINIT_FILE`. The shortest violation, which TLC reports: the block list cannot be allocated, so `HvInitialize` returns `NO_MEMORY` with `Hive->BaseBlock` dangling and `Length` set over a NULL list. `HvFree` then frees the base block a second time, and frees the NULL list. |

Bounds:
- `HBLOCK_SIZE = 56` gives capacities of 2 (fast leaves) and 3 (index and hash leaves), and so does the code's formulas. So six names are enough to reach every structural case: conversion, rooting, splitting the first, middle and last leaf, root growth, and removing leaves and roots.
- Ten cell indexes are never exhausted. The worst case is six leaves, a root, a new leaf and a reallocation target at once.
- `MaxSplits = 2` is never reached (`NoFault` holds). One split always makes room.

For the allocator, the block size is 64 bytes instead of 4096, so that bins of several blocks and cells on block boundaries occur within a few cells. The code's arithmetic is the same for any block size that is a multiple of 16.

The names use characters chosen for the code's boundaries:
- 'z' is where `CmpComputeHashKey` stops upcasing by hand;
- '{' is above 'z' and has no upper case;
- 'ÿ' (255) is the largest compressible character, and its capital 'Ÿ' (376) cannot be compressed;
- É and é are Latin-1 letters of both cases.

Two characters are enough for a shorter name that is a prefix of a longer one, and for a mismatch after a match.

The OOM run has `CHECK_DEADLOCK FALSE`, because a stopped system (`fault # "none"`) has no successor. Pass runs check deadlock.

Fairness: the index, allocator, name and value modules assume none and state no liveness property. Each of their operations is one atomic step under the caller's lock. The only "eventually" there is the termination of the `CmpSelectLeaf` loop, and `NoFault` checks it as a bound on the number of splits. `HiveLoad` is the one module whose steps are iterations of a single call. Its weak fairness on the loader's own steps, never on a failure, is explained above. Its runs have `CHECK_DEADLOCK FALSE`, because a hive that is initialized and then freed (or never freed) has no step left.

For the load, three blocks allow two bins after a two-block one and a damaged last bin after an intact one. Three cells a bin allow free cells between allocated ones.

## Findings

- **Failed add leaves the index inconsistent.** `CmpAddSubKey` does not handle a failed `CmpAddToLeaf` (`cmindex.c:919-940`). A free build counts the subkey and overwrites the list with `HCELL_NIL`. This contradicts spec section 7.
- **Allocation failure stops the system.** Every allocation failure in `CmpAddSubKey` is an `ASSERT(FALSE)` followed by `HvGetCell(HCELL_NIL)` (`cmindex.c:800`). Spec section 4.1 says an allocation failure is fatal to the operation, not to the hive. The model has it (`CheckedBuild = TRUE` with `MaxFailAt > 0` violates `NoFault` at the first failure); the OOM run shows the free build.
- **Dirty marking misses blocks** (`hivecell.c:77-81`). `HvMarkCellDirty` sets `CellLastBlock - CellBlock` bits, with `CellLastBlock` taken from `CellIndex + HBLOCK_SIZE - 1` instead of the cell's end. So it marks one block for a cell that does not start on a block boundary, and none for one that does. A write-out after such a change leaves stale blocks on disk. Spec section 4.2 says the bits span the cell. `CleanBlocksPersisted` states it; `reload_unloadable` is the run that shows where it leads.
- **The written image may not load** (`hivecell.c:235`). The same dirty marking misses the header of a free rest that `HvAllocateCell` splits off on a block boundary. After a restart, `HvpCreateHiveFreeCellList` reads whatever the disk held there. TLC shows a size of 0, which the code's loop never advances past. The spec's glossary says the dirty bitmap covers every stable block modified since the last persistence point, and the write-out relies on that.
- **Hash leaves are kept sorted.** The code keeps hash leaves in name order (sorted insertion in `CmpAddToLeaf`) and relies on it: binary search in `CmpRemoveSubKey` and in the root search. Spec section 3 says hash leaves are unordered.

- **A bin of size 0 hangs the load** (`memhive.c:76`). `Size % HBLOCK_SIZE == 0` accepts 0, and `BlockIndex += 0` loops forever. Spec: corruption must be rejected, not crash the process.
- **A bin past the end overruns the block list** (`memhive.c:100-104`). `Bin->Size` is never compared with `Length`.
- **A free cell past its bin is loaded** (`freecell.c:72-78`). Its claimed size is trusted. `FreeCellsInBins`, which the `load` run checks over the files the writer produces, is what such a file breaks; no run loads one.
- **HvFree after a failed HvInitialize frees memory twice** (`memhive.c:68`, shown by `free_after_failed_init`). Failures leave `Hive->BaseBlock` pointing at a freed block (`hiveload.c:130`, `memhive.c:68, 81, 89, 124`), and `Length` set over a freed or NULL block list (`memhive.c:61, 80, 88`, `free.c:42-43`). `HvFree` frees both again. Spec: each load entry point leaves the hive fully initialized or fully untouched on failure, and an untouched hive may be freed.
- **Memory leaks of the load.** `HvpGetHiveHeader` leaks its base block when the read or the check fails (`hiveload.c:52, 55`). A rejected bin leaves the copies of the bins before it allocated (`memhive.c:80`). Every successful file load leaks the file buffer, which `HvLoadHive` frees only on failure (`hiveload.c:133-137`), and `HvFree` cannot reach it. The `free_after_failed_init` run loads from memory and from a file, so each of these leaks is a reachable violation of `HvFreeReleasesAll` there. TLC reports only the shortest violation, the double free. An instance with `HINIT_FILE` alone stops at the header leak of `hiveload.c:52` instead, after `GetHeaderFails` and `HvFree`.

## Not modelled yet, and the plan

In order of importance:

1. **HiveLifecycle**: the header checksum (a 32-bit XOR beyond TLC's integers; `HvpVerifyHiveHeader` is one flag of the image), and `CmpPrepareIndexOfKeys`'s walk of a whole key tree (`CmIndex` has one key, and the walk does the same reset at every key).
2. Indexes loaded from older hives, for example fast leaves under a root, as initial states of `CmIndex`.
3. Compose `CmIndex` with `NameCodec`, so that index names are real names rather than upcased integers.
