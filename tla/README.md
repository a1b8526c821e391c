# NTREG: a TLA+ model of the registry library

NTREG is a user-mode registry: hive files in the format of the Windows registry,
keys and values in them, and tools that create, import and browse hives.  This
directory holds TLA+ modules that model it, the configurations under which TLC
checks them, and theorems whose proofs TLAPS checks.  Source paths are relative
to `src/`.

To check something:

    tlc -workers 2 -config MCHiveCells.cfg MCHiveCells.tla
    tlapm HiveCellsProofs.tla

## 1. The system

The program is sequential.  It has no threads, its locks are empty macros, and
its callbacks (`FileWrite`, `FileRead`, `FileFlush`, `Allocate`, `Free`) return
before the caller goes on.  What makes it hard is something else: long sequences
of calls on a hand-made heap, files that are written block by block and can be
left half-way, recovery code that hardly ever runs, and state that lives in
memory, in a file and in a log at once.

| Component | State it keeps | Operations | What makes it correct |
|---|---|---|---|
| Cell allocator (`core/hivecell.cpp`, `core/hivebin.cpp`) | two stores of blocks, bins in them, cell headers in bins, 24 free lists, dirty bits | `HvAllocateCell`, `HvReallocateCell`, `HvFreeCell`, `HvMarkCellDirty`, `HvpAddBin`, `HvpCreateHiveFreeCellList` | cells tile bins, lists match headers, free neighbours are merged, cells in use never overlap, every change is marked dirty |
| Flush, log, recovery (`core/hivewrt.cpp`, `core/hiveinit.cpp`, callbacks in `core/cmi.cpp`) | base block with two sequence numbers, primary, log and alternate file | `HvSyncHive`, `HvWriteHive`, `HvWriteAlternateHive`, `HvLoadHive`, `HvSyncHiveFromRecover` | what was saved survives; after a crash one whole image comes back, or an error |
| Cell references (`core/hivecell.cpp`) | a static and a growing array | `HvTrackCellRef`, `HvReleaseFreeCellRefArray` | each reference is released once |
| Bitmap (`core/bitmap.cpp`) | none, functions on words | find, set and clear runs | agrees with a set of bits |
| Hive creation, memory hives (`core/hiveinit.cpp`, `core/cminit.cpp`, `core/hivesum.cpp`) | the descriptor | `HvInitialize`, `CmCreateRootNode` | a new hive is empty and sound |
| Subkey index (`core/cmindex.cpp`) | leaves, hash leaves, roots, as cells | `CmpAddSubKey`, `CmpRemoveSubKey`, `CmpFindSubKeyByName`, splitting | sorted, complete, every name found through every form |
| Values (`core/cmvalue.cpp`, `core/cmname.cpp`, `core/reg_valops.cpp`) | value lists, value and data cells | add, remove, set, copy | a value's data lie in its own cell; failures leave nothing behind |
| Keys and security (`core/cmi.cpp`, `core/cmkeydel.cpp`, `core/cmse.cpp`) | key nodes, shared security cells with reference counts | `CmiAddSubKey`, `CmpFreeKeyByCell`, `CmpFreeSecurityDescriptor` | a count is never below the number of keys that use the cell, also after a reload; no key is lost |
| Check and heal (`core/cmcheck.cpp`, `core/cmheal.cpp`) | a stack of keys on the way | `CmCheckRegistry`, the `CmpValidate...` and `CmpRepair...` functions | ends, accepts sound hives only, repairs no more than is damaged |
| Front end (`core/reg*.cpp`), C++ API (`core/registry_api.cpp`) | key handles, reparse points, the list of hives, a global instance | open, create, query, delete; initialise, shut down | a handle means the key it was opened for; initialisation can fail and be repeated |
| Tools (`tools/`, `core/binhive.cpp`, `core/hive_init.cpp`) | files | import of `.inf` files, export | straight-line use of the above |

How they interact: the front end resolves a path key by key through the subkey
index, crossing from hive to hive at reparse points; keys, values and indexes are
cells, which they take from the allocator and mark dirty when they write to
them; the dirty bits tell `HvSyncHive` which blocks to write; loading builds the
allocator's state from the blocks in the file, replayed from the log if the
header asks for it.

The hazards of the code, each with its line and the properties aimed at it, are
listed under `hazards` in PROJECT.json.

## 2. Modules

    CellHeap        what an allocator promises             (abstract)
      ^ implemented by
    HiveCells       bins, cells, free lists, dirty bits     MCHiveCells    HiveCellsProofs
      ^ extended by
    HiveDisk        + which blocks differ from the file     MCHiveDisk     HiveDiskProofs

    DurableHive     what a backing store promises           (abstract)
      ^ implemented by
    HiveSync        files, sequence numbers, log, recovery  MCHiveSync     HiveSyncProofs,
                                                                           HiveSyncLogProofs

    SubkeySet       what an index of subkeys promises       (abstract)
      ^ implemented by
    SubkeyIndex     leaves, roots, splits, searches         MCSubkeyIndex

    KeyTree         what a registry promises of its keys    (abstract)
      ^ implemented by
    Registry        sessions, paths, handles, files         MCRegistry     RegistryProofs
      ^ extends
    KeyCells        keys and security descriptors as cells

    ValueMap        what the values of a key promise        (abstract)
      ^ implemented by
    ValueCells      lists, values and data as cells         MCValueCells   ValueCellsProofs

    RegistryCheck   the check of a hive and its repair      MCRegistryCheck RegistryCheckProofs

### HiveCells

The two stores of a hive, stable and volatile, never meet in the allocator: the
type bit of a cell index selects one, and a reallocation keeps it.  The module
models one store as a record `dual`, named for the code's `DUAL`.

| TLA+ | Code |
|---|---|
| `Length`, `BlockList`, `FreeDisplay` | the fields of `DUAL`; `BlockList[b]` is the block where the bin of `b` starts (`BinAddress`) |
| `BinSize[b]` | `HBIN.Size`, in blocks, of the bin that starts at `b` |
| `Cell[o]` | `HCELL.Size` at offset `o`, in units; 0 where no cell starts |
| `FreeDisplay[k]` | the list that the code links through the free cells themselves |
| `Dirty` | `DirtyVector` |
| `AllocateCell`, `ReallocateCell`, `FreeCell`, `MarkCellDirty` | the four operations, each the whole function with all that it calls |

Sizes are in units of 16 bytes.  `HvAllocateCell` rounds a request and its header
up to 16 bytes and bins are multiples of 4096 bytes, so no other size arises.
`HvpComputeFreeListIndex` is the code's table in units.  The contents of
cells are left out, as are the checks for damaged stores in `HvAllocateCell`
(`bCanSplit`), which the proved tiling shows never to refuse.  The argument
`memory` of an allocation says whether the allocation of a bin would succeed.
The bound `MaxBlocks` acts as a failing allocation, too.

### HiveDisk

Adds to the stable store the set `stale` of blocks of which the file lacks something
that a load reads: a cell header, or the contents of a cell in use.  The links of the
free lists are not counted.  They stand in free cells, and the code changes them without
a dirty bit: `HvpFindFree` and `HvpRemoveFree` unlink through another free cell, perhaps in
another block (`core/hivecell.cpp:331`, `:254`), and a load enters every free cell in a list
(`:382`, by `:225`).  So a clean block may hold other links in the file than in memory.  No
load reads them; it makes the lists from the headers.  `NewHeaders` are the blocks of cell headers that an
operation wrote, found by comparing the two stores; `Taken` the cell that
`HvAllocateCell` fills with zeros and that a caller then owns; `WriteCell` a
caller's write to all of its cell followed by `HvMarkCellDirty`, as in
`NTRegSetValueExW`.  `HvSyncHive` writes dirty blocks, which cease to be stale, and
`HvpInitializeFileHive` loads the store and rebuilds the free lists.  The walk of
`HvpCreateHiveFreeCellList` over the bins is a fold over the free cells in ascending
order, the order in which the code meets them.

### HiveSync

Files are functions from places (header, bitmap of the log, blocks) to contents.
`disk` is what a file holds for certain, `pending` what has been written since
its last flush.  The blocks of the log are packed, as in the code: its n-th
place holds the n-th dirty block.  A call is the list of its file operations,
computed when it starts (none of them depends on the result of an earlier one,
except that a failure ends or redirects the call); each carries the sequence
numbers the header in memory has by then and what the code does if it fails.

| TLA+ | Code |
|---|---|
| `hive` | `Storage[Stable]`, `DirtyVector` and `BaseBlock` |
| `HvpWriteLog`, `HvpWriteHive`, `HvpTruncateLog`, `HvpRecoverDataFromLog`, `HvpRecoverHeaderFromLog` | the operations of the functions of these names |
| `HvSyncHive`, `HvWriteHive`, `HvWriteAlternateHive`, `HvLoadHive` | the beginning of the call, with its early returns |
| `StepSucceeds`, `StepFails` | one call of `FileWrite`, `FileFlush` or `FileRead` returns |
| `HeaderRecovered`, `DataRecovered`, `SaveReturns`, `LoadReturns` | the code between and after the lists of operations |
| `Crash` | the process stops, anywhere |
| `promised`, `attempts` | history: the image a call last reported as saved or loaded, and those that calls tried to save since |

What a crash leaves: of the unflushed writes to a file, a first part in the order
of writing, the last of them perhaps torn; files are independent of each other.
In the log the header and the bitmap are one write and may be separated.  A
header of 512 bytes is one sector and is not torn by default; `TornHeaders` lifts
this.  `CmpFileFlush` calls `fflush`, which the model takes for a flush to
the disk: against a loss of power this is an idealisation, against the end of
the process it is exact.

The shipped program opens hives with `HFILE_TYPE_PRIMARY`, hence without a log
(`fileType = "PRIMARY"`).  The library has the other types, which
`HvInitialize` accepts, and its log and recovery code is written for them.

Left out: time stamps (`KeQuerySystemTime` always returns zero, so that comparing
them always succeeds); self-healing (`CmIsSelfHealEnabled` returns
FALSE here); the header's other fields and checksum, which a torn header fails; and the field
BootRecover, with which another program can ask a load to set all dirty bits
(`core/hiveinit.cpp:557`): nothing in this one writes it, and no property here reads it.

### SubkeyIndex

The index of one stable key: per storage type a leaf, or a root over leaves.

| TLA+ | Code |
|---|---|
| `Cell[c]` | the index in the cell `c`: `Signature`, `List` (with `Count`) and the size of the cell |
| `Dirty` | the stable index cells, and the key's own (`ParentKey`), that `HvMarkCellDirty` and the allocator have marked |
| `SubKeyCounts`, `SubKeyLists` | the fields of `CM_KEY_NODE` |
| `Narrow`, `Round` | the loop of both binary searches, over a leaf and over a root, and one round of it |
| `CmpAddSubKey` = `Prepare`, `ChooseLeaf` (`CmpSelectLeaf`, `Candidates`, `Selected`, `CmpSplitLeaf`), `EnterSubKey` (`CmpAddToLeaf`, `PointTo`) | the function in its order: form of the index, leaf, entry, and who points to the leaf now |
| `CmpMarkIndexDirty`, `CmpRemoveSubKey` | the two functions; the first marks what the second changes |
| `CmiAddSubKey`, `NTRegDeleteKeyW`, `HvSyncHive`, `LoadHiveDataIntoRegistry` | the actions, reduced to what they do to the index |

A subkey is the pair of its storage type and its name, which is what the index
tells apart; the subkey's own cells belong to other modules.  Names are
numbers, since the index only compares them; hints and hash keys are functions
of names and a full comparison follows where they agree.  Cell sizes are real
(`CellSize` rounds like the allocator), entries have 8 or 4 bytes, and growth is by a half
as in the code, so that `EntriesFit` speaks of bytes.  Allocations
succeed, because `CmpAddSubKey` declares the other case not handled.  Versions
are 3 to 5: the load refuses hives of an older minor version.

### KeyCells and Registry

KeyCells is a hive as a record: `cell` gives each cell a key node, a security
descriptor or nothing, `dirty` the blocks that are marked.  Its operators are the
functions of `core/cmi.cpp`, `core/cmkeydel.cpp` and `core/cmse.cpp`, each from one
hive to the next.  The subkeys of a key are a set here, since SubkeyIndex shows that
the index acts as one.

Registry is the life of the library over several processes: the SYSTEM hive in
memory, in its file, and between them the `FILE` that it was opened with.

| TLA+ | Code |
|---|---|
| `phase` | down; loaded from the file; or a hive in memory, from `InitializeFromInf` or from an initialisation that failed |
| `handle` | the `FILE` of the hive: none, open, or closed by the export and still referred to |
| `api` | the global instance of the C++ API, set before the initialisation that may fail |
| `link` | the entry of `CmiReparsePointsHead` for `CurrentControlSet`: two cell offsets; the path of the target, and that it was deleted, is history |
| `key` | a handle, which is the offset of a cell; its path is history |
| `InitializeLoads`, `InitializeFails`, `InitializeFromInf` | `RegInitializeRegistry` with the file at hand, without it, and for an import |
| `SaveRegistryIntoHive`, `RegShutdownRegistry`, `Exit` | export, shutdown, and the end of the process without one |
| `NTRegCreateKeyExW`, `NTRegOpenKeyW`, `NTRegCloseKey`, `NTRegDeleteKeyW` | the operations on keys, by a path from the root or from the handle, through the link |

A call is one step: the program is sequential, and crashes in the middle of
a save are the subject of HiveSync.  The program ends, or nothing is written, when
a shutdown writes through a `FILE` that is closed or was never opened; what a walk
through a link whose target was deleted does is undefined, and ends the walk.
Program-made hives keep root and descriptor in one block, which is written in every
session because making `CurrentControlSet` marks the root; each session so
raises the count in the file by one for a volatile key that is not in it, which
is why `DescriptorsSound` bounds counts from below only.  A file of another
program (`ForeignFile`) may have more descriptors.

KeyTree is the promise: a tree of keys, of which the part that no volatile key is
above is saved and found again.

### RegistryCheck

The file is a tree of keys in which up to two fields were written wrongly: any
field of a key, a value or a list that the check looks at, or the size of a cell
in a bin.  `CmCheckRegistry` starts the walk; `Validate` and `Descend` or `Return` are
the two halves of a turn of the loop in `CmpValidateRegistryInternal`, and `WorkState`
is its stack.  A validation is an operator from a hive to the hive that it leaves
behind and its verdict; `Then` puts them in the order of `CmpValidateKey`.  A bad key is
taken out of its parent unless it is the root (`Removable`); for a key that is good
but out of order the code does not ask whether it is the root, which a cycle can bring
back below itself.

`TreesAssumption` says what the trees are before the damage: each cell has the `ShapeOf` its
kind, and no two keys have one list of values.  `SoundnessAssumption` says that it was a
tree: every key is sound, all hang from the root key, the subkeys of a key stand in the
order of their names, and a leaf below a root is in no other root and no index of its
own.  `BlocksAssumption` says that the bins were valid.

The model follows the code where it is lenient: `HvIsCellAllocated` only asks
whether the block exists; two compressed names are not compared; a cell that
crosses the end of its bin but is no longer than the bin is accepted; removed keys
keep their cells, which leak; a key that two lists name is given the parent that the
walk came from last.  Left out: volatile cells, which a loaded hive has none of;
entries that lead to cells which are not keys; allocating the stack.  No caller in
the repository passes `FIX_HIVE`, so that the repair is library code.

### ValueCells

One stable key and one volatile key, the cells of both stores, and the file.

| TLA+ | Code |
|---|---|
| `CHILD_LIST`, `CM_KEY_VALUE`, `KeyList`, `Data` | the cells of a key (its list of values), a value, a list, and data |
| `CmpAddValueToList`, `CmpRemoveValueFromList`, `HvReallocateCell` | the list: rounding by batches, moves, and their failure |
| `NTRegSetValueExW` = `Found`, then `SetInline` or `SetData` | find or enter the value; then data in the value or in a cell |
| `DataCellSize`, `ULONG` | the size of the old data as the code computes it, negated and unsigned |
| `CmpFreeKeyByCell` with `CmpMarkKeyDirty`, `Emptied` | a key is deleted with its values, and made anew in the same place |
| `NTRegDeleteValueW`, `CmpCopyKeyValueList`, `Flush`, `Reload` | the other actions |
| `overrun` | data have been copied past the end of their cell; the behaviour ends |
| `stranded` | history: data cells whose value was volatile and is gone |

An allocation fails when the store has no free cell.  Sizes of lists and data are
in bytes, and `CellSize` rounds like the allocator.  A value whose data cannot be
allocated stays in the list without data (`Void`).  The data of volatile values
go to the stable store, as in the code, and are stranded there by a save and a
reload.  Since the size comparison of `SetData` always takes the old cell
for large enough, the code that would free it (`Replaced`) is never reached with old
data; longer data end the behaviour, and the passing properties hold up to that
point.  `CmpCopyKeyValueList` has no caller in the repository; it copies here from the
stable to the volatile key.

### CellHeap, DurableHive, SubkeySet, KeyTree and ValueMap

The abstract specifications.  A `CellHeap` is a set of extents that do not
overlap, each of which only its owner gives up or moves.  A `DurableHive` has a
promised image; an interrupted save may replace it, but only as a whole, and a
load decides.  A `SubkeySet` is a set of subkeys with distinct names, of which a reload
drops the volatile ones.  A `KeyTree` is a tree of paths, and a `ValueMap` two maps from
names to data, with what of them is saved.  The detailed modules instantiate them with
refinement mappings (`Heap`, `Durable`, `Set`, `Abstract`, `Values`), and `HeapSpec`,
`DurableSpec`, `SetSpec`, `TreeSpec` and `MapSpec` are checked as properties.

## 3. Runs

| Run | Question | Result |
|---|---|---|
| `cells` | Does every order of allocating, reallocating and freeing keep bins tiled, lists exact, free cells merged, and act as a heap? | holds |
| `disk_one_block` | Is every block dirty of which the file lacks a cell header or contents of a cell in use, and are the lists exact after a reload, if cells fit into one block? | holds |
| `disk_many_blocks` | The former without that restriction | violated |
| `sync_saves` | No log, or an alternate file that shares the sequence numbers; failing operations: does what was saved survive, and is a load all or nothing? | holds |
| `sync_log` | With a log, torn headers, failures during saves and recoveries: is what was reported durable, and does the log hold, at every crash point, what the primary file lacks? | holds, the latter until an operation fails |
| `sync_crash_twice` | Can a second crash, during recovery, hide damage? | violated (it can) |
| `subkey_index` | Through every order of creating and deleting subkeys, syncing and loading: is each found by name and number, is no index cell lost or overrun, is every change dirty, does the load accept it? | holds |
| `registry` | Over two sessions of creating, deleting, exporting, shutting down and exiting, with failures to enter a key: are counts, tree, handles and file in order, and do keys come back as promised? | holds |
| `registry_reload` | Does a key always name a security descriptor, in a hive of several blocks with two descriptors? | violated |
| `check` | Whatever two fields are damaged: does the check end, is its verdict on the keys right, does a repair mark what it changes and lose no more than it must? | holds |
| `values` | Through setting, deleting, copying, deleting keys, failing, flushing and reloading: does every cell have one owner, do lists fit, is each key a map? | holds |
| `value_grow` | Do data always fit into the cell they are copied to? | violated |

The properties and what they protect from:

- `CellsTileBins`: the walks over headers in `HvFreeCell` and at load time see every
  cell and stop where the bin stops.
- `FreeListsExact`: no free cell is lost, listed twice or on the list of a size
  it no longer has; the `ASSERT(FALSE)` of `HvpRemoveFree` is not reached.
- `FreeCellsCoalesced`: merging is complete in both directions.
- `GrowsOrFailsOnlyWhenFull`: the search by classes is complete.  Said in every state of every
  request that could come, since a call that fails is a stuttering step, of which an action
  property says nothing; and of reallocations that move their cell as well.
- `HeapSpec`: no operation disturbs a cell in use.
- `StaleBlocksAreDirty`: of a block without a dirty bit the file has the cell headers and the
  contents of the cells in use, so that a flush leaves out nothing that a load reads.
- `SyncedIsDurable`: after a reported save, every outcome of a crash is a sound
  file with exactly that image.
- `DurableSpec`: atomicity of saves, across any number of crashes.
- `LogCoversUntilFailure`: at every crash point before the first failed operation, for all that may survive of both files,
  replaying the log gives a whole image.
- `EntriesFit`: the decision to grow a leaf or a root comes before its cell is full,
  also in a cell that a fast leaf left to a plain one.
- `NoCellLost`: the root or the key follows every leaf that moves, and every index
  cell is referred to once: none leaks, none is used after it was freed.
- `FoundByName`, `FoundByNumber`: the searches find every subkey and nothing else;
  enumeration goes on in the volatile index where the stable one ends.
- `LoadAccepts`: the check at load never calls damaged what the program built.
- `ChangesAreDirty`: an action property; removal depends on a search made before it.
- `SetSpec`: no subkey vanishes, is entered twice or in both stores.
- `NoTornBlock`: what the comments of the recovery code promise.
- `DescriptorsSound`: no deletion frees a descriptor that a key still uses, and the
  ring stays a ring, also after half-made keys and reloads.
- `OnlyStrandedKeysLost`: a failed creation leaves no key behind, and a
  reload strands only what was stable below a volatile key.
- `HandleKeepsItsKey`: a cell is not taken again while a handle means its key,
  unless that very key was deleted.
- `LinkKeepsItsKeys`: the same of the two cells that the reparse point holds: its source is
  always CurrentControlSet, its target ControlSet001 until that is deleted.
- `SavedIsAccepted`: whatever was written at whatever moment passes the check at the
  next start.
- `TreeSpec`: the tree of keys across sessions; in particular a failed
  initialisation or an export leaves nothing that a later session would write.
- `VerdictIsRight`: a check that repairs nothing accepts exactly the sound hives, but for
  those deeper than its stack, and a repair leaves a sound one or one with a key that two
  lists name, over any number of restarts.  Sound is said of the keys: of a wrong cell header it
  requires only that a hive with nothing wrong is not refused, since `HvValidateBin` accepts some.
- `ChangesAreMarked`: a repair is not lost at the next load.
- `OnlyDamagedKeysLost`: a repair takes no healthy key with it, except for one whose
  sibling before it got a wrong name.
- `CheckEnds`: liveness; restarts and cycles cannot go on for ever.
- `CellsOwnedOnce`: every cell in use is referred to once, by a key, a list or a value
  (`References`); failures half-way leak no cell and leave none with two owners.
- `ListsFit`: growing, batches and shrinking leave room for all entries.
- `ChangesAreDirty` (of ValueCells): marking precedes the change, and follows the list
  when it moves.
- `MapSpec`: a call changes one value or none; a copy is whole or undone.

### Bounds

- HiveCells: `HBLOCK` is 7 units instead of 256, and there are three blocks, in
  which bins of one and of two blocks stand side by side.  Requests make cells of
  2, 4 and 8 units; free cells have from 2 to 12, which lie in the linear and the
  logarithmic size classes and in several of the former.  The theorems below
  lift the bounds.
- HiveDisk: two blocks of 10 units for the positive run, three of 6 for the other.
- HiveSync: two blocks (three in `sync_log`, so that the log packs a subset of
  blocks with a gap), two or three changes, and sequence numbers that allow three
  to five saves: enough for a save that meets the remains of an interrupted one.
  At most one failing operation while saving and one while loading; any number
  of crashes.

- SubkeyIndex: a fast leaf holds 2 names instead of 507, another leaf 4 instead of
  1013, and there are six names, one of which can also be volatile.  That makes roots of
  three leaves, with a leaf between two others; roots that grow; leaves that are split and
  grow below a root (with a limit of 3 a leaf has its final size when it comes
  under a root); leaves and roots that vanish and come back.  The halves of a split leaf
  are equal at this limit, while the code's is odd and makes them differ by one.  A fast leaf of this size has
  grown once when it is converted.

- Registry: room for three keys besides the defaults and their descriptor, two
  volatile; two sessions, three calls that change keys, one failure.  That is enough
  for a key below the link, one below a volatile one, a cell that is taken again
  under an open handle, and a save that meets all of these.  One name serves
  at every level, so that a key and the one below it differ in their paths.  All
  stable cells lie in one block in `registry`, each in its own in `registry_reload`.
- RegistryCheck: four keys on three levels, two values, one leaf or a root with two
  leaves; every pair of damaged fields, or one damaged cell header out of three bins.
  The limit of depth is 6 instead of 512, which a cycle reaches.
- ValueCells: five stable and three volatile cells, three names (symmetric), payloads
  of 0, 4, 8 and 20 bytes, five calls, of which enough fail.  Entries of a
  list take 8 bytes instead of 4 and come in batches of 2 instead of 100, so that lists
  grow, move and shrink with three entries.  Lists longer than a block, which the code
  rounds to blocks, do not occur.

`CHECK_DEADLOCK` is on for the hive, sync and index runs.  It is off for
`registry`, `registry_reload`, `values` and `value_grow`, where the bounds on calls end a behaviour
(as does an overrun), and for `check`, which stops with its verdict.

### Fairness

RegistryCheck assumes `WF_vars(Next)`: the check is a loop in one thread that
nothing waits for, so it goes on while it can.  `CheckEnds` rests on it.

The other modules assume none, and their properties are about safety.  A crash is possible
in every state and a bound on changes and sequence numbers ends the interesting
part of a behaviour, not the behaviour: a hive that is up can crash and load
again.

## 4. Disagreements between the code and its own words

Four runs are expected to end with a violation; PROJECT.json quotes the line in
each case.

1. `disk_many_blocks`: `HvMarkCellDirty` marks at most the first block of a cell
   (`core/hivecell.cpp:128`), so that changes to later blocks of large cells never reach
   the file.
2. `sync_crash_twice`: the header is recovered before the data (`core/hiveinit.cpp:1004`);
   a crash in between makes a torn file look sound.
3. `registry_reload`: creating a subkey raises the count of its descriptor without
   marking the descriptor dirty (`core/cmi.cpp:394`).  In a hive whose descriptors lie in blocks of
   their own the count in the file is too low, and after a reload deleting one key frees the
   descriptor of another.
4. `value_grow`: `NTRegSetValueExW` negates a size that is positive already
   (`core/reg_valops.cpp:194`), takes every old data cell for large enough, and copies
   longer data over the cells behind it.

Further ones are stated as formulas and have no run of their own.  Each is found
within seconds by a configuration like `HiveSyncCrashTwice.cfg` (or `RegistryCheck.cfg`)
that names the formula as its only invariant, with the constants given here.

5. `RecoveredIsFlushed` (HiveSync, `TornHeaders = FALSE`): a hive replayed from its log cannot be flushed
   (`core/hiveinit.cpp:1457`): the header keeps its two different numbers and
   `HvpWriteHive` refuses them, so the load fails, now and every time.
6. `NoTornBlock` (HiveSync, `TornHeaders = FALSE`, `MaxLoadFaults = 1`): the fallback from data recovery to "full
   header+data recovery" recovers the header only (`core/hiveinit.cpp:1203`).
7. `LogCovers` (HiveSync, `TornHeaders = FALSE`, `MaxSyncFaults = 1`, `MaxChanges = 3`): a sync
   that is retried after its last header write failed rewrites the log the file on
   disk still needs (`core/hivewrt.cpp:301`).
8. `AlternateIsBackup` (HiveSync, `FileTypes = {"ALTERNATE"}`): after a crash between primary and alternate file
   the alternate one is brought up to date only in newly dirty blocks
   (`core/hivewrt.cpp:394`).
9. `LeavesStayFilled` (RegistryCheck): a repair that takes the last entry out of a leaf
   leaves the empty leaf in the root (`core/cmheal.cpp:239`), where the search by name
   asserts that there is none (`core/cmindex.cpp:173`).

## 5. Proofs

The theorems hold for every value of the constants that the named assumptions allow.
TLC evaluates these assumptions in the runs; there are no others.

### HiveCellsProofs

For every `HBLOCK` above 3, every `MaxBlocks`, every set of requests and either store:

| Theorem | States |
|---|---|
| `TypeCorrect` | `Spec => []TypeOK` |
| `TilingCorrect` | `Spec => []CellsTileBins` |
| `ListsCorrect` | `Spec => []FreeListsExact` |
| `CoalescingCorrect` | `Spec => []FreeCellsCoalesced` |
| `FirstFitComplete` | `Spec => []GrowsOrFailsOnlyWhenFull` |
| `ImplementsHeap` | `Spec => HeapSpec` |

`HBLOCK > 3` says that a bin of one block has room for its header and a cell of two
units; the code's is 256.

The invariant.  None of the properties is inductive alone.  `HvFreeCell` finds the
left neighbour by walking over the tiling; it may unlink neighbours because the
lists are exact; the lists stay exact because a cell is listed by its header's
size; merging one neighbour on each side is enough because free cells are merged
already.  The inductive invariant is therefore the conjunction of types, tiling,
exact lists and coalescing.  In the middle of an operation one free cell is on no
list: `ListsBut(d, X)` says that the lists are exact but for the cells `X`, and an
operation is followed from `ListsBut(d, {})` through `ListsBut(d, {o})` back again.

The lemmas go bottom up: size classes (`ClassMonotonic`), sequences without a
repetition (`PushFacts`, `RemoveAtFacts`, `UnlinkFacts`), block arithmetic (`BlockBounds`,
`SameBin`), the three ways a tiling changes (`SplitTiles`, `JoinTiles`, `AddBinTiles`),
the search (`FindFreeFacts`), and one lemma per operation.  `FirstFitComplete` rests
on exact lists and on the monotonicity of the size classes; `AllocateGrowsOrFails` shows it
of an allocation, and `ReallocateGrowsOrFails` of one inside a reallocation, where freeing
the old cell afterwards neither grows the store nor undoes anything.  `ImplementsHeap` shows
that every step takes, gives or moves one extent or leaves the set alone.

### HiveDiskProofs

| Theorem | States |
|---|---|
| `DiskTypeCorrect` | `DiskSpec => []DiskTypeOK` |
| `LoadedListsCorrect` | `DiskSpec => []FreeListsExact` |
| `DirtyBitsComplete` | `OneBlockRequests /\ DiskSpec => []StaleBlocksAreDirty` |

The operations of the allocator keep the invariant of HiveCells by the lemmas of
HiveCellsProofs; new is the load, which makes the free lists anew.  The fold of
`HvpCreateHiveFreeCellList` is followed by a minimal counterexample on the number of
cells walked over: were the lists wrong after some cells, they would be wrong after fewer.

`DirtyBitsComplete` says of each operation in which blocks it changes cell headers or contents
of cells in use, and that it marks these; it says nothing of the links in free cells, which
the code does change in clean blocks.  Its premise `OneBlockRequests` (every request fits into a bin of one block)
cannot be dropped: the run `disk_many_blocks` violates the property without it.

### HiveSyncProofs

| Theorem | States |
|---|---|
| `TypeCorrect` | `Spec => []TypeOK` |
| `SavesDurable` | `Spec => []SyncedIsDurable` |
| `ImplementsDurable` | `Spec /\ ~Log => DurableSpec` |

The invariant `IInv` is a conjunction of seven parts, each needed by another:

- `Types` and `CallsOK`: what files hold, and which calls, with which operations still to
  come, there are in which state;
- `BasesOK`: the header that a recovery starts from;
- `SaveGoesOn`: the operations still to come of a save, and what the file with its pending
  writes holds after those that have been made;
- `CleanMatches`: blocks that are not dirty are in the primary file already, without which
  writing the dirty ones would not make a whole image;
- `Settled`: between saves nothing waits to be flushed, and the primary file holds the
  promised image;
- `WholeImages`: without a log, every outcome of a crash that a load would take holds the
  promised image or one that a save attempted.

`SavesDurable` follows from `Settled`, the refinement from `WholeImages`.  The
refinement is stated for hives without a log, which is how the program opens them: with one,
a second crash during recovery breaks it (`sync_crash_twice`).

### HiveSyncLogProofs

| Theorem | States |
|---|---|
| `LogCovered` | `Spec /\ Log /\ ~FullWrites => []LogCoversUntilFailure` |

Until a file operation fails, a hive with a log is in one of two situations.  Either the
primary file is settled, and the log may be rewritten; or the log on the disk repeats all
blocks in which the primary file may differ from one whole image, and every call that
writes to the primary file writes that image.  The situation changes where the log has been
flushed and where the second header has.  `~FullWrites` leaves out `HvWriteHive`, which
writes to the primary file without the log: the program calls it only for a file that it
has just created (`core/binhive.cpp:43`).  After a failed operation the
property is false (item 7 above), hence its premise.

### SubkeyIndexProofs

For all sets of names and of subkeys, all versions and limits, with the assumptions that a
fast leaf's limit is below that of other leaves and that those can be split:

| Theorem | States |
|---|---|
| `TypeCorrect` | `Spec => []TypeOK` |
| `NothingOverflows` | `Spec => []EntriesFit` |
| `NothingLost` | `Spec => []NoCellLost` |
| `NamesAreFound` | `Spec => []FoundByName` |
| `NumbersAreFound` | `Spec => []FoundByNumber` |
| `LoadSucceeds` | `Spec => []LoadAccepts` |
| `DirtMarked` | `Spec => ChangesAreDirty` |
| `IndexIsSet` | `Spec => SetSpec` |

These are all properties of the module.  They rest on one invariant, `Soundness`: hives
have their types with every list inside its cell (`Hives`), and the index of either
storage type is `Good`.  An index is seen as its pages `S`, the lists of its leaves in
their order, and the cells `C` that hold them.  `Pages` says that the names rise within a
page and from page to page, on which all searches rest; `Chained` that the cells of the
storage type are those in `C` and the root that lists them, each once, on which
following a cell that moves rests; and the node counts the entries.  A root that is
searched has no empty page, which holds between calls but not during a split.

The proof goes upwards.  `NarrowFacts` is about numbers: in a list of comparisons that
falls from positive to negative the search ends at the zero, or at the two neighbours
between which it would be.  `LeafSearch`, `RootSearch` and `SpotDecides` turn that into
what a search finds on pages.  `PageReplaced`, `PagesAdded`, `PagesDropped` and
`PagesSplit` say which changes keep pages in order; `ReallocateFacts` and its like, what an
operation on cells does to a hive and that it marks what it changes (`Step`); and
`FollowedRoot`, `SplitFacts`, `DropFacts`, what the calls do to a chain.  `Picked` is what
choosing a leaf promises: a hive with the same subkeys, and a page in it that has room
and on which the name belongs.  For numbers, `Start` counts the subkeys before a page;
`Numbered`, the subkey with a number, is what the walk of `CmpDoFindSubKeyByNumber` finds
(`WalkFacts`) and follows the order of names, so that every subkey has one number.

Three definitions are recursive: `Narrow`, the walk over the leaves, and the sum of
`CmpValidateSubKeyList`.  That there is such a function is shown by giving it
(`WalkExists`, `SumExists`) or from intervals up to a width (`NarrowsExist`), and what it
finds by the smallest counterexample: the least width, or the least number of leaves,
for which it would be wrong.

### ValueCellsProofs

For all sets of cells, names and payloads, every batch and every size of an entry:

| Theorem | States |
|---|---|
| `TypeCorrect` | `Spec => []TypeOK` |
| `OwnedOnce` | `Spec => []CellsOwnedOnce` |
| `ListsHaveRoom` | `Spec => []ListsFit` |
| `ChangesMarked` | `Spec => []ChangesAreDirty` |

The invariant says that the cells in memory are `Sound`, that those a reload would make of
the file are, each with its own stranded data, and that the two differ in dirty cells only.
`Sound(f, X, S)` has two halves, which change independently of each other: `Listing`, for
each key, that the lists and values of its store are its own, without repetition and with
room; and `Holding`, that each data cell belongs to one value or is one of the stranded
`S`.  In the middle of a call a value is on no list yet, or no longer: the values `X`.
A new value is followed from `X = {}` through `{v}` back to `{}`, whether it is listed or,
for want of room, freed again.  Beside soundness goes `Marked(h, g)`, that every stable cell
which differs between two hives is dirty in the second; it is transitive, so that a call is
followed step by step.

Two operations are folds over the values of a key: `Emptied` frees each of them, and
`CmpCopyKeyValueList` copies each to the volatile key.  Both go by the lemmas `FoldsExists` and
`FoldsStep`, of which the first shows that the recursive function behind the fold exists, and
then by a minimal counterexample on the number of values done.  While a key is emptied its
list names cells that are free already; the invariant of the loop speaks of the cells
`Without` the key's list, in which the values yet to be freed are on no list.  `WrittenSound`
is about the file: a flush turns the stable data of volatile values into stranded ones.

### RegistryProofs

For all finite sets of cells, all names, any number of sessions, calls and failures:

| Theorem | States |
|---|---|
| `TypeCorrect` | `Spec => []TypeOK` |
| `KeysNotLost` | `Spec => []OnlyStrandedKeysLost` |
| `SavesAccepted` | `Spec => []SavedIsAccepted` |
| `HandlesKeepTheirKeys` | `Spec => []HandleKeepsItsKey` |
| `LinkKeepsKeys` | `Spec => []LinkKeepsItsKeys` |
| `ImplementsKeyTree` | `Spec => TreeSpec` |
| `DescriptorsStaySound` | `Spec => []DescriptorsSound`, assuming `OneBlock` |

All but the last hold however the cells lie in blocks.  `RoomAssumption` says that a hive has
a stable cell for its descriptor beside its root, and that the first file of another program
fits into the hive; `NoneAssumption` that no file is `None`; `NamesAssumption` that the two
default keys have different names, which are literals of `RegInitializeRegistry`.

The invariant `KeysInv` says of the hive that a load would make of the file what
`OnlyStrandedKeysLost` says of the hive in memory, and that as long as the file is open for
writing a cell in no dirty block has the same `Place` in both: is a key in one if in the other,
with the same parent and the same subkeys.  The latter makes a flush of only some blocks write
a whole tree (`ImageParented`).  It holds because creating and deleting mark the key and
its parent; reference counts, which are raised without a mark, are no part of a `Place`.

A call is followed as a relation between two hives, `KeptAll(h, g)`: what changed its place is
marked; and if the keys of `h` are parented, its lists right and its descriptors sound, those
of `g` are.  It is
transitive, so that the walk along a path, which makes one key after the other, is
a chain of `WalkKept`; and the same lemmas serve the calls, the default keys that an
initialisation makes, and the purge of volatile subkeys at load (`PurgeKept`).

`SavesAccepted` adds `ListedInv`: what a stable key lists are keys that name it as their
parent, in memory and in the file.  The check at load walks down from the root, by a recursive
function over depths.  `LevelsExist` shows that there is such a function, and `LoadableIsKeys`
that no depth is the first at which it meets anything but a key.

`HandlesKeepTheirKeys` and `ImplementsKeyTree` are about paths.  `Tree(h)`, the places that
the levels from the root down reach, is shown to be the least set closed under going to a
subkey (`TreeLeast`), so that what holds of the root and passes on from a key to its
subkeys holds of the whole tree.  `TreeInv` says that the hive is `Hanging`, every subkey that
is listed below the root a key that names its parent, so that a cell is in the tree
once; that the root of the file is a root; and that the key held open, unless deleted,
is in the tree by its path, and whatever key is in its cell, or in that the link leads to,
in the tree by some path.  An opening walks down the tree, and a creation or deletion changes
the list of one parent, which `WalkTree` and `DeletedKeys` turn into one path more or less,
the others unchanged.  A deleted cell has no subkeys, so that the path of no other key
leads through it.

`LinkKeepsKeys` follows the source and the target of the link in the same way.  That the source
is never deleted has a reason of its own: every walk goes on in the target when it comes to
the source (`Resolved`), so that no opening ends there (`SourceUnreached`).

The refinement needs more, for KeyTree knows keys by their paths: `NamesInv`, no key of the
tree has two subkeys of one name, in memory and in the file.  A creation adds a key only when
the search for its name has failed, so that its path is new (`FreshPath`), and `CreateKeys`
collects the keys that one call makes: a chain, all in one store.  `ImageTree` is the heart
of saving: the places that can be reached in the file are those on whose path
there is no volatile cell; `SyncedTree` brings in the blocks that were not written, by
`KeysInv`.  `LoadedTree` is the same for the purge at load, which leaves the tree as it is.
Each action of Registry then refines one of KeyTree, or nothing that it sees: opening,
closing and calls that fail before a key is made.

Descriptors are the longer half.  A creation that fails leaves a count too high, which
`DescriptorsSound` allows and later creations and deletions keep.  A deletion takes a
user away (`ReleasedSound`) or, when it was the last one, takes the descriptor out of the ring:
`DescriptorGone` looks at the descriptors before and behind it, which may be one.  That a
descriptor with users is not freed is where the count must not be too low.  The
invariant includes the file, which a flush writes as a whole or not at all if there is one
block, the premise `OneBlock`.  It cannot be dropped: `registry_reload` has more blocks.

### RegistryCheckProofs

| Theorem | States |
|---|---|
| `ChangesMarked` | `Spec => []ChangesAreMarked` |
| `TypeCorrect` | `Spec => []TypeOK` |
| `VerdictRight` | `Spec => []VerdictIsRight` |
| `DamagedKeysLost` | `Spec => []OnlyDamagedKeysLost` |

For every set of trees that `TreesAssumption` allows, whatever two fields are damaged, and over
any number of restarts.  `DamagedKeysLost` alone uses `SoundnessAssumption`.

`Marked` compares the hive in memory with the one that was loaded, cell by cell.  Every
write of the check has one form, the content of a cell and its dirty bit, so that the
proof follows the five validations of a key and the removal of one.

The other theorems rest on `WalkInv`, which TLC has checked on the instance of `check`.
`Well` says that each cell holds what its kind of cell may hold; the damage keeps that
(`DamageFits`), as do validations and removals, so that no count falls below zero
and no list is taken for a key.  `Touches` says what the validations of one key leave as it
was: of the parts that make a key `Valid`, those that were in order, in this key and in
every other.  That a list of values is shortened in place is why no two keys may share one.

`Walk` is the invariant of the loop.  The keys that the walk is done with (`fin`) are valid,
and each of their subkeys is in its place (`ChildKept`): a key, after the sibling before it, and
with the right parent, unless a repair gave it another that lists it too.  Of a key
on the stack the subkeys before `ChildCellIndex` are done.  Nothing says that the
walk meets a key once, since with shared keys it need not; but when it is done with a key it
is done with all keys below, which is why the root is below none (`RootIsFirst`).  At the
end the keys met are closed under subkeys, and they are the least such set (`LeastSeen`).
`ReachedFacts` shows the same of `Reached`, a recursion over as many levels as there are keys:
while a level adds a key there are more keys than levels.  So the walk has met the
keys that can be reached and no others (`AllReached`).

In the other direction, a walk that repairs nothing leaves `Untouched` all that was in
order, so that in a sound hive the key that it is at is a subkey of a sound key, and is accepted
(`SoundIsAccepted`).  What it may still refuse is the depth.

`OnlyDamagedKeysLost` speaks of paths; its invariant `Spared`, which TLC has checked too, of one key.  A
key is `Undamaged` if it, its parent, the lists between them and the names of the siblings
before it are as they were, and then it `IsInPlace`: the parent has its index, and the
index the key.  This alone is not inductive, since the removal of another key could take an
entry out of the same leaf.  So the invariant also says what becomes of lists: no root ever
gains a leaf (`RootsKept`), and a leaf that was not damaged loses entries but
keeps their order (`LeavesKept`).  An index that shares a leaf with the one of an undamaged
key is then that index, or the leaf itself where a damaged key names it
(`SharedLeaf`): either way all that stands before the key there is one of its siblings, with
a smaller name, and the key is sane, so that it is not the one that has to go
(`UndamagedStays`).  The count of the parent falls with each removal, but not to zero while
the key is in the index.  The path to a key that has nothing damaged is then walked down from
the root key (`SparedIsReached`), by the closure of a set instead of by induction.

### What is only model-checked

Of ValueCells `MapSpec` (what data a name leads to, through a fold over the list).  Out of the prover's reach are liveness (`CheckEnds`), ENABLED, and the library's
induction theorems, which take an operator.  Where a recursion could be bounded by a
number, a minimal counterexample has taken the place of induction.

## 6. Plan

Done: all modules of section 2, and the proofs about HiveCells, HiveDisk, HiveSync,
SubkeyIndex, ValueCells, Registry and RegistryCheck.  To come are the refinement `MapSpec` of
ValueCells as a theorem, for names that a list holds once, and in the models the layout
of the log for hives of more than 508 blocks.

## 7. Not modelled

- Contents and formats: names, time stamps, checksums, the bytes of headers;
  `core/hivesum.cpp`, `core/rtl.cpp`, `core/Pal.cpp`, `include/unicode.hpp`: conversions
  and the platform layer.
- Cell references (`HvTrackCellRef`, `HvReleaseFreeCellRefArray`): nothing calls them,
  and releasing a cell does nothing in this build.
- `core/bitmap.cpp`: functions on words; of its operations the program uses setting,
  clearing, testing and finding a bit, on a vector that the models take for a set.
- Hives without a file that are read from memory (`HvpInitializeMemoryHive`,
  `HvpInitializeFlatHive`), and what building the free lists makes of a damaged bin.
- Data of more than `CM_KEY_VALUE_BIG` bytes, which the code asserts not to occur, and
  enumeration and queries of keys, which change nothing.
- Several hives at once: the list of hives has one entry here.  Paths cross from hive to hive
  through the same link mechanism as from key to key.
- Tools, `.inf` parsing, data tables: command-line programs over the modelled layers.
