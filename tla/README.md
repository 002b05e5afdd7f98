# Verification of gull's core protocols

gull (NVMM) manages fabric-attached memory (FAM) that several processes, on
several nodes, map at the same time. Everything that matters is shared state in
FAM, changed by single atomic operations of 64 or 128 bits, by processes that
can die between any two of them. This directory holds TLA+ models of those
protocols, TLC configurations that check them on small instances, and TLAPS
proofs of the results that matter most.

All paths below are relative to the repository (`src/shelf_usage/...` stands
for the library's `src/` directory).

## 1. Inventory of the system

| Component | Where | State | Operations | Hard behaviour | What makes it correct |
|---|---|---|---|---|---|
| Reader-writer lock | `shelf_usage/dclcrwlock.*` | `readersCounters`, `writersMutex` (process memory) | `sharedLock`, `trySharedLock`, `sharedUnlock`, `exclusiveLock`, `exclusiveUnlock` | threads collide in a counter; readers retract; a writer scans counter by counter | mutual exclusion, a writer is not starved |
| Epoch manager, epoch vector | `shelf_usage/epoch_*`, `participant_manager.cc`, `epoch_manager.cc` | frontier and slots (FAM); cached vector, active count, lock (process) | constructor (register, activate), `enter_critical`, `exit_critical`, heartbeat, `advance_frontier`, destructor | scan of the vector, then one CAS; time-outs; killing the silent; crashes | the frontier never passes an open operation by more than one; slots have one owner; progress |
| Delayed free | `allocator/epoch_zone_heap.*` | five lists per shelf (FAM) | `Alloc`, `Free`, `BackgroundWorker`, `OfflineFree` | lists indexed by epoch modulo five, many drainers | no block is reclaimed under an operation; no double free |
| Heap life cycle | `allocator/epoch_zone_heap.*`, `shelf_usage/zone_shelf_heap.cc` | header with `total_shelfs`, `op_in_progress`, `destroy_in_progress` (FAM); mapped shelves, worker (process) | `Create`, `Destroy`, `Open`, `Close`, `Resize`, `SetPermission`, `OpenNewShelfs`, `StartWorker`, `StopWorker`, `Merge`, `OffsetToLocal`, `OfflineRecover` | resize against open heaps, destroy against workers, failure or crash in resize and in a change of permissions | the header counts shelves that exist; no shelf is used that is not mapped; what is mapped is the heap that was opened |
| Lock-free stacks | `shelf_usage/zone_entry_stack.*`, `stack.*` | head, ABA counter, next links (FAM) | `push`, `pop` | stale next link, ABA | refines an atomic stack |
| Zone buddy allocator | `shelf_usage/zone*` | free list per level, entry per chunk, merge state (FAM) | `alloc`, `free`, `grow`, `merge`, `online_recover`, `offline_recover` | splits against merges, crash between any two steps, garbage collection | chunks never overlap; recovery loses nothing |
| Fixed-block allocator, free lists | `shelf_usage/fixed_block_allocator.*`, `freelists.*` | watermark, stacks (FAM) | `alloc`, `free`, `GetPointer`, `PutPointer` | a watermark that others raise, no block left | no block in two places, a pointer is freed once |
| Pool membership | `shelf_mgmt/membership.h`, `pool.*` | item = valid bit and version (FAM); shelf files | `Create`, `Open`, `Close`, `Destroy`, `AddShelf`, `RemoveShelf`, `Recover` | crash between file and item; recovery next to additions; version wrap | a valid item has its file; a version names one shelf |
| Ownership | `shelf_usage/ownership.*`, `common/process_id.*` | owner per item, two words (FAM) | `AcquireItem`, `ReleaseItem`, `CheckItem`, `CheckAndRevokeItem` | torn reads, pids used again, a recoverer that fails or dies | one user, the owner; taken only from the dead |
| Shelf files, shelf manager | `shelf_mgmt/shelf_file.*`, `shelf_manager.*` | files; table of mapped shelves (process) | create, open, map, find, unmap, mark invalid | an address that outlives its file | a mapping is of the file that is there |
| Memory manager, root and epoch shelf | `memory_manager.cc`, `common/root_shelf.*`, `common/epoch_shelf.*` | types of the pools, root pointers, ticket locks (FAM) | `StartNVMM`, `ResetNVMM`, `Init`, create, find, destroy of heaps and regions | a holder of the lock dies; a shelf that exists and is not initialised | type and pool agree; the lock admits one |
| Regions | `allocator/pool_region.*`, `shelf_usage/shelf_region.*` | a pool with one shelf | create, open, close, destroy, map | creation and destruction as for heaps | one shelf |
| Distributed heap | `allocator/dist_heap.*`, `shelf_usage/shelf_heap.*` | shelves with owners, free lists (FAM), mapped shelf, lock (process) | `Create`, `Destroy`, `Open`, `Close`, `Alloc`, `Free`, cleaner, recovery | local against remote free, giving a full shelf away, revocation | a shelf is used by its owner only |
| Atomics on FAM | `common/fam_atomic_x86.c`, `include/nvmm/fam*.h` | | fetch-and-add, compare-and-store, 128-bit read, ticket lock | a 128-bit read is two loads | |
| Configuration, logging, ids | `common/*` | | | | plain data |

How they interact: the application opens an `EpochOp` (lock shared, report the
frontier), allocates from a heap (zone, stacks) and defers frees to the epoch
lists; the worker of any process drains a list inside an operation of its own.
The heartbeat and the monitor of the process take the lock exclusively. Heaps
are pools of shelves found through the memory manager, which knows for every pool
id whether it is a heap or a region and takes a lock of the id for every change.
The object of a heap maps the shelves of its pool through the table of the
process, and its worker closes it when another process has destroyed the heap. The
distributed heap, which the library uses when it is compiled without `ZONE`, gives
every shelf to one process at a time by the ownership items, and hands pointers of
other processes' shelves to them through free lists.

The hazards of this code, each with its line and the properties that catch it
going wrong, are listed in `PROJECT.json`.

## 2. Plan

In order of importance. All modules of the plan are there, and every safety property that a passing run checks has its theorem.

| # | Modules | Abstract specification | Runs | Theorems |
|---|---|---|---|---|
| 1 | `DCLCRWLock` | `RWLock` | `rwlock` | types, exclusion, counters, refinement |
| 2 | `EpochManager` | `Epochs` | `epochs`, `epoch_live`, `kill_fails` | types, `SlotOwned`, `CriticalLag`, `EpochStable`, refinement |
| 3 | `DelayedFree` over `Epochs` | the promise of gull's README, `NoEarlyReclaim` | `delayed_free` | all safety properties |
| 4 | `LockFreeStack` | `AtomicStack` | `stack` | types, links, apart, ABA, refinement |
| 5 | `Zone`, `SizeClass`, both in `ZoneSizes` | `Allocator` | `zone`, `zone_gc` | types, `NoOverlap`, `Tiled`, `MergeAsserts`, `GCRecovers`, `BuddiesMerged`, `LevelRight`, refinement |
| 6 | `Pool` | `ShelfPool` | `pool` | types, `ValidHasFile`, `VersionOnce`, `MarksOwnFile`, `SoloRecoverCleans`, refinement of `ShelfPool`, as long as versions do not wrap |
| 7 | `MemoryManager` over `EpochZoneHeap` over `ShelfManager` | | `heap_life`, `heap_reopen` | types, `TypeTells`, `CountedShelvesExist`, `PermissionsAgree`, `NoNullShelf` |
| 8 | `DistHeap` over `Ownership` and `FreeLists` | `ObjectHeap` | `dist_heap` | types, `OneHolder`, `FreedOnce`, refinement of `ObjectHeap` |

The layers are composed in two ways. Where a layer has an abstract
specification the one above uses that, and never two detailed modules run
together: `EpochManager` uses the lock as `RWLock` specifies it, `DelayedFree` uses
`Epochs`, `Zone` and `FreeLists` use the stacks as `AtomicStack` specifies them,
and the blocks of `DelayedFree` are what `Allocator` hands out. Where the state of
two components is one protocol the modules are one specification: `MemoryManager`
extends `EpochZoneHeap`, which extends `ShelfManager`, and `DistHeap` extends
`Ownership` and `FreeLists`; in these the addition or removal of a shelf is one step, which is what
`ShelfPool` promises and `Pool` implements.

## 3. Modules

Names of variables and actions are those of the code where the language allows
it. `Bad...` operators are mutations of the definition they precede, in the way
the code could have been written wrong; nothing uses them except the mutants
that `PROJECT.json` lists, which show for each checked property that it fails
when the code is changed.

### Reader-writer lock: `RWLock`, `DCLCRWLock`

`readersCounters` and `writersMutex` are the arrays and the flag of
`dclcrwlock.cc`; `pc` says at which atomic operation of `sharedLock`,
`trySharedLock`, `exclusiveLock` a thread stands and `scanned` which counter a
writer waits for. Each fetch-and-add, load and CAS is an action. `bucketOf` is
the hash of a thread id onto a counter, any function of the threads. The
allocation of the counters on separate cache lines is not modelled. `RWLock` is
a mode per thread; the refinement maps "holds" to the mode.

### Epochs: `Epochs`, `EpochManager`

`EpochManager` has the vector in FAM (`frontier`, and per slot `slotPid` and
`reported`), and for every process its phase of life, its cached copy of the
vector (`seenPid`, `seen`; `NotCached` is the invalidated entry), its operation
count, its heartbeat (`hb`) and its monitor (`mon`, `scanned`, `idx`, `allIn`,
`likelyDead`). Every access to FAM is a step of its own: the constructor
(`AcquireSlot`, `Freeze`, `ViewFrontier`, `Activate`), the entry into an
operation (`SharedLock`, `EnterFirst`, `ReportFrontier`, `EnterNested`), the
exit, the heartbeat's read and write, the scan of the monitor slot by slot, its
CAS, and its recovery (`Terminate` the process, `Unregister` its slot). A
process dies at any step (`Crash`).

A slot is 128 bits and its read two loads, as everywhere: `ScanPid` loads the pid and
`ScanEpoch` the epoch, in the order in which `fam_atomic_x86.c:249-250` has them; between
the two the slot may be released and taken. `ScanCached` answers from the copy. The pid a
verdict will kill is the cached one.

`reach[p]` are the processes p can kill. `ParticipantManager::terminate` throws for a process
of another user, which `advance_frontier` catches, and returns for one that it does not find,
on another node for instance; the slot is released all the same, so `Terminate` leaves such a suspect
alone and `Unregister` follows.

A `Proc` is one incarnation: process identifiers are not reused, and a SIGKILL that
succeeds takes effect at once. Time is left
out: a participant that lags may be found silent for `TIMEOUT_US` at any time if
it is dead, and also when it lives if `FalseSuspicion` is TRUE; then it is
killed in the middle of whatever it does. The elements of the cached copy have no initial value in the
code; here their pids are `NoProc`.

`SafeVerdicts` is what the safety of the protocol rests on, and the code does not ensure it. It has
three parts, each excluding behaviours that break the promise, as a configuration shows:

* a live suspect can be killed (`reach`): run `kill_fails`;
* a slot is not condemned on a pid and an epoch of different owners (`TornVerdicts = FALSE`):
  `MCEpochTornSlot.cfg`. Torn reads that condemn nobody stay;
* a slot that some live scanner has condemned is taken by nobody before that scanner has released it
  (`ReuseCondemned = FALSE`), whether its owner's destructor or another recovery released it first:
  `MCEpochSlotRace.cfg`.

The safety properties of run `epochs` are checked, and proved, under `SafeVerdicts`.

`Epochs` is what the code above relies on: participants with an epoch, a
frontier that moves only when every participant has reported it, operations
during which the epoch of the process stands still.

### Delayed free: `DelayedFree`

One shelf: `delayed[l]` are the five lists in FAM, `free` and `used` the blocks
on the two sides of the allocator, `held` the block a worker has popped and not
yet freed. `Free` pushes on list (epoch + 3) mod 5, `WorkerPop` and `WorkerFree`
are the two halves of the worker's loop, which stops after `kFreeCnt` blocks.
`holders` is a history variable: the operations in progress at the free of a
block that are still in progress. `OfflineFree` has the precondition its
comment gives to the caller, that nobody uses the blocks. A process that stops
or dies leaks the block its worker holds (`Leave`).

### Lock-free stacks: `AtomicStack`, `LockFreeStack`

`head` and `abaCounter` are compared and stored together; `next` is the word of
each block, read and written separately. A process pops by reading the head,
then the link, then by a CAS, and retries with what the failed CAS returned;
a push links its block before each CAS. The 128-bit read of
`fam_atomic_x86.c` is two loads, and so is what a failed compare-and-store returns:
`SampleHead` and `SampleCounter` are steps of their own, and the pair in `old` may
never have been in the stack. `Use` writes anything in the word of a
block one holds, for that word is also the allocation entry (or, in
`stack.cc`, user memory). `Detach` is the 64-bit CAS of `Zone::swap_freelist`,
which does not touch the counter. `content` is a history variable, the
stack that an observer of the successful CASs sees. That no block is in the stack and in
somebody's hands at once (`Apart`) follows from the refinement, as which the run checks it;
`NoDoubleAllocation` states it.

### Zone: `Allocator`, `Zone`, `SizeClass`, `ZoneSizes`

`free_list` has a set of chunks per level; by `LockFreeStack`, a push or pop is
one step, and the order of a list does not matter, so sets stand for stacks.
`entry[u]` is the allocation bit and the level of the entry of unit `u`.
The header's `merge_in_progress`, `merge_status`, `current_merge_level`,
`safe_copy` and the two post-merge lists are variables; `chain` stands for the
chunks that hang from `safe_copy.head` after the list is detached. Actions
follow the numbering 1 to 11 of the comments in `zone.cc`, one action per
persistent write that another process or a recovery can tell apart; combined
into one action are the reads of the header, the loop of a bit's CAS, the two
`memset`s of the post-merge lists, and the clearing of the bitmap with that of
`safe_copy` (a crash between the two leaves a bitmap that every later merge
clears first). `RecoverMerge` chooses where a merge goes on, by the state the
crash left; its guard demands that the merging process is dead, which
`online_recover` leaves to its caller. A recovery that finds `safe_copy` set
and no status recorded gives the list up and goes on with the next level;
its chunks are `lost`.

Garbage collection is one step per level, runs alone, and can be interrupted
between levels. Behaviour ends when it has finished (`Online`), because of the
finding below; `Beyond` are the bits behind the bitmap. With at most eight
levels they fall in padding, as `ZoneAssumption` says; in larger zones
they are the zone's own entries.

`grow` is not modelled: `ShelfHeap::Create` (`zone_shelf_heap.cc:79`) creates
every zone at its largest size, so `grow` finds nothing to do.

`SizeClass` is the arithmetic that turns a request into a level, on words of
2^`LogWidth` bits, with the shifts and ors of the code. A word whose bits the code works on is
the set of its bits (`Bits`, and back with `Number`): `n & (n - 1)` is an intersection,
`n |= n >> k` is `OrShifted`. Requests above half the
range are excluded: rounding them up overflows to 0, and `alloc` returns a
minimum chunk (`zone.cc:450` has a TODO for sizes beyond the zone). `ZoneSizes` joins it
with the zone, for `LevelRight`.

### Pool: `ShelfPool`, `Pool`

`slot[i]` is an item of the membership array (valid bit and version), `files` the
files in the directory by name: an index, a number, and whether the name ends in
"add". Loads, compare-and-stores and file operations are steps of their own, so
`GetFreeSlot`, `TakeVersion`, `RenameFile` and `MarkSlotUsed` are the four points
at which AddShelf can lose its index to another AddShelf, or its file to a
Recover. `loc` are the locals of an operation; they, and `open`, die with the
process (`Crash`). Recover reads each item once, then the directory; a file that
appears while the directory is read may or may not be seen (`SweepFile`). Open,
Close and Destroy run the same Recover, and Destroy the same RemoveShelf.
`solo` and the author and the pool of a file (`by`, `life`) are history.

`ShelfPool` is what a heap sees: a set of shelves, each with its index, its version and the
maker of its file, that grows and shrinks by single steps; versions count up, and a shelf
leaves with a new version of its index. A shelf of `ShelfPool` is an item of `Pool` that is
valid, with the author of its file as maker if the file is there, formatted and of this
pool, and nobody otherwise, which no step of `ShelfPool` allows. So AddShelf is its mark,
RemoveShelf its compare-and-store in `MarkSlotFree`, and everything before and after them,
all of Recover and every crash stutter or use up a version. Destroy is its wipe of the
items, where `ShelfPool` has no shelf left. That a valid item has its own formatted file
(`ValidHasFile`) is part of the refinement as run `pool` checks it, and a theorem of its own.

Assumptions, which the comments of the code state too: one operation of the file
system is one step (`pool.h:55-58`), and Create and Destroy run when nobody else
uses the pool (`Alone`). `ShelfFile::Create` is in fact a test followed by `creat`
without `O_EXCL`, so two processes that draw the same of 65536 numbers for the
same index at the same moment would share a file; the runs give each process
numbers of its own. `TruncateShelfFile` stands for every format function.

What the model shows besides its properties: a process that dies in Create, or
between the two last steps of Destroy, leaves a metadata shelf (`meta = "raw"`)
that can be neither created, opened nor destroyed; Destroy leaves the file of an
AddShelf that died between rename and mark, and temporary files of an index that
was never used; and AddShelf with another index allowed can retry for ever, as two
of them take each other's version (`MaxVersion` bounds that). The version of an item
has 15 bits and wraps to 0, which `pool.h:195` reserves and `Recover` asserts against
(`pool.cc:379`), after 2^15 additions to one index; the run stays below that.

### The heap and the memory manager: `ShelfManager`, `EpochZoneHeap`, `MemoryManager`

One pool id. In FAM: the shelves of the pool (`file[s]` is the life of the heap
whose file shelf `s` is, `perm[s]` its permission), the header in shelf 0 (`total`,
`op`, `dying` for `destroy_in_progress`), the type and the lock of the id, and the
root and epoch shelves (`boot`: absent, raw, ready). In a process: the object
(`h`, with `total_mapped_shelfs_` as `mapped`), the shelves it has opened (`rmb`), its
worker (`wk`) and the flags by which `StartWorker`, `StopWorker` and
`BackgroundWorker` talk, the table of mapped shelves (`map`, negative when marked
invalid) and one thread (`at`, `loc`). A shelf that is not open is `None`, the code's
NULL in `rmb_[]`; an action that would follow it goes to `abort`, and so does a failed
assertion and the end of a process by `std::terminate`.

Each operation of the heap is split where another process can tell: Create into
pool, header, zones, and the count that ends it; Resize into the claim of
`op_in_progress`, the reading of the header, the removal of what an earlier Resize
left, one step per shelf that is added, the count, the release; SetPermission into
one step per shelf; Destroy into the mark in the header, one step per shelf, the
pool. `Alloc` and `Free` are a call that reaches shelf `s`, `Translate` the
`GlobalToLocal` of the memory manager, `OffsetToLocal` that of the heap.

A process may die at any step, and these calls may fail, at most `MaxEvents` times together:
an addition to the pool in Create and Resize; the opening of a shelf that is there, in Open and
in `OpenNewShelfs` (`OpensTo`: a file or a part of the header that cannot be opened or
mapped; an opening of a shelf that is missing always fails); and in SetPermission the reading of a
permission or the change of one (`PermFails`), which clears `op_in_progress` and leaves the
shelves changed so far. The branch of `OpenShelf` for a shelf whose size is not the one in the header
cannot be taken, because Resize writes the size before it counts the shelf. Who looks at the result of
`OpenNewShelfs` differs: Free and Resize do; Alloc and SetPermission go on (a SetPermission meets NULL
and aborts, or an object that failed to open and returns, `Unopened`); Merge, Size, Stats and
`OnlineRecover` visit only the shelves that are counted as open, so they follow no NULL.
The shelf with the metadata of the pool, whose permission SetPermission changes too, is not modelled.

`MemoryManager` says what is started, by the rules of `memory_manager.h`: one process
at a time runs `StartNVMM` and `ResetNVMM` runs alone; who destroys a heap or region
makes sure that nobody is accessing it, so the objects of the others are closed, or
open, idle and left to their workers; an object is opened only when the id is what the
object is for, and not once it `IsInvalid()`; `OfflineRecover` runs alone. The lock is
fam_atomic's ticket lock: `lock` is the queue of tickets, and the ticket of a dead
process (`Gone`) is never served.

What the model shows besides its properties, all behaviours it has because the code
has them:

* A process that dies with a ticket blocks the id for ever (the TODO at
  `memory_manager.cc:207`), and one that dies in `StartNVMM` can leave a root shelf
  without contents, on which every later process exits (`root_shelf.cc:62`).
* A Create that fails or dies after its pool leaves a pool whose type is NONE: it can be
  neither found nor destroyed, and the id cannot be created again.
* A death in Resize leaves `op_in_progress` set: every Resize and SetPermission
  returns `HEAP_BUSY` until an `OfflineRecover`. A death or a failure in SetPermission leaves two
  permissions (`torn`, until a SetPermission succeeds); `OfflineRecover` does not repair that, and a SetPermission to
  the mode of the header returns without looking at the other shelves (`MCHeapPermTorn.cfg`).
* Alloc uses a shelf that it could not open (`MCHeapOpenFails.cfg`), and so does SetPermission.
  `NoNullShelf` has that these two do so only after an opening that failed (`h[p].failed`).
* A worker that finds its heap destroyed closes the object itself. When the user closes
  or deletes it at the same time, one of the two follows NULL entries of `rmb_`; the
  thread of the worker is not joined, so that deleting the object ends the process. A
  heap that was destroyed but whose shelves nobody marked invalid closes half-way and
  keeps NULL entries. `NoNullShelf` leaves these calls out, and `MCHeapCloseRace.cfg` is about them.
* `OffsetToLocal` and `GlobalToLocal` do not open shelves that another process has added, as Alloc
  and Free do: the first use of a pointer into such a shelf must not be its
  translation. `NoNullShelf` leaves these out too, and nothing else.
* Read and not modelled: two threads of a process in `OpenNewShelfs` can move
  `total_mapped_shelfs_` backwards; `ShelfHeap::Close` of an invalid shelf leaves it
  open, so that the destructor unmaps a second time (`zone_shelf_heap.cc:173`); and
  the constructor leaves `total_mapped_shelfs_` uninitialised.

### The distributed heap: `ObjectHeap`, `Ownership`, `FreeLists`, `DistHeap`

`items[s]` is the owner of shelf `s`: a pid and a start time. A process (`Proc`) is one
incarnation; `pidOf` and `btimeOf` are its identity, and a process may start under the pid
of one that is gone, or that runs on another node. `blind[p]` are the processes whose start time p may fail to learn: those on other
nodes, for which `kill` finds nobody, or somebody else, and those whose `/proc/<pid>/stat` it cannot read or which has a
name with a space, for then the 22nd field is the one before the start time, and that is 0. (A name with two spaces
shows the number of threads there; that is not modelled.) A live owner in `blind[p]` may be judged dead by
p (`IsAlive`), and a p that is blind to itself may get the identity (0, 0) from `SetPid`, with which
`AcquireItem` stores nothing and succeeds. `pid_` is one variable of the process that every `SetPid` overwrites,
so a release takes any identity `SetPid` could have given.
`Identified` is what one user per shelf rests on: nobody is blind, pid and start time are of one process, and two
processes share a start time only when both run from the beginning (the clock behind `/proc/<pid>/stat` ticks
a hundred times a second). `RevokeCheck` and `RevokeDead` read the two words of an item one
after the other; `Check`, which looks at one item before `Acquire` compares the whole of it, is one read. `FreeLists` has the stacks as sequences, the watermark, and
the pointer in every block. `DistHeap` has, for every process, the shelf it has mapped
(`kMaxOwnedHeap` is 1), its `rwlock_` (`writer`), application threads and the cleaner.
The three scans of `AcquireShelfHeap` and `Alloc` are one loop over the items with a
`stage`. A shelf is a bump allocator (`NvHeapLayout`), so a pointer is a pair of
shelf and place. `next_free` restarts only with a new heap.

Usage rules: Create and Destroy run when nobody has the heap open, Open and Close when no
other thread of the process uses it, and no call begins while it is being closed; a heap that was half destroyed by a process
that died is not opened again.

What the model shows besides its properties: a process that dies after `AcquireItem` and
before `AddShelf` leaves an item without a shelf, and the cleaner of every process that takes
it over aborts on the assertion at `dist_heap.cc:897`, and leaves its own item to
the next one (`MCDistRecover.cfg`); two processes without an identity use one shelf (`MCDistNoId.cfg`), and so do
processes of two nodes (`MCDistNodes.cfg`). What a pointer goes through does not depend on that: `FreedOnce`, the types and the
refinement hold whoever takes a shelf to be its own, because bump pointer, lists and blocks are changed by
single atomic steps. `OpenShelfHeap` that fails keeps its item for the life of the process;
`PutPointer` drops the pointer when no block is left and returns `NO_ERROR`
(`freelists.cc:204`; `dropped` has these).

`ObjectHeap` is the heap without owners, lists and blocks: an object is allocated and freed in
one step each, and given back to its shelf with the call or in a step of its own (`pending`
until then). It may be dropped only when the `room`, the blocks never handed out, is used up,
and lost only when a process dies, one object for each thread of it (`crew`, with the cleaner).
`DistHeap` implements it with `pending` the pointers that a thread or a cleaner carries (`Moving`)
and those in a block on a list or popped and not yet read (`Boxed`). `Format` and the end of
Destroy are `Clear`; the search for a shelf, the ownership protocol, Open and Close do not
show. `Drop` does not say that no block is free: one may come back between the two
attempts of `FixedBlockAllocator::alloc`.

## 4. Runs

| Run | What it shows | Bounds and why they are enough |
|---|---|---|
| `rwlock` | mutual exclusion, refinement of `RWLock`; a writer with the mutex is served, spinning readers do not block everybody | 3 threads, 2 counters: two threads share a counter, the third has the other, so there are collisions, two writers, and a writer between two counters. Liveness is stated for threads that do not poll with `trySharedLock` for ever: these could starve a writer, and the library has no such caller |
| `epochs` | under `SafeVerdicts`: the frontier does not run away from an operation; a slot has one owner; an operation sees one epoch; refinement of `Epochs` | 2 processes, one with a monitor (the other scans once, in its constructor), false suspicions and crashes; two threads in the first, whose operations nest, none in the other, which has its heartbeat; epochs up to 5, because the constructors themselves move the frontier, and `CriticalLag` can fail at 5 only |
| `epoch_live` | the frontier moves as long as a monitor runs | 2 processes of which one has a monitor, crashes anywhere; epochs up to 4 |
| `kill_fails` | finding: the slot of a process that could not be killed is released, and its operation loses its protection | 2 processes of which each can kill only itself, one monitor, 2 slots; the slot is not taken again, no torn verdicts |
| `delayed_free` | no early reclaim, no double free, no push on a list being drained | 2 processes with a worker each, 2 blocks, epochs up to 8: every residue modulo five occurs, the first ones twice |
| `stack` | no block twice, ABA counter, refinement of `AtomicStack`, with torn reads | 2 processes, 2 blocks, 4 increments of the counter: an entry can leave and come back (ABA) while a pop sleeps |
| `zone` | no overlap, no unrecorded loss, assertions of the merge, the lists a merge builds keep no buddies, garbage collection recovers, every request gets the least level that fits, refinement of `Allocator` | 8 units, 2 processes, chunks of 2 and 4 units, 2 crashes: the recovery of a merge can crash too. Merge treats all levels alike; here it runs on three, one with nothing to merge, one with buddies, one above them. The arithmetic (`LevelRight`) is checked on words of 2^3 = 8 bits, for all requests and minimum sizes, and proved for up to 64 |
| `pool` | a shelf has its own formatted file; a version names one shelf; Recover cleans up; the marked file is one's own; refinement of `ShelfPool` | 2 processes, 2 indices, 3 events (`MaxEvents`: additions, removals, deaths) and any number of Open, Close, Recover: an index is added, removed and added again, or two processes compete and one dies; the pool is destroyed and created once more |
| `zone_gc` | finding: a chunk outside the zone | 4 units |
| `dist_heap` | under `Identified`: a shelf has one user, its owner; a pointer is freed once and lost only with its carrier; refinement of `ObjectHeap` | 3 processes, the third under the pid of the first, 2 shelves with room for 1 object each, 1 block, 2 calls, failures or deaths (`MaxEvents`; frees, openings and the cleaner are not counted): a shelf is full, given away, taken over from the dead, its pointer freed by another; the block runs out |
| `heap_life` | the type tells what the id is and the lock admits one; the header counts shelves that exist; shelves have one permission; no shelf is used that is not mapped | 2 processes (symmetric), 2 data shelves, 2 lives of the id (`MaxLives`), each a heap or a region, permissions changed in the first life only (`PermLives`), 1 failure (of an addition, an opening or a change of permission) or death anywhere: one process resizes or destroys while the other uses, and what the dead leave meets every operation |
| `heap_reopen` | finding: a heap is opened on a deleted file | the same |

These configurations of the same modules are not runs of `PROJECT.json`. They let in what the runs above leave
out, or state what the code does not keep; all but the last one end in a violation:

| Configuration | Property | What is let in |
|---|---|---|
| `MCEpochSlotRace.cfg` | `OperationHoldsFrontier` | 3 processes; a condemned slot may be taken again before it is released |
| `MCEpochTornSlot.cfg` | `OperationHoldsFrontier` | verdicts on torn reads |
| `MCHeapPermTorn.cfg` | `HeaderRight` | as `heap_life`; the shelves and the header after a SetPermission that failed |
| `MCHeapOpenFails.cfg` | `AllocFindsShelf` | as `heap_life`; Alloc after an opening that failed |
| `MCHeapCloseRace.cfg` | `CleanerSparesUser` | as `heap_life`; the deletion of an object whose worker has closed it |
| `MCDistRecover.cfg` | `RecoverFindsShelf` | as `dist_heap`; the recovery of an item without a shelf |
| `MCDistNoId.cfg` | `SoleUser` | as `dist_heap`, every process blind to itself |
| `MCDistNodes.cfg` | `SoleUser` | as `dist_heap`, every process blind to the others |
| `MCDistBlind.cfg` | `TypeOK`, `ImplementsObjectHeap` | as `dist_heap` with 1 shelf; the second process may be without an identity and take the first for dead, and the others may take it for dead. Both hold |

The zones are smaller than the 64 units the constructor demands; nothing but
its check of the bitmap's size depends on that number. Runs that let every
process die, stop, collect garbage or destroy the pool, or end with a bound on the calls, turn the deadlock check off; so do
those whose bounds (`MaxEpoch`, `MaxAba`) end every behaviour.

Bounds by name: `MaxEpoch` (frontier), `MaxAba` (counter), `MaxDeaths`,
`MaxEvents`, `MaxVersion` (how far an addition raises a version), `MaxLives` (how often
a pool is created), `PermLives` (the lives in which permissions are changed),
`MaxData` (shelves with data), `Capacity` (objects in a shelf of the distributed heap),
`AllocLevel` (levels requested), `kFreeCnt` (a constant of the class in the code, 1 here, so that a worker leaves blocks behind).

### Fairness

`DCLCRWLock!FairSpec`: a thread inside the lock's functions keeps running, and a
holder releases (epoch operations and the exclusive sections are finite). No one
has to call. `EpochManager!FairSpec`: the heartbeat and the monitor are threads
in endless loops, so their steps are fair; strongly fair are the ones that need
the exclusive lock (`HeartbeatLock`, `ScanBegin`, and `ScanPid` and `ScanCached`, which take it for the
own slot), which is what `WriterServed` gives them; operations end. A dead
participant that lags is found silent in the end (the monitor's time-out): strong fairness of the
verdict at each slot. No
process has to start, and none to survive: `FrontierMoves` is conditional on a
process with a monitor being up.

### Findings

By runs:

* `kill_fails` (`epoch_manager_impl.cc:266`): p1 finds p2 silent, cannot kill it, because it belongs to
  another user or runs on another node, and releases its slot. p2 lives, its reports go under a null pid, and
  the frontier leaves its operation behind.
* `zone_gc` (`zone.cc:1409`): garbage collection looks for the buddy of the whole
  zone and pushes a chunk that begins at its end. The same loop then marks bits
  behind the bitmap. In zones of more than eight levels these bits are the
  entries of the zone itself.
* `heap_reopen` (`shelf_file.cc:266`): closing a heap leaves its shelves in the table of
  mapped shelves of the process, and `ShelfFile::Map` returns the registered address
  without a look at the file. When another process destroys the heap and creates it
  again in between, which `memory_manager.h:119` allows because nobody is accessing it,
  the process opens the new heap on the deleted file of the old one: `MappingCurrent`.

By the other configurations:

* `MCEpochSlotRace.cfg` (`epoch_vector.cc:129`): `release_slot` writes without a CAS, as the
  FIXME above it says. In its trace, the scan of p3's constructor condemns the slot of p1, which is silent but alive; p1
  ends and its destructor releases the slot; p2 registers in it and enters an operation; p3
  finds nobody to kill and releases the slot of p2. The later reports of p2 go
  under a null pid, and the frontier moves more than one epoch past its operation. Two recoveries
  with the same verdict, the case of the FIXME, have the same effect when a participant registers
  between them.
* `MCEpochTornSlot.cfg` (`fam_atomic_x86.c:249`): p1 loads the pid of a free slot, p2 takes the slot, p1 loads its epoch, which
  is not the frontier. A copy that has not changed for `TIMEOUT_US` is a verdict; there is
  no pid to kill, and the slot of p2 is released.
* `MCDistNoId.cfg` (`process_id.cc:59`): without a start time a process has the identity (0, 0), the one of no owner,
  and `AcquireItem` succeeds for every such process on every free shelf: `SoleUser`.
* `MCDistNodes.cfg` (`process_id.cc:80`): `IsAlive` asks the local kernel for a process that may run on another node,
  and the cleaner recovers the shelf of a live owner: `SoleUser`.
* `MCDistRecover.cfg` (`dist_heap.cc:897`): the owner died between `AcquireItem` and `AddShelf`; the recovery of the item
  asserts that there is a shelf, and every cleaner that comes by aborts in turn: `RecoverFindsShelf`.
* `MCHeapPermTorn.cfg` (`epoch_zone_heap.cc:479`): when a shelf cannot be changed, SetPermission returns with the shelves
  before it changed and `op_in_progress` clear. "The permission of file header is always right" (lines 489-491) is
  not so then: `HeaderRight`.
* `MCHeapOpenFails.cfg` (`epoch_zone_heap.cc:833`): Alloc does not look at the result of `OpenNewShelfs` and calls
  `ShelfHeap::Alloc` of a shelf that is not open: `AllocFindsShelf`.
* `MCHeapCloseRace.cfg` (`epoch_zone_heap.cc:1251`): the cleaner of a heap that another process destroys closes the object;
  nobody joins its thread, and the user that deletes the object, as `memory_manager.h:123` asks it to, is ended by
  `std::terminate`: `CleanerSparesUser`. The note at line 119 asks for processes that do not access the heap when it is destroyed;
  the model lets them have it open and leave it alone, the case that `destroy_in_progress` and `IsInvalid` are for.

One divergence is harmless and has no run: `zone_entry_stack.h:50` says of
`aba_counter` that it is "incremented each time head is written", and
`Zone::swap_freelist` (`zone.cc:893`) writes the head without it. Only a push
brings a detached block back to the head, and it increments: `LinkFresh` holds
with the detach in the model, and is proved.

## 5. Proofs

All theorems hold for any values of the constants under the named assumptions
of the modules (`LockAssumption`, `ManagerAssumption`, `DelayedFreeAssumption`, `StackAssumption`,
`ZoneAssumption`, `PoolAssumption`, `HeapAssumption` and `MemoryManagerAssumption`, and for the distributed heap `OwnershipAssumption`, `FreeListsAssumption`,
`DistHeapAssumption`). Three modules need hypotheses beside them, which their theorems state:
`EpochManagerProofs` (`SafeVerdicts`), `PoolProofs` (`NoWrap`, `OwnNames`) and, for one theorem,
`DistHeapProofs` (`Identified`). TLC checks the same formulas on the instances above.

**`DCLCRWLockProofs`** (any finite set of threads, any number of counters, any
hash): `TypeCorrect`, `MutualExclusion`, `CountersAreExact`, `Refinement`. The
inductive invariant adds three facts to the exact counters: `MutexOwned`,
`ScanBehind` and `ScanComplete` (a writer has passed every counter): exact counters make "the counter is 0" mean "nobody is announced
in it" (`ZeroMeansNobody`), so a scan that passes a counter leaves no reader
behind (`ScanBehind`), and with one owner of the mutex (`MutexOwned`) a
writer whose scan is complete is alone.

**`EpochManagerProofs`** (any processes, threads, slots, any bound on the frontier, with
or without false suspicions): `TypeCorrect`, and under `SafeVerdicts` `SlotOwnedTheorem`,
`CriticalLagTheorem`, `EpochStableTheorem`, `Refinement` of `Epochs`. The three parts of the hypothesis (section 3)
exclude the behaviours of finding `kill_fails`, `MCEpochTornSlot.cfg` and `MCEpochSlotRace.cfg`; with any of them the statements are
false. That the frontier is at most one ahead of every participant (`Lag`) is kept by a scan that has passed
only participants at the frontier (`ScanBehind`), and to know that of a participant the scan has
to read the slot and not a copy of it: `OwnCache` and `ScanAhead` say what of the cached vector
is current. A slot is taken from its owner by a recovery only, hence `Verdicts` (a
condemned slot is still that of the process the verdict names, if it has an owner) and `Released`
(when the slot is freed that process is dead): a verdict reads pid and epoch of one owner, that owner can be
killed, and nobody takes the slot until it is released. `Running`, `Locked` and `CountExact` (the
operation count is the number of threads in an operation) say when the epoch of a process may
be written: by the heartbeat when there is no operation, by the first operation otherwise. For the
refinement, every step of the protocol is one of `Epochs` or changes nothing `Epochs` sees.

**`DelayedFreeProofs`** (any processes, threads, blocks): `TypeCorrect`,
`NoEarlyReclaimTheorem`, `InOnePlaceTheorem`, `PushPopApartTheorem`. `IInv` adds
`Synchronized` (participants are at the frontier or one behind), `WorkersInOp`,
and `Holders`: a block on list l that an operation in progress may still reach was
freed in an epoch r with l = (r + 3) mod 5, at most one epoch away from that
operation's own and not ahead of the frontier (`Pending`). The worker and the
operation both have the frontier or the epoch before it as theirs, so r + 3 is one
to four ahead of the worker's epoch, the list it drains is another one
(`FiveLists`: numbers at most four apart differ modulo five), and the block stays.

**`LockFreeStackProofs`** (any processes, blocks, initial owners): `TypeCorrect`,
`StackLinked`, `NoDoubleAllocation`, `ABACounterSuffices`, `Refinement`. `IInv`
adds `Pushing` (a block being pushed belongs to its process and is linked to the
head its process has seen) and `Copies` (no copy of the counter is ahead of it,
and no pop runs on an empty copy). The key is that a head equal to an old copy
with an equal counter has been on the stack since the copy was made: a block comes
to the head by a CAS that increments the counter, and the detach, which does not,
leaves the head empty. That head and counter are loaded one after the other does
not matter: the link is read after both, and if the pair is current when the CAS comes
nothing has moved since the counter was loaded (`SampleStep`).

**`ZoneProofs`** (any processes, any number of crashes, zones with `MaxLevel` up to 8, which is
what `ZoneAssumption` says of `Beyond`): `TypeCorrect`, `NoOverlapTheorem`, `TiledTheorem`,
`MergeAssertsTheorem`, `GCRecoversTheorem`, `BuddiesMergedTheorem`, `LevelRightTheorem`, `Refinement` of `Allocator`.
The invariant is about pieces: a chunk with the place where it is, a free list, the allocation
entries, a hand or the merge. `Tiling` says that every unit is in exactly one piece or lost, and
`Fit` that pieces are aligned and inside the zone; both are kept by one lemma each for what actions do to
pieces: move one (`Move`), replace some by others on the same units (`Renew`), cut one (`Cut`),
lose some (`Lose`). Which of these an action does depends on where the merge stands, since
the same field means the detached list at one step and nothing at another; the invariant has
therefore the control of the merge: `Holding` (what is in a hand, when), `OneMerger`,
`Levels`, `Recorded` (what a status in the header says of the steps done, also when the process that
did them is dead), `Chained`, `Posted`. `Marked` says that from `BITMAP_COMPLETED` on the
bitmap shows exactly the detached list; the lists built from it then cover the same units
(`BuildTiles`), a second time as well when a recovery builds them again, and have no two buddies
(`Paired`). `Sweeping` says of the collection that its bitmap has the units of the pieces
below its level, in whole blocks of that level, so what it pushes are lost units
(`GCTiles`) and nothing is lost at the top (`NextRecovers`). Pieces stay inside the zone until
the collection has passed the top level, where finding `zone_gc` is: `Fit` is claimed while
`~collected`, the tiling always. Powers of two need no induction: below ten levels they are listed (`Sizes`).
For the refinement, `AllocMark` and `FreeReset` are the steps of `Allocator` and all
others leave the used chunks as they are. `EveryLevelRight` is about the arithmetic alone
(words of 2 to 64 bits, every request up to half the range, every minimum size): a request of
more than 2^(c-1) and at most 2^c goes to the level of 2^c. The definitions are recursive functions, so each is shown to exist
first (`Pow2Exists`, `SmearExists`, `HalvingsExists`, ...). Statements about all exponents of a word come from
`UpTo`: a set with 0 and every number that follows one of its own, up to a bound, has all up to the
bound; that rests on the least element of a set of numbers (`LeastNumber`). After k shifts every bit reaches 2^k - 1
places down (`ShiftsReach`), after all of them down to bit 0 (`ShiftsFill`), and the number with those bits is
one below a power (`NumberOfLow`). `LevelRightTheorem` needs `ZoneSizesAssumption` (`MaxLevel <= Width - 2`), which holds
of 64-bit words in every zone `ZoneAssumption` allows.

**`PoolProofs`** (any processes, indices, files): `TypeCorrect`, with wrapping versions; and under
two hypotheses `ValidHasFileTheorem`, `VersionOnceTheorem`, `MarksOwnFileTheorem`,
`SoloRecoverCleansTheorem` and `Refinement`. `NoWrap`:
`MaxVersion`, the bound on what AddShelf gives out, is below the 2^15 versions of an index; without
it an old file and a new one have the same name and the statements are false. `OwnNames`:
two processes never draw the same of the 65536 numbers for a temporary file; the comment on
`pool.h:55-58` and the missing `O_EXCL` are discussed in section 3. The invariant: a version is given out by one
compare-and-store (`Bounded`, `SlotChange` in the proof), what an operation has read of an
item is true or older than the item (`Knows`), the file AddShelf carries is its own under
each of its names (`HasName`), nobody else has a claim on that name (`Apart`), and no file of
this pool has a version that was not given out (`FilesKnown`). Recover and RemoveShelf then delete
only files of versions that are past (`Deletes`), so the file of a valid item stays; `Opened`
keeps Create and Destroy away from all this. `Cleaned` follows a Recover that runs alone: of
every item it has passed the files that remain and the report are right, and of the one it is
at, the files still to be deleted are on its list. For the refinement, a file of a shelf that
stays is neither deleted nor replaced (`ValidFileStays`), the three ways an item changes are
`AddShelf`, `RemoveShelf` and `TakeVersion` (`OperationStep`), and `Dropped` keeps account of
Destroy: the indices it has gone past have no shelf, and it is alone, so none is left at the wipe.

**`DistHeapProofs`** (any finite sets of processes and threads, any shelves, blocks, capacity and
number of failures): `TypeCorrect`, `OneHolderTheorem`, `FreedOnceTheorem`, `Refinement`. `OneHolder` is not
inductive: it does not say why a cleaner that takes a shelf over takes it from
nobody. `IInv` adds `Holding` (the item of a shelf that is mapped, used or
recovered names that process, and a cleaner recovers no shelf that its own process
uses), `Verdicts` (a process a cleaner has found dead is dead), `Running` (who acts
or maps is up), `Named` (no item names a process that has not started), `Locked` (one
thread holds the write lock, and its process maps nothing then), `Working` and
`Mapped` (what is open, and by whom). `Identified` is a hypothesis of `OneHolderTheorem` alone, and of the conjuncts that
lead to it (`Holding`, `Verdicts`, `Named`); what is open and by whom, and all of `FInv`, holds without it.
A compare-and-store to a process that lives
then finds a dead owner or none, so nobody used the shelf (`NobodyElse`). That
the start time and the pid of an item are read one after the other does no harm
(`Verdict`): a mixture of two identities could name only a process that has
the start time of an owner of the item, and processes share a start time only if both
run from the start (`Identified`), so it is nobody who is still to come. The proof goes by kinds
of steps (`CalmStep`, `EnterStep`, `SearchStep`, `LeaveStep`, `FormStep`,
`CleanerStep`, `VanishStep`, `BirthStep`); every action is one of them.

`FreedOnce` counts copies; its invariant `FInv` speaks of places. `BlocksOnce`: a block is on one
list, among the freed ones or in one hand, once, and has been handed out. `PointersOnce`: a
pointer that was allocated is live, carried (`Moving`), in one block that is listed or popped
and unread (`Boxed`), given back (`Given`) or dropped, and in one of these only. `Hands` says who
can have something in hand, so that all steps but those of PutPointer, GetPointer and Free are
`Plain`: they move no block and no pointer (`PlainStep`). What is left out of all places is `Lost`,
and `Balance` bounds it by the threads that have died: every step but a death loses
nothing (`NoneLost`), and a death loses one pointer at most for each thread and
cleaner of the process (`LossBounded`, over the surjection `Loses`), because a cleaner between
GetPointer's pop and read carries no pointer beside the one in its block. `Standing` makes this hold across the life
of the heap: a shelf that is not in the pool has allocated nothing, so Format starts from a blank
heap and AddShelf's reset of the bump pointer takes no pointer back. Counting is why `DistHeapAssumption`
asks for finitely many processes and threads.

`Refinement` rests on the same invariants. A step that leaves what is allocated and pending (`Stays`), what is live, given
back and dropped, the room and the dead alone is a stutter (`Stutters`). Alloc and OpenShelfHeap show one new
object (`NewObject`). PutPointer and GetPointer move a pointer between `Moving` and `Boxed`, and
`PointersOnce` has it in one of them only, so `pending` stays when a pointer is put in a block or read from
one, and shrinks by the one that is given back or dropped. At a death the pointers that are no longer
pending were in the hands of the crew, one at most of each thread (`Loses`): that is the map `by` of `Die`.

**`MemoryManagerProofs`** (any processes, shelves, lives of the pool, any number of failures and
deaths): `TypeCorrect`, `TypeTellsTheorem`, `CountedShelvesExistTheorem`,
`PermissionsAgreeTheorem`, `NoNullShelfTheorem`. `MemoryManagerAssumption` says that `Gone`
is no process. None of the four is inductive, and they need each other. The ticket lock comes
first: no process has two tickets, and only the one that is served is past `spin` (`Tickets`), so
one process at a time changes the id (`OneChanger`). `TypeTells` speaks of the id when no
ticket is out; its invariant is `Told`: the type is right as long as the process that
is served has not begun to change anything (`Untouched`), and between its first change and
`SetType` it is `Creating` and `Removing` that know what is there: an empty pool that nobody has
open and that has no type (`Unknown`), or a heap whose shelves go in order. A dead process
keeps its turn for ever, so nothing is claimed behind it. For the heap, `Using` (the
header that is mapped is that of the pool that is there, and it is not being destroyed) is kept for whoever
is in an operation: `Abandoned` and the rules of `memory_manager.h` keep Destroy away from it, `Present` and
`Past` tell the shelves of one life from those of the next, and `Opened` says that what is mapped
exists. `OneWriter` and `Writing` make a lock of `op_in_progress`; `Resizing` and `Permitting` are what Resize and
SetPermission have read and done under it. A SetPermission that has changed some of the shelves and ends before the header is
`torn`, and a permission is claimed of the shelves again when one succeeds; `NoNullShelf` leaves Alloc and SetPermission out
after an opening that failed on a shelf that is there (`failed`), and says of all others that what
they use is open. `Cleaning` relates the flags of StartWorker, BackgroundWorker and
Close, so that `CloseShelves` never runs beside a cleaner that Close should have stopped. The
proof has a lemma `Next...` per conjunct, over what a step does to the shared state (`SharedEffect`), to the lock
(`Flow`), to the thread (`Arrive`) and to the views of a process (`Views`).

Only model-checked:

* liveness (`WriterServed`, `FrontierMoves`, ...): fairness is outside the prover's reach;
* the findings, which are counterexamples.

## 6. Not modelled

Components with status `not_modelled` or `partly` in `PROJECT.json` say there what is
left out. In short: logging, configuration and plain data; the translation of pointers
beyond what `NoNullShelf` needs (`MapPointer`, `LocalToGlobal`, `Map` and `Unmap` of ranges),
`RestartNVMM` (`ResetNVMM` and `StartNVMM` in a row) and the root pointers of
the user; `Zone::grow`; the widths and operations of the atomics nobody calls. Two
branches of `EpochZoneHeap` cannot be reached under the lock and have no action: a
missing shelf in the loop of Destroy, and a Destroy without a pool. A crash is the death of a process: memory and its order of
writes survive it. Power failures, where it matters which lines `fam_persist` has
flushed, are not modelled. The failure callback and
`reset_vector` of the epoch manager have no caller in the library.
