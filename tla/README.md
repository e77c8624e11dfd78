# A TLA+ model of shm_next

`shm_next` is a C++17 library for shared memory between processes: a POSIX
segment that several processes map, a manager at its start with a heap and named
objects, containers that live in it, and process-shared locks. This directory
models the parts of it whose correctness depends on interleavings, on processes
that die, on failures half way, or on long sequences of operations, checks them
with TLC on small instances, and proves with TLAPS, for all sizes, what the heap,
the manager's lock, the named objects, the life of a segment, the semaphore, the hash
table, the lists, and vectors and strings keep.

Paths below are relative to `src/interprocess/`.

## 1. Inventory

| Component | State | Operations | Hard because |
|---|---|---|---|
| `SharedMemoryBlockAllocator` (`allocator/detail/shared_memory_block_allocator.h`) | blocks that tile the segment, a free list sorted by size and address, a header below every payload | `allocate`, `allocate_many`, `deallocate`, `deallocate_many`, `try_expand`, `grow`, `shrink_to_fit`, `zero_free_memory` | splits and merges in any order; alignment and size arithmetic; a batch that fails half way; stale pointers |
| `SharedMemoryManager` (`allocator/shared_memory_manager.h`) | state word, magic, robust mutex, optional rwlock, generation counter, registry | sections under the lock, recovery after a death, read-only snapshots, `construct`, `destroy`, `find`, `recover_abandoned_named_objects` | deaths at any store; readers that cannot lock; constructors that run outside the lock |
| `NamedObjectRegistry` (`allocator/detail/named_object_registry.h`) | chained headers with a state and an owner pid, two counters | `insert`, `mark_ready`, `mark_not_ready`, `unlink`, `find_*` | updates cut short; pids that are reused |
| `ManagedSharedMemory`, `SharedMemoryObject`, `MappedRegion` (`ipc/`) | the name, the object and its size, the mapping of each process | create, open, open or create, remove, grow, shrink | creation in five steps that others can see; retries; failures of system calls; resizing in two steps |
| `InterprocessMutex`, `InterprocessSharedMutex` (`sync/`) | a robust mutex; an rwlock that is not robust | lock, unlock, recovery | death of an owner |
| `InterprocessSemaphore`, `InterprocessCondition`, `Synchronized` (`sync/`) | a count, a mutex and a condition variable | `post`, `wait`, `try_wait` | waiters that wake up into a dead owner's mutex, or die with a wakeup; spurious wakeups |
| `SharedMemoryNodePool` (`container/detail/shared_memory_node_pool.h`) | a stack of destroyed nodes, counters | `create`, `destroy`, `shrink_to_fit` | constructors that throw |
| `SharedMemoryRbTreeMap`, `SharedMemoryMap` | a red-black tree | insert, assign, erase, clear, searches, iteration | two fixup loops with mirrored cases |
| `SharedMemoryHashTable`, `SharedMemoryHashMap` | buckets, chains, an iteration list, a maximum load | the same, rehash, reserve, `max_load_factor` | two ways of linking the same nodes; failures between rehash and insert |
| `SharedMemoryList` | a ring of nodes through a sentinel, a pool | insert, assign, erase, resize, remove, unique, splice, merge, sort, reverse, swap, copy, move | nodes that change their list while pools do not; exceptions half way |
| `SharedMemoryVector`, `SharedMemoryString` | start, finish and end of one block | push_back, reserve, resize, erase, assign, append, copy, move | growing in place or moving; constructors that throw between two blocks; the character behind the last |
| `SharedMemoryAllocator`, `OffsetPtr`, errors, diagnostics | none of their own | forwarding, pointer arithmetic, formatting | - |

How they interact: the containers take memory through `SharedMemoryAllocator`
from the manager, which runs every call of the block allocator and of the
registry inside a section of its lock. Processes share nothing but the segment;
there are no messages. Whoever opens a segment waits for the state word, and a
writable opener runs the recovery of named objects. Read-only processes use the
generation counter in place of the lock. Containers are protected by a lock of
the application.

What makes each part correct: blocks tile the heap and belong to one holder each;
sections exclude one another and never start on a broken heap; a snapshot is a
state that existed; a name stands for one object, which is found only while it is
whole; nothing is lost or freed twice, whoever dies; nobody uses a segment before
it is ready, and heap never reaches beyond the file; a container is the map
or the sequence it stands for, and its iterators stay valid; a token of a
semaphore is neither lost nor handed out twice, and wakes somebody up.

## 2. Modules

| Module | Models | Composes |
|---|---|---|
| `BlockAllocator` | the heap | - |
| `RobustMutex` | the contract of a robust pthread mutex, as operators on a value | - |
| `ManagerLock` | sections, recovery, generation, read-only snapshots, with the rwlock and without | `RobustMutex` |
| `ManagerLockProofs` | theorems about `ManagerLock` | `ManagerLock` |
| `NamedObjects` | construct, destroy, find, recovery of abandoned objects | abstracts the lock of `ManagerLock` |
| `ManagedSegment` | the life of a segment: create, open, remove, resize | abstracts the heap of `BlockAllocator` to its tail |
| `Semaphore` | post, wait, try_wait and the condition below them | `RobustMutex` |
| `AbstractMap` | what a map promises | - |
| `NodePool` | the pool of nodes, as operators on a record | - |
| `RbTreeMap` | the red-black tree | `NodePool`; implements `AbstractMap` |
| `HashTable` | the hash table | `NodePool`; implements `AbstractMap` |
| `AbstractLists` | what lists promise: sequences of elements that keep their nodes | - |
| `List` | the lists of one segment | `NodePool`; implements `AbstractLists` |
| `AbstractArrays` | what vectors and strings promise: sequences | - |
| `Storage` | cells and blocks of a segment, as vectors and strings see them through `SharedMemoryAllocator` | - |
| `Vector`, `String` | their operations on a shared `Storage` | `Storage` |
| `Arrays` | vectors and strings side by side in one segment | `Vector`, `String`; implements `AbstractArrays` |
| `BlockAllocatorProofs`, `NamedObjectsProofs`, `ManagedSegmentProofs`, `SemaphoreProofs`, `ArraysProofs`, `HashTableProofs`, `ListProofs` | theorems about the module each is named after | that module |
| `MC...` | instances for TLC | |

Definitions keep the names of the functions they model. A definition whose name
ends in a remark (`find_any_ready_only`) and whose comment begins with "Mutant"
is the definition below it with a plausible bug: it is used by no specification
and shows that a property can fail.

### BlockAllocator

`size` maps the offset of each block to its size, `is_free` is the set of blocks
with the flag, `free_list` the list along `next_free`, and `header` the
`AllocationHeader`s in memory by payload offset, including those of freed
payloads, because `deallocate` believes them. `live` is what callers hold. Header
sizes (32 and 16 bytes) and the alignment (16) are those of the code, and sizes
wrap at `SizeModulus`. An operation is one step, since it runs inside a write
section; the batch operations are a step per element, because they can fail at
each one. The walks `physical_previous`, `last_block` and `is_block_in_chain` stop
at a malformed block (`WellFormed`, `WalkReaches`), as the loops in the code do.

### RobustMutex and ManagerLock

A process goes through the labels of `with_manager_write_lock` or
`with_manager_read_lock`: rwlock (in a build with
`SHM_NEXT_ENABLE_MANAGER_SHARED_MUTEX`; `Init` chooses one of `Builds`), mutex, check and repair after
an owner's death, begin (generation odd), write, end, unlock. The metadata is a
set of cells that agree between sections; a write section advances them one by
one in any order, so cells that differ are an operation half done. `check_sanity`
sees `HeapCells` only, as `check_sanity_unlocked` does not look at the registry. It is
idealised in one respect: it notices every operation on the heap that is half done.
The code's check compares the blocks and the free list with each other, and a death
that leaves them whole (between two blocks of `allocate_many`, or between two calls of
the allocator) passes it.
Read-only processes load the generation, read the cells one by one, load it again
and retry; both loops are bounded by `MaxAttempts`. `Die` is possible at every
label. The pthread calls are external: `RobustMutex` states their contract.

### NamedObjects

Every store of `reserve_named_storage`, `mark_named_object_ready`, `destroy`,
`deallocate_named_storage_unlocked` and `recover_abandoned_named_objects` that a
death can separate from the next is a step. `blocks[h]` says which of the three
allocations behind a header exist. `lock` is the section of `ManagerLock`,
reduced to mutual exclusion: a death inside a section frees it, which is what
recovery does when the heap is sane, and the heap is sane after each call of the
allocator (`HeapInv` of `BlockAllocator`). `torn` remembers that a death hit the
inside of a section, and excuses what such a death leaves in the registry and the
counters; `OpenCleans` excuses a header whose pid belongs to another process by now.
`built`, `orphans` and `torn` are ghosts that no guard reads.

### ManagedSegment

Objects are numbered in the order in which they are made; `name` leads to one or
to none. Each process has its descriptor, its mapping's length and its locals.
`Truncate`, `MapAndZero`, `Claim`, `Construct`, `Publish` are the steps of a
creator, each of which may fail as the code's does; openers look at size and
state in `attach_existing_with_retry`. `grow` and `shrink_to_fit` are a step per
system call and per change of the heap. They require that nobody else uses the
segment (`NobodyElse`), which `docs/design_for_beginners.md` demands of callers; a
death in the middle, a failure of every call, and the next process that comes
along are in the model. The rollback of `shrink_to_fit` maps the object again
(`ShrinkUndo`), which may fail like any other call and then ends `shrink_to_fit` with
the heap left shrunk; if it succeeds, `grow_to_size` has its say (`ShrinkRegrow`),
and its result is ignored. Of the heap only `tail`, the beginning of its free end,
matters.

### Semaphore

Each call locks the mutex, tests and changes `count`, notifies, and unlocks, a step
each. `pthread_cond_wait` is what POSIX says of it: releasing the mutex and falling
asleep are one step, waking up and locking again are two. `notify_one` wakes any
one of the sleepers, also one that died in its sleep and is still counted by the
condition; `lost` counts the wakeups that went to the dead. A sleeper may wake
without a reason (`WakeSpuriously`). `Die` is possible at every label. Whoever
locks after a death gives the mutex up, as `InterprocessMutex::lock` does, so that
nothing works afterwards; the two ways in which `pthread_cond_wait` meets such a
mutex are `RelockOwnerDead` and `RelockNotRecoverable`. `posted`, `granted` and
`lost` are ghosts that no guard reads.

### NodePool, RbTreeMap, HashTable, AbstractMap

`RbTreeMap` keeps links, colours and keys per node, and treats left and right as
the two values of a side, so that each pair of mirrored cases in the code is one
case. An insertion is a step that links and then one step per round of
`insert_fixup`; an erasure likewise. `HashTable` keeps the bucket array, the
chains (`bucket_prev`, `bucket_next`) and the iteration list; an operation is one
step, and memory refused or a constructor that throws are steps of their own
(`InsertThrows`, `MaxLoadFactorThrows`). A maximum load is a whole number of parts of
`LoadUnit`, which stands for 1.0: as `LoadUnit` is arbitrary, so is the maximum, as
long as it is positive and finite. Arithmetic is exact.
`MoveAway` moves the table into another one that is destroyed, and leaves a table
without buckets to go on with; `MoveAssign` moves a new table into it. Node storage comes from `heap` through the pool.
`AbstractMap` is a set of pairs; both containers map to it by `Contents`, the pairs
of the nodes that can be reached, and TLC checks `MapSpec == Map!Spec`.

### List, AbstractLists

The rings, sizes and pools of all lists, and the heap that they share. A sentinel
is named by its list. An operation works on all of this as one value (`Now`,
`Becomes`), so that those which call each other in the code (`swap`, `clear`,
`adopt_nodes_from`) are operators that compose. An operation that constructs
elements may stop after any of them, and so may the predicates of `remove_if` and
`unique`; `merge` and `sort` call the comparison before they touch a link. Copy
and construction go through a list `Temp` that lives within one step. In
`AbstractLists` an element is a pair of a node and a value: an operation that keeps
an element keeps its node, whichever list it ends up in, and this is what makes
iterators valid. The abstract operations are those of sequences (cut, paste, stable
sort), without links, sizes or pools.

### Storage, Vector, String, Arrays, AbstractArrays

A cell has the size of an element and is raw or holds an object. Constructing over
an object, or destroying what is none, leaves a broken cell; a loop that constructs
or destroys is one map over the cells, since its iterations touch different cells. `allocate` places a
block anywhere it fits, and `try_expand` works if the cells behind the block are
free: which of the two paths `reallocate` takes depends on what the other arrays
have left free. Characters of a string are not constructed; a string's block has
one cell more than its capacity. Failures are their own actions (`CopyThrows`,
`ResizeThrows`, `EraseThrows`, `PushBackThrows`, `AssignThrows`).

## 3. Runs

| Run | Checks | Shows |
|---|---|---|
| `block_allocator` | `HeapInv` (types, `check_sanity`, tiling, merged and sorted free space, one block when nothing is held), `PayloadsSafe`, `FailedBatchRestores`, `PayloadsStay` | every sequence of operations keeps the heap sane, allocations apart and unmoved, leaks nothing, and undoes failed batches exactly |
| `manager_lock` | `TypeOK`, `WriterExcludesAll`, `SectionsStartSane`, `GivenUpIsClosed`, `SnapshotHeapWhole`, `SnapshotExact`, `OnlyRwlockLosesLock`, `SnapshotEnds` | exclusion, recovery and snapshots with a death at any step, in both builds; only a death that takes the rwlock along blocks the others |
| `rwlock_death` (violation) | `LockNeverLost` | a death under the rwlock blocks everyone for good |
| `named_objects` | `RegistryInv` (types, unique names), `PendingHeaderKept`, `FreedOnce`, `ReadyIsWhole`, `UntornIsClean`, `OpenCleans` | named objects with deaths at any store, and pids that are reused; a writable open leaves nothing behind that a dead process did not finish |
| `destroy_death` (violation) | `DestroyingReachable` | a death between unlinking a header and freeing its blocks leaks them |
| `managed_segment` | `SegmentInv` (types, the file covers the heap), `AttachedIsUsable`, `SoleCreator`, `FailureRestoresHeap`, `EveryCallEnds` | creating, opening, removing and resizing with failures, also of a rollback, and a death; what a failed rollback leaves can still be grown back |
| `semaphore` | `SemaphoreInv` (types, tokens conserved), `NoLostWakeup`, `ClosedForGood`, `WaitersAreServed` | no token and no wakeup is lost, with spurious wakeups and a death at any step; what a death does not close keeps serving |
| `semaphore_death` (violation) | `OwnerDeathIsReported` | a waiter that meets the death of an owner gets a bare `EOWNERDEAD`, and the next one is terminated |
| `rb_tree_map` | `TreeInv` (types, search tree, red-black rules in every round, short fixups, no lost storage), `SearchExact`, `NodesStay`, `MapSpec` | the tree is a map, balanced, with stable iterators |
| `hash_table` | `TableInv` (types, chains match the list, exact searches, no lost storage), `LoadKept`, `OrderKept`, `MapSpec` | the table is a map, with stable iterators in the order of insertion and a bounded load; the one way above the maximum is a first insert at a maximum below one element per default bucket array |
| `list` | `ListInv` (types, rings lead back, no lost node), `ListSpec` | the lists are sequences whose elements keep their nodes, also when operations stop half way and nodes change pools |
| `arrays` | `ArrayInv` (types, blocks owned, lifetimes exact), `StringsTerminated`, `ArraySpec` | vectors and strings are sequences; growth, moves and failures leak no block, construct and destroy everything once, and keep strings terminated |

### Bounds

- Heap: 352 bytes of which 48 are the manager's, requests of 1, 40 and 100 bytes
  at alignments 8 and 64, batches of two and three, growth to 368 (too small for a
  new block, enough for a free tail) and 453 (not a multiple of 16). Up to five
  blocks: enough for a block with free neighbours on both sides next to ones in
  use, for best fit to choose, and for batches to fail at the second and third
  element.
- Lock: two processes of either build, one reader, two cells of the heap, one
  death, generation up to 3 (a second write section during one snapshot), two
  attempts instead of 1024. With the rwlock the two processes meet as two readers
  and as a reader and a writer.
- Named objects: three processes, two names, three headers, two deaths, pids reused.
- Segment: two processes, two objects under the name, one death, two attempts
  instead of 100, a page of 4 units, sizes 0, 1 and 7, growth by 1 and 4, objects of up
  to two pages.
  `remove` happens once, so `open_or_create` goes around its loop a bounded number
  of times; with others removing and creating for ever it could do so for ever.
- Semaphore: three processes with two calls each, one spurious wakeup, one death,
  and a count of at most 2 in place of `UINT_MAX`: two waiters can sleep while a
  third process posts twice, the count reaches its limit, and a token can be taken
  by a third process in front of the waiter that was woken for it. The calls are
  bounded and a waiter may rightly sleep for ever, so deadlock is not checked;
  `WaitersAreServed` says which sleep is right.
- Tree: eight keys, as the smallest tree in which an insertion repaints and then
  rotates higher up has eight nodes, and one in which an erasure climbs twice seven.
- Hash table: five keys and nodes, two buckets by default (8 in the code) and at
  most eight, maximum loads 1/4, 1/2, 1 and 2, requests of 0, 1 and 3 buckets. At 1/4
  two buckets are too few for one element, and eight are enough for no more than two.
- List: two lists, four nodes, three values of which two have the same rank (so
  that an unstable sort shows), ranges of up to three, one of them with two equal
  values side by side. Four nodes suffice for a range in the middle of a list, for a
  splice within a list in both directions, and for a copy that runs out of memory.
- Arrays: two vectors and two strings in six cells, two values, texts of up to two
  characters: a vector can be hemmed in on both sides, grow into a gap, or find no
  room at all.

`SYMMETRY` is used only in runs without liveness properties, over processes,
names, headers and cells that nothing tells apart. A `VIEW` is used where states
differ in what no step and no checked property reads: `LiveView` forgets headers
of payloads that nobody holds, `KeyView` forgets which storage holds which key and
the order of the cached nodes, `PlaceView` the same for lists and the counter of
allocations, which no step of a list depends on. The views keep everything that
decides which steps follow, up to a renaming of storage. No run with a view checks
a liveness property.

### Fairness

Weak fairness on the steps of a call that has begun (`Step`, `ReaderStep`,
`Continue`), per process: a process that is alive is scheduled, and a blocked
`lock` is woken when the lock becomes free. Nobody has to start a call, and
nothing is assumed of the order in which waiters are served; therefore
`OnlyRwlockLosesLock` says that some waiter gets in, not which. In `Semaphore` a
sleeper has no step of its own: it depends on `notify_one`. There calls are
bounded, so that nobody is kept from the mutex for ever. A dead process takes no
step. Deaths and spurious wakeups are bounded, never fair.

## 4. Findings

Runs that show the code and its documents in disagreement:

1. `rwlock_death`: `SHM_NEXT_ENABLE_MANAGER_SHARED_MUTEX` puts an rwlock that is not
   robust in front of the robust mutex; the recovery that the documents describe is
   then out of reach. `OnlyRwlockLosesLock` of `manager_lock` shows that this is the
   only way to lose the lock.
2. `destroy_death`: `deallocate_named_storage_unlocked` unlinks first and frees
   afterwards, so that a death in between leaves nothing for
   `recover_abandoned_named_objects` to find.
3. `semaphore_death`: a waiter locks its mutex again within `pthread_cond_wait`. If
   the owner has died, `InterprocessCondition::wait` throws `EOWNERDEAD` in
   `system_category` and not `InterprocessErrc::owner_dead`; the guard unlocks an
   inconsistent mutex, the waiters after it get `ENOTRECOVERABLE` without the
   mutex, their guards unlock it all the same, and the exception of `unlock` leaves
   a destructor.

### Observations

Met while translating; no run is about them, and the models keep clear of them as
said in parentheses.

- `initialize` does not round the size of the first block down: a segment whose size
  is not a multiple of 16 fails `check_sanity` from the start, and a recovery on it
  gives the manager up. (The instance has a multiple of 16; with
  `TotalSize = 301` TLC reports `HeapInv` in the initial state. Growth to sizes that
  are no multiple of 16 is in the instance.)
- `deallocate` detects a double free only while the block is still free. Once it was
  handed out under another alignment, the old header can survive below the new
  payload, and a stale pointer frees the new owner's block. (`DeallocateOutcome` says
  what the code decides; callers of the model free what they hold.)
- `make_layout` adds without a check: requests near `SIZE_MAX` wrap. (`SizeModulus`
  is far above all requests of the instance.)
- `SharedMemoryVector::push_back(v[0])` at full capacity reads its argument after
  the block was given back. (Arguments of the model are values.)
- `SharedMemoryString::append` of nothing to a string that was moved from writes
  through its null `start`. (Guard of `append`.)
- `SharedMemoryList::remove(value)` where `value` is an element that gets erased
  compares the rest with a destroyed object. (Arguments are values.)
- The pool's count of allocations goes wrong when nodes change lists, and stops at
  zero in `shrink_to_fit`; it is a statistic. (`ListInv` does not speak of it;
  in the two maps, where nodes do not change pools, it is exact.)
- The copy constructor of the tree has no handler, and that of the hash table
  clears but does not shrink its pool: if an element cannot be copied, the nodes
  made so far are lost. The list's constructors do it right, and are modelled.
- A `shrink_to_fit` of a segment whose rollback fails reports failure while the heap
  stays shrunk: `managed_shared_memory.h:357-364` swallows what
  the rollback throws, and `grow_to_size` is not asked whether it has worked. The heap
  is whole and its object large enough. (In the model; `FailureRestoresHeap`.)
- `max_load_factor` rejects values that are not positive, but a NaN passes: every
  comparison with it is false, and inserts never grow the buckets again. An infinity makes
  `ceil` return 0. (Maxima of the model are finite numbers.)
- A hash function that throws within `relink_all_buckets` leaves the old buckets
  with links of the new ones. (Hashes of the model are total.)

## 5. Proofs

Every theorem holds for all values of the constants that satisfy the assumptions of
the modules. Each `...Proofs` module names an inductive invariant `IInv`, in parts,
shows that the initial states satisfy it and that every action keeps every part,
and derives the properties that TLC checks. TLC has also checked every `IInv` as an
invariant of the instances of section 3; where `IInv` says that sequences exist (the
hash table and the lists), it checked the walks and caches themselves for them. None
of the safety properties below is inductive as it stands.

| Module | Theorem | Property |
|---|---|---|
| `BlockAllocatorProofs` | `HeapCorrect` | `[]HeapInv` |
| | `PayloadsCorrect` | `[]PayloadsSafe` |
| | `PayloadsUntouched` | `PayloadsStay` |
| | `RollbackRestores` | `FailedBatchRestores` |
| `ManagerLockProofs` | `TypeCorrect` | `[]TypeOK` |
| | `MutualExclusion` | `[]WriterExcludesAll` |
| | `NoSectionOnBrokenHeap` | `[]SectionsStartSane`, the even generation included |
| | `GivenUpStaysClosed` | `[]GivenUpIsClosed` |
| | `SnapshotsAreExact` | `SnapshotExact` |
| | `SnapshotsAreWhole` | `[]SnapshotHeapWhole` |
| `NamedObjectsProofs` | `RegistryCorrect` | `[]RegistryInv` |
| | `PendingKept` | `[]PendingHeaderKept` |
| | `NoDoubleFree` | `[]FreedOnce` |
| | `ReadyWhole` | `[]ReadyIsWhole` |
| | `RecoveryComplete` | `OpenCleans` |
| | `CleanUnlessTorn` | `[]UntornIsClean` |
| `ManagedSegmentProofs` | `SegmentCorrect` | `[]SegmentInv` |
| | `AttachSafe` | `[]AttachedIsUsable` |
| | `OneCreator` | `[]SoleCreator` |
| | `FailureRestores` | `FailureRestoresHeap` |
| `SemaphoreProofs` | `SemaphoreCorrect` | `[]SemaphoreInv` |
| | `WakeupsKept` | `[]NoLostWakeup` |
| | `ClosesForGood` | `ClosedForGood` |
| `ArraysProofs` | `ArraysCorrect` | `[]ArrayInv` |
| | `TextsTerminated` | `[]StringsTerminated` |
| | `ImplementSequences` | `ArraySpec`, the refinement of `AbstractArrays` |
| `HashTableProofs` | `Invariant` | `[]IInv`, its own inductive invariant |
| | `TableCorrect` | `[]TableInv` |
| | `LoadBound` | `LoadKept` |
| | `OrderCorrect` | `OrderKept` |
| | `MapRefined` | `MapSpec`, the refinement of `AbstractMap` |
| `ListProofs` | `Invariant` | `[]IInv`, its own inductive invariant |
| | `ListCorrect` | `[]ListInv` |
| | `ListRefined` | `ListSpec`, the refinement of `AbstractLists` |

### The heap

`IInv` says that the blocks tile the segment in both directions (`Geometry`), that
the free list holds exactly the free blocks in order (`FreeSpace`), that no two
neighbours are free (`Merged`), what headers are (`HeaderTypes`), that payloads and
headers lie apart (`PayloadsSafe`), and that a batch works on distinct live payloads
(`BatchInv`). Splitting, merging, inserting and removing are lemmas about heaps as
values, used by every operation. `FailedBatchRestores` needs a second invariant,
`RestoreInv`: the blocks in use are those before the batch and those of the payloads
handed out so far. A merged heap is determined by the blocks in use and their sizes
(`HeapDetermined`), so when the last payload is given back the heap is the old one,
the order of its list included.

The theorems have a hypothesis, `Fitting`: the segment is a whole number of
granules, and no request is so large that adding headers and padding wraps. The code
takes both for granted and checks neither; without the first the first block has an
illegal size (listed as a hazard), and without the second a huge request would be
taken for a small one. Everything else, the width of `std::size_t` included, is
arbitrary.

### The manager's lock

The assumption is `LockAssumption`: `Nobody` is no process, `HeapCells` are cells,
`Builds` are truth values, the bounds are numbers; the proofs cover both builds, with
and without the rwlock. `IInv` consists of
- `MutexInv`: who owns the mutex is said by the labels, and it is inconsistent
  exactly while its owner checks the heap (exclusion follows from this);
- `RwlockInv`: with the rwlock, only its exclusive holder comes near the mutex, and
  if that process dies nobody does (so a reader never meets a recovery);
- `GenerationInv`: the generation is even at the ends of sections and odd inside
  write sections and after giving up;
- `HeapInv`: an even generation means a whole heap, and a write section has
  advanced exactly the cells that are not in `todo`;
- `SnapshotInv`: while the generation has not moved since a reader's first load,
  every cell it has read is as it was read, and what it has returned is whole;
- `RetriesInv`: a reader that still tries has a try left, for the types.

That the generation only grows, and that adding one flips its parity (`OddNext`),
is what makes a snapshot with the same even generation at both ends exact.

### Named objects

`IInv` relates the label of a process to the header it works on: whether it has the
lock (`Position`), whether the header is linked (`Linkage`), what the header says
(`Stage`) and what is allocated and constructed (`Storage`); no two processes have
the same header (`Disjoint`), what is linked is allocated and what is ready is
constructed (`LinkedInv`), and what a dead process left stays linked and not ready
until a recovery takes it (`OrphanInv`). The sets of processes, names and headers
are arbitrary, pids may be reused, and any number of processes may die.
`UntornIsClean` needs `CleanInv` besides: until a death inside a section, the counters
differ from the registry by exactly the store that the process inside has yet to
make (`TotalDue`, `ReadyDue`), and every allocated header is linked or in the hands
of that process (`Accounted`).

### The life of a segment

`IInv` says what each process on its way knows of its object: the creator (the file
is empty until it truncates, the state word is still that of its step, and its
mapping covers the object: `Creating`), who attaches (`Attaching`), and who resizes
(it is alone, and the sizes it would go back to are still possible: `Maintainer`);
that published heaps end within their objects (`HeapEnd`); that the name leads to
the newest object (`NameInv`), and objects not made yet are empty (`FreshInv`).
`FailureRestores` follows from `Maintainer`: at every label of `shrink_to_fit` the heap
either has its old size or is one that `grow_to_size` would take back to it, so the
result that the code ignores is never a refusal. That is all that can be said where
the rollback fails or its process dies: the heap is then smaller than it was. The
sizes of manager, blocks and pages are arbitrary within `SizesAssumption`. The bound
`MaxObjects` is at least 1 (`BoundsAssumption`).

### The semaphore

`IInv` says who owns the mutex and when it is inconsistent (`MutexInv`), that labels
agree with calls (`CallInv`), and that the count is the balance of the calls that
returned and of the one inside (`BalanceInv`). `NoLostWakeup` compares the sizes of
sets of processes: the waiters and notifiers are finite subsets of `Procs`, and each
action moves one process into or out of them. The bound of the count, the width at
which it would wrap, and the numbers of calls, wakeups and deaths are arbitrary.

### Vectors and strings

`IInv` is `Sound`: every array has no block or one within the segment (`Shapes`), no
cell is in two blocks (`Apart`), the allocated blocks are those of the arrays
(`Owned`), and elements, characters, `CharT(0)` and raw cells are where they should
be (`Filled`). `Puts(m, vc, st, x, t, m2, vc2, st2)` says that going from one state to
another keeps `Sound` and changes the contents of the arrays in exactly one place:
array `x` now contains `t`. Two lemmas, `VectorReplaced` and `StringReplaced`, show it
once for any new array in an array's own cells and free ones; every operation, its
growth in place, its move to another block and each of its failures is then one
lemma of the form "the operation `Puts` ...". Together they prove the refinement: an
operation is the step of `AbstractArrays` with the same argument, and relocating,
expanding or failing is a stuttering step. An `erase` that fails in the middle is the
abstract step that leaves the moved elements. The assumptions are that the marks of a
cell are no elements and that a vector is no string.

### The hash table

A chain, and the list of all nodes, is what a walk along the links finds. `IInv`
therefore names the walks instead of computing them: there are a sequence `w` of
different nodes, one sequence per bucket, and a sequence `f`, such that `w` is linked
in both directions from `head` to `tail` (`Listing`), every bucket's sequence is
linked in both directions and holds exactly the nodes of `w` whose hash leads there
(`Chained`), no key is there twice, `f` is what the pool has cached, and the nodes of
`w`, those of `f` and the heap are the storages, each once (`Partition`). That a walk
over `next` then finds `w` (`AlongIs`) needs an argument about every length; the walk
is a recursive function of the number of steps, and the argument is by the least
number of steps at which it would differ. `relink_all_buckets` is treated in the same
way: after `i` nodes the buckets chain the first `i` of the list.

`Outcome` says of a state whether it is sound with the sequence `w`, and `Stepped`
what a step may do to `w`: nothing, a new node at the end, one node less, or none left.
There is one lemma per action that shows this. `OrderKept` and the refinement follow
from `Stepped` alone. `LoadKept` is arithmetic on the number of buckets: `CeilFacts`
for the division, `RehashFacts` and `InsertFacts` for the counts that `rehash` and
`maybe_rehash_for_insert` settle for. A table within its maximum stays there, with one
exception that `LoadKept` names: doubling makes room for one more element if there is
one already, but a first element may be too much for `DefaultBucketCount` buckets, in
the code at a maximum below 1/8. An insert into a table that a failed
`max_load_factor` has left above its maximum makes room for all elements that are
there.

The assumptions are those of `HashTable`: the storages are finitely many addresses
that are not null, the hash function has numbers for values, there are a key and a
value, and numbers of buckets and maximum loads are positive (`TableAssumption`).
Nothing is assumed of how `LoadUnit`, the maximum loads and the default number of
buckets compare.

### The lists

`IInv` names the walks here too, and says where every node is: there are a sequence
`W[l]` of linked nodes and a sequence `F[l]` of cached ones for every list `l`, and a
home `H[n]` of every node `n`. `Sound` relates them to a state: every list is a ring of
its sequence through its sentinel (`IsRing`), its size is the sequence's length, its
pool caches `F[l]`, and `H` says of each node that it is in exactly one list, one cache
or the heap (`Kept`). `TempFree` adds that nothing is left in the list that lives
within a step.

The rings have a lemma for each way of relinking (a chain hung in, a chain cut out, two
rings exchanged, all nodes relinked in a new order), and `WalkIs` shows that the walk
of a ring is its sequence: `BetweenIs` does it by the least number of steps after which
the walk would differ. On them rests one lemma per operator of the model (`EmplaceSound`, `EraseSound`, `ClearSound`,
...), which says what it does to `W` and that `Sound` stays; since the operators
compose, so do the lemmas. The loops that may stop half way (`InsertSome`, `EraseAll`,
`remove_if`, `unique`) and `relink_nodes_in_order` are functions of the number of
rounds, and what is true after each round follows by the least one after which it would
not be. That the result of `stable_sort` has each node once follows from its places: the
number of elements that go before an element, counted with those of the same rank that
stand in front of it, differs for any two.

For the refinement, the content of a list is the sequence of its nodes with their
values. Each action has a lemma that its step is the one of `AbstractLists` with the
same arguments, or, where it only moves nodes between caches and the heap, a stuttering
step. `ListCorrect` follows from `IInv` alone.

The assumption is that of `List` (`ListAssumption`): finitely many storages that are
numbers, `Temp` none of the lists, no list is a storage, there is a value, ranks are
numbers, and the ranges that are inserted are sequences of values. The number of lists,
the order of the values, and the largest size are arbitrary.

### Only model-checked

- Liveness (`OnlyRwlockLosesLock`, `SnapshotEnds`, `EveryCallEnds`,
  `WaitersAreServed`) depends on fairness, which the prover does not handle.
- `TreeInv`, `SearchExact`, `NodesStay` and `MapSpec` of `RbTreeMap`: the height of a
  tree and the set of its nodes are computed by recursion over its shape, and what
  such a recursion returns for every shape takes induction over trees, which the
  installed provers cannot do. The walks of the hash table and of the lists could be
  named by a sequence; a tree cannot be named in this way without defining the
  recursion again.

## 6. Not modelled

- `Synchronized` and `with_lock`: a value next to a lock, no state beyond that of
  the lock; the timed and try variants of the locks; `notify_all`, which nothing in
  the library calls.
- Copying of the two maps (see Observations for the failure paths; the tree's copy
  assignment is a clear and inserts, which are modelled),
  hash functions and comparisons that throw in them; containers of different
  managers, which the code refuses or copies element by element.
- `OffsetPtr` (address arithmetic below the level of the models), error codes,
  statistics, layout versions, and the wrappers that only forward.
- Weak memory: all modules are sequentially consistent. The second load of the
  generation is an acquire load, which does not keep earlier plain reads before it
  on every machine; this is listed as a hazard.
- Requests near `SIZE_MAX`, and alignments above a page.
- The rounding of floats in the comparison of `maybe_rehash_for_insert`, which begins
  at 2^24 elements, and maximum loads that are not finite numbers.
- Removes for ever: `MaxObjects` bounds them, and with them the rounds in which
  `open_or_create` finds a name that exists and then does not.
- Concurrent maintenance: `grow` and `shrink_to_fit` while others use the segment.
- Containers are used under a lock of the application, so their operations are
  steps; a process that dies inside one leaves a container that nobody repairs, and
  nothing in the library says that it could be.
- A death inside a section is in `NamedObjects`, but what it does to the counters
  and to blocks half reserved is excused by `torn`, except in `destroy_death`.

## 7. Plan

Done, in this order: the heap, the manager's lock with its proofs, named objects,
the life of a segment, the two maps over their pool; then the semaphore with its
condition, the lists, vectors and strings, and the abstract sequences that they
implement; then proofs about all of these but the tree. Next:

1. An abstract specification of the lock (sections as atomic steps on the cells)
   that `ManagerLock` implements, and the refinement proved.
2. Copying of the two maps with its failure path.
3. Snapshots under delayed reads.
