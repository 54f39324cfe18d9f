# A verification of the Real Time Library

The Real Time Library is a C allocator (`librtl`) and a set of C++ classes on
top of it (`librtlcpp`): containers that report failure instead of throwing, and
the pieces that threads share, a lock-free ring buffer, a spin lock,
reference-counted pointers and a periodic worker thread. This directory holds
TLA+ modules of its parts, the TLC models that check them on small instances,
and TLAPS proofs for all instances. `PROJECT.json` maps each definition to the
lines it models and lists runs, mutants, findings, hazards and theorems.

## Inventory

| Part | State | Operations | Module |
|---|---|---|---|
| TLSF allocator (`librtl/memory.incl`) | bitmaps, free lists, block headers in the region | `rtl_tlsf_make_arena`, `rtl_tlsf_alloc`, `rtl_tlsf_free` | `TlsfMapping`, `Tlsf`, contract in `Heap` |
| `spsc_ringbuffer` | buffer, two atomic indices | `write`, `write_bytes`, `read`, `alloc_contig`, `compound_alloc_contig`, `commit_write`, `read_contig`, `commit_read`, `approx_size`, `approx_free_bytes` | `RingBuffer` |
| `unordered_map` | main and secondary table, state, transfer cursor, lock of the table size | `put`, `get`, `contains`, `del`, `delete_all_keys`, `reserve`, `finalize`, `lock_table_size` | `UnorderedMap` |
| `vector` | buffer, count, capacity | `push_back`, `pop_back`, `remove_fast`, ... | `Vector`; `remove_fast` and `begin`/`end` inside `UnorderedMap` |
| `shared_ptr`, `weak_ptr` | control block with two atomic counters | creation, copy, move, `reset`, `lock` | `SharedPtr` |
| `PeriodicTask` | flags, mutex, condition variable, thread | `start`, `notify_one`, `signal_shutdown`, `join`, destructor, worker loop | `PeriodicTask` |
| mutexes | atomic flag | `lock`, `try_lock`, `unlock` | `SpinLock`, contract in `Mutex` |
| `RTAllocator`, `MMapMemoryResource` | arena pointer, mutex; mapped buffer | `init`, `allocate`, `deallocate`, `is_initialized`, `uninit`, moves, destruction | `RTAllocator` |
| `object_pool` | vector of free objects | constructor, `get`, `get_auto`, `put`, `add_to_pool`, `set_elasticity`, moves, destruction | `PoolOps`, `ObjectPool` |
| `lru` | intrusive list, map, pool | constructor, `get`, `put`, `reset`, moves, destruction | `Lru`, contract in `RecencyCache` |
| `unique_ptr`, hashes, utilities, headers | none that calls or threads share | | not modelled |

How they interact: every container allocates through an allocator object, which
is a mutex around a TLSF arena, and must cope with a null answer; the map keeps
its buckets in vectors; the cache composes map and pool. Threads meet in four
places: the ring buffer (one writer, one reader), the control block of shared
pointers, the periodic task, and the mutex of an allocator.

What is hard here: stale copies of the other thread's index in the ring buffer;
frees in any order, with header words that were user data a moment ago; an
amortised resize during which a key lives in one table, in the other or in
both, and any allocation may fail; two counters that are updated in separate
atomic steps; a shutdown that must not fall between a test and a wait; two
allocators moved onto each other while a third thread is inside an arena; a list,
a map and a pool that must agree after any call that ran out of memory;
arithmetic at the edge of a word. The `hazards` of `PROJECT.json` name each at
its line.

## The modules

Each helper of the code is an operator with the name it has in the code, and
each call of the interface is one action, except where other threads can see
the middle of a call: there every access to shared memory is a step.

**TlsfMapping, Tlsf, Heap.** The arena is one record; a bitmap is the set of its
1 bits; `blk` maps the offset of each block header to its fields, and the two
flag bits of the size word are fields of their own. Arithmetic is modulo
`2^WORD_SIZE_BITS`; word size, number of second level classes, alignment and the
width of `int` are constants. An arena has no blocks until `rtl_tlsf_make_arena`
(`Made`); `live` is what the client holds. `Limits`, `NoWrap` and `HeaderAligned`
are conditions on the build and on the sizes, outside which the code fails (see
the known limits). `Heap` states the
contract of `memory.h` with nothing but disjoint regions and the size each was
asked for, and `Tlsf` is shown to implement it (`ImplementsHeap`), mapping each
held block to its user region and to the `sz` of the call that returned it: a
region that is large enough for some other request does not do.

**RingBuffer.** `prod` and `cons` are the two threads: where each is, the index
of the other it has loaded, and what it has decided to copy. A call is two
steps, loading the indices and storing the own index; the copy happens in
between, so that what it touches is seen by every interleaving. Loads and stores
are acquire and release, and each index has one writer, so the value loaded is
some value since the last load; loading at the moment of the decision covers the
others, since the decision is then kept while the other thread moves on. Bytes
are numbered in the order of their acceptance; `sent` and `got` count them.
Where a copy writes more than it should, the surplus is `Junk`.
`write_bytes` breaks the protocol when the space is short (see the findings);
with `CheckedWriter` the writing thread calls it only after `approx_free_bytes`
has shown enough space, and the other properties hold for such a writer.

**UnorderedMap.** One object used by one thread; the environment chooses which
allocations of a call fail (`fail`, and `good`, the number of entries that are
moved before one fails). `content` is what the return values have told the
client. `hung` marks a call that can never return. `del` of a key that was put
both before and during the present resize has a defect (see the findings):
`DelOverwritten` says whether the client does that.
Hash function, prime table, load factor and keys per transfer are constants.

**SharedPtr.** One control block. Each atomic operation is a step, and so are the
two allocations of `make_shared`, either of which may fail, and the destruction
of each element of an array. A handle is a name that a thread owns, from the
moment its constructor has returned until its reset begins. `LockHolding` says
that `weak_ptr::lock` is called only by a thread that holds a `shared_ptr`
meanwhile. `get_weak`, which nothing calls, is not modelled.

**PeriodicTask.** Worker and callers around one mutex and one condition
variable, both by their contract: a wait releases the mutex atomically, a
notification without a waiter is lost, and a wait may end spuriously. The end of
a wait takes and releases the mutex in one step, since nothing happens under it.
`late` counts calls of the callable begun after the shutdown.

**SpinLock, Mutex.** Each access to the flag is a step; `Mutex` is the contract.

**Vector, PoolOps, ObjectPool.** Operators on a vector and a heap record: the
live blocks, which allocations of the present call fail (by number), and whether
something was deallocated that was not live. Objects and the buffer of the
vector come out of the same few blocks, so a pool can run out between an object
and the room for its pointer. `ObjectPool` composes them into a client with
several pools; `dropped` collects objects to which no pointer is left. An `Obj`
uses its pool when it ends, so the client does not move or destroy a pool that
has one out, nor assign to it from a pool that was itself moved from.

**Lru, RecencyCache.** The list is modelled pointer by pointer (`prev`, `next`,
head, tail), the pool by `PoolOps`. The map is used by its contract: its
constructor reserves and locks the table size or ends in the state `ERROR`, and
a `put` may find no memory. `crashed` marks a null pointer that is dereferenced.
`RecencyCache` is what `lru.hpp` promises, a sequence of entries in the order of
their use; `Lru` is shown to implement it. `answer` is the last `get` or `put`
with its arguments and what it returned, and the mapping leaves it as it is, so
that a `put(k, v)` that returns true has to have stored this `v` under this `k`,
and a `get(k)` has to return what is there under `k`. A `put` that crashes
returns nothing (`NULL`), which `RecencyCache` allows in one case only
(`PutEnds`): a new key, and a cache whose constructor came short of nodes
(`short`). That case is a known limit, not a promise of the header.

**RTAllocator.** A call of an allocator is four steps: locking, the work on the
members, the work inside the arena, unlocking. `std::lock` is used by the
contract of the C++ standard (it waits while holding nothing), the mutex by that
of `Mutex`, and what happens inside an arena is `Tlsf`. A failed assertion ends
the program (`aborted`). `orphans` are mappings that a move assignment of a
`MMapMemoryResource` has overwritten. The client keeps four rules, which the
guards state: a buffer given to `init` is that of a resource and in no other
allocator; a mapping is not removed while an allocator or a call needs it; no
call is in progress on an allocator that is destroyed; and nobody else knows an
object that is being move-constructed.

## Runs

| Run | Shows | States |
|---|---|---|
| `tlsf` | structure of chain, lists and bitmaps, coalescing, no block lost, refinement of `Heap`; the class search: what is found fits, refusals are bounded by one part in `SLI_COUNT`; alignment | 55 thousand |
| `ring` | no lost, overwritten, reordered byte; no data race; grants; everything is read; waiting pays | 28 thousand |
| `map` | puts, deletes and lookups during a resize with failing allocations; a resize ends | 5 thousand |
| `shared_ptr` | counts, lifetime, no leak | 6 thousand |
| `task` | no lost shutdown, lifetime, termination | 27 thousand |
| `spinlock` | refinement of `Mutex`, progress | 511 |
| `object_pool` | every block is in one place only: at hand, handed out, a buffer or dropped; nothing is freed twice | 88 thousand |
| `lru` | list, map and pool agree; a cache whose pool was filled never runs out of nodes; refinement of `RecencyCache` | 162 thousand |
| `allocator` | no two threads in one arena, no arena in two allocators, arenas are mapped, no lock is held forever | 125 thousand |

Three more runs each refute one sentence of the code's own documentation:
`ring_write_bytes`, `map_del_husk` and `shared_ptr_lock`. The `findings` of
`PROJECT.json` quote the sentence and the line of code.

Bounds and why they suffice:

- TLSF: pools of 400 and 512 bytes hold up to ten blocks, which is enough for a
  free block with two free neighbours, lists of several blocks and removals at
  the head, in the middle and at the end. Requests cover the linear row, shared
  classes, and requests that are refused. The word is cut to 14 bits, so that its
  edges are within reach. `MCTlsf` assumes that its constants are within the
  conditions of the theorems (`MCWithinLimits`). The proofs remove the bounds.
- Ring: a capacity of 4 with 13 bytes is more than three laps; sizes run from 0
  to one above the writable capacity. The proofs remove the bound.
- Map: three keys, tables of 2, 3 and 5 buckets, one key per transfer step: two
  consecutive resizes with every key on either side of the cursor, colliding in
  some tables and not in others. 512 keys per step would never leave a resize
  unfinished in a small model.
- Pointers: three threads with four handles of each kind between them, an array
  of two: two threads race for the last handle while the third holds on, or all
  three do. The proofs remove the bounds.
  Task: an owner and two more callers with two shutdowns each. Spin lock: four
  threads.
- Pool: two pools that share four blocks for objects and buffers; any of
  the first three allocations of a call may fail (`add_to_pool` of two makes up to
  five), and all of them do once the blocks are used up.
- Cache: two caches (one can be moved onto the other) of two or three entries,
  three keys, one of them with two values. Three entries give the list a middle;
  memory runs out by itself, since four blocks do not fill both pools.
- Allocator: two threads, two allocators, two resources, two buffers: enough to
  move each allocator onto the other at once. The proofs remove the bounds.

Deadlock is checked except in `task` and `shared_ptr`, where everything has
ended once the object is destroyed or no handle is left, in `lru`, where a
crash ends the program, and in `allocator`, where a failed assertion does.

Fairness. Ring: the reading thread keeps reading (the ring promises nothing
otherwise); the writer may stop at any time. Map: the client keeps looking keys
up. Task: the scheduler runs the worker and every call that has begun, the
callable returns, timeouts expire, and the destructor gets a mutex that the
worker releases again and again (strong fairness; `std::mutex` itself does not
promise it, schedulers do). Spin lock: threads that can step do, and critical
sections end; no fairness between the contenders is assumed or shown. Allocator:
the scheduler runs every call that has begun (weak fairness of its steps), so a
lock is released; that a particular waiting thread gets it is not claimed.

## Known limits

These were met while modelling. Each is reproduced by checking the definition
named under the constants named; none has a run of its own. For the allocator
they are what the hypotheses of the theorems exclude, and `MCWithinLimits` has to
be taken out of `MCTlsf` first.

- `AtLeastRequested` (`Tlsf`): with `Requests <- WrapRequests` in `MCTlsf.cfg`, a
  request within a header of the largest word wraps (`memory.incl:1014`) and is
  answered with a small block, where `memory.h:89` says "at least". Excluded by
  `NoWrap`.
- `FoundBlockFits` (`Tlsf`): with `INT_BITS` 4 (scaled like the word, it
  stands for the 32 bits of `int` beside a word of 64) it fails, because
  `mapping_search` rounds with an `int`. Excluded by the first part of `Limits`:
  for words of 64 bits it means requests below 2^36 bytes.
- `UserDataAligned`: with 4 byte words and an alignment of 8 the arena is an odd
  number of words long and it fails. A 64-bit build has 55 rows, an odd number,
  for which it holds, and the run keeps the number odd (`HeaderAligned`).
- A region of exactly `ARENA_SIZE + MAXIMUM_BLOCK_SIZE` bytes is accepted
  (`memory.incl:811`) although its block has a row behind the table. Excluded by
  the second part of `Limits`.
- `OutputWithinMaxRead` (`RingBuffer`), with the constants of `MCRingBuffer.cfg`:
  the first chunk of a wrapped `read` is not limited by `max_read`
  (`ring_buffer.cpp:167`).
- `CallsReturn` (`UnorderedMap`), with `KEYS_PER_TRANSFER = 4`, `InitialBuckets <-
  OnlyFull`, `Failures <- ValueFails` and `GoodMoves <- AlwaysGood`: a `put` that
  is rolled back because its value cannot be copied leaves the entry counter
  too high (`map.hpp:722`), and a later transfer never ends. If values can always
  be copied it holds (theorem `Returns`).
- `NothingDropped` (`ObjectPool`), even with `Failures = {}`: `put` ignores that
  `push_back` found no memory (`object_pool.hpp:236`), and the move assignment
  frees the buffer of the left pool but not its objects (`object_pool.hpp:122`);
  `MemoryLeakTest` (`test/object_pool.cpp:108`) assigns in this way. `OnePlace`
  counts such objects as `dropped`: it says that they are not in use or freed as
  well, not that they do not get lost.
- `crashed` (`Lru`) becomes true with the constants of `MCLru.cfg`: if memory ran
  out in the constructor, `put` of a new key can get no node from the pool, stores
  the null pointer in the map and dereferences it in `push_front`
  (`lru.hpp:282-289`), where `lru.hpp:256` says "true if inserted, otherwise
  false". `FullPoolSuffices` and `ImplementsRecency` show that this is the only way.
- `orphans` (`RTAllocator`) becomes non-empty with the constants of
  `MCRTAllocator.cfg`: the move assignment of a `MMapMemoryResource` that is
  initialized forgets its mapping (`allocator.cpp:34`), which is then never
  removed. `ArenaBacked` shows that no mapping is removed too early.

Others follow from the client rules or from reading: ring capacities above 2^31
overflow the sum at `ring_buffer.cpp:101`; `approx_size` is only meaningful to
the two threads of the ring; a `notify_one` while the callable runs is lost; an
allocator can be taken down between a client's `is_initialized` and its
`allocate`, which then fails the assertion; an `Obj` of the pool that is really
copied puts its object back twice; an `Obj` that outlives the allocator of its
pool, because the pool was moved from or assigned to from one that was, makes
`put` call a null allocator as soon as the vector has to grow; a write up to the
end of the buffer takes `until_end_of_buffer` bytes from an input that may have
fewer (`ring_buffer.cpp:333`); a cache of capacity 0 dereferences null.

## Proofs

All proofs are by an inductive invariant, one lemma per action.

- `TlsfShapeProofs`, first half, on the mapping of sizes to lists: for every word
  size, number of classes, alignment and width of `int`. The sizes are powers of two with a symbolic exponent, of which
  the provers know nothing, so their laws come first: `2^n` is the number of
  subsets of `1 .. n`, which the library's facts about cardinalities turn into
  `PowDouble`, `PowAdd` and `PowMonotone`. Then: `mapping_insert` keeps the order
  of sizes and stays in the table, `mapping_search` rounds to the next class, and
  from both `SearchFits` (what is found is large enough) and `SearchReaches`
  (refusals give up at most one part in `SLI_COUNT`).
- `TlsfShapeProofs`, second half (the helpers of the code), and `TlsfProofs` (the
  public calls, the invariant, the theorems), for every build, region and request
  sizes within `Limits`, and calls in any order. The properties are not inductive
  one by one: merging needs exact back links, exact back links need the tiling,
  and `remove_block` only unlinks the right block if the lists are exact. The
  invariant says of an arena
  between two calls that its headers form a `Chain` over the pool, that the
  `Lists` hold exactly the free blocks, with exact bits, that no two free blocks
  are neighbours (`Merged`), and that the client holds exactly the others, each
  large enough (`Whole`, `Granted`). A list is an explicit enumeration
  `L[0], L[1], ...` of its blocks, which avoids induction: inserting puts a block
  in front of it, removing closes the gap. Inside a call a block is free and in
  no list yet, so each helper of the code (`tlsf_arena_insert_block`,
  `remove_block`, `split_blk`, `blk_merge`, `merge_prev`, `merge_next`) has a
  lemma for an arena whose lists hold some set of blocks (`Shape`), and
  `TakeGood` and `ReleaseGood` compose them as the code does. From the invariant:
  `Tiling`, `ExactLists`, `Coalescing`, `SearchIsSafe`, `SearchIsGood`,
  `Alignment` (under `HeaderAligned`), `NothingLost` (there is only one good arena
  of which nothing is in use), and, step by step under `NoWrap`,
  `Implementation`: the allocator refines `Heap`, each call with its own request,
  and what is held stays as large as was asked for (`AtLeastRequested`).
- `RingBufferProofs`, for every capacity and all sizes, assuming `CheckedWriter`
  and `2 * m_capacity <= UINT_MOD`, so that the sum of index and size does not
  overflow. The invariant is `TypeOK /\ IndicesTrackBytes /\ UnreadIntact /\
  DecisionsHold`; the last says that a decision taken on an old index is still
  good, and is what makes the rest inductive. From it: `IndicesExact`,
  `NothingLost`, `StaleIndicesAreSafe`, `RaceFreedom`, `Grants`,
  `CompoundGrants`, `FIFO`. The `%` of the code is replaced by `Slot`, a
  conditional subtraction, once (lemma `SmallMod`).
- `UnorderedMapProofs`, for every finite key type, hash function, table of primes,
  load factor and number of keys per transfer, and whichever allocations fail. A
  table is reduced to what a lookup sees of it (`Has`, `TableGet`, the counter);
  each operation on a bucket and on a table has a lemma that says what it does to
  these. The invariant has a form for each state of the object: one good table
  when `STABLE`; when `TRANSFER` two, of which the main one has nothing behind
  the cursor (`Ahead`) and no value for a key of the secondary one; and in the
  error state either form or no table at all, because a failed call leaves the
  tables as they are. Next to it stands what the client was told (`Shows`), which
  holds unless `DelOverwritten`. A move takes the last entry of the bucket at the
  cursor, keeps this form and all that a lookup sees, and lowers the number of
  entries left (`MoveKeeps`); so the loops of `finalize` and `reserve` end if the
  counters are right (`TransferLoopEnds`). From the invariant: `WellPlaced` and
  `Cursor` without further assumptions; `Counted` and `Returns` if copying a value
  does not fail; `LookupsAgree`, for a map that is not in its error state, without
  `DelOverwritten`. Both restrictions are necessary: they are the known limit
  `CallsReturn` and the finding of `map_del_husk`. Keys are finite in number so that entries can be counted.
- `SharedPtrProofs`, for any number of threads, handles and elements, assuming
  `LockHolding` (without it the run `shared_ptr_lock` refutes `OwnersSeeData`).
  The counters alone are not inductive. The invariant names the phase the object
  is in (being made, owned, ending, expired, being freed, gone) and says for each
  which threads can be where and what the counters are; each step stays in a
  phase or leads to the next. From it: `ExactCounts`, `OwnersAreSafe`,
  `BlocksAreSafe`, `NothingLeaks`.
- `ThreadProofs`: for the task, any number of callers. `LastCall` strengthens
  `OneMoreCall` with where the worker can be once the extra call has begun;
  `Lifetime` says that the destructor leaves its join only with an ended worker.
  For the spin lock, any number of threads: exclusion, and refinement of `Mutex`
  step by step.
- `RTAllocatorProofs`, for any number of threads, allocators, resources and
  buffers. `ArenasExclusive` needs an invariant of six parts beside the types:
  `Locked` (a thread past its lock owns the mutexes of its call, and a mutex has
  its owner in such a call), `Targets` (what a call works on exists), `Private`
  (an object under move construction is known to one thread), `Fresh` (a buffer
  on its way into `init` is in no allocator and no other call), `Owned` (no arena
  is in two allocators) and `Inside` (a thread works in the arena of the
  allocator it has locked). Without `Fresh` and `Private` the move and `init`
  steps do not preserve the others. `ArenasBacked` adds `Needed` (every arena and
  every buffer on its way is mapped) and `Owners` (a mapping has one resource or
  is an orphan). The client rules above are its assumptions.

- `PoolProofs`, for any number of pools, blocks, objects out and `Obj`, whichever
  allocations fail. Each operation on the vector and on the pool has a lemma about
  a call in progress (`Holds(v, h, R)`: the vector owns the objects it points to
  and its buffer, the rest `R` of the program owns the other live blocks): an
  object moves from one side to the other, or gets lost in `push_back`, and the
  account stays right. The invariant `PoolInv` says that client, `Obj`, pools and
  `dropped` share the live blocks between them without overlap (`Shared`), and that
  every `Obj` has an object of its own and a pool that is there; a step changes the
  share of one pool (`OneChanged`) or hands it to another (`TakenOver`). From it
  `EveryBlockHasOnePlace`: `OnePlace`.

Only model-checked: everything about liveness (outside this prover), such as
`ResizeEnds`; the cache, with the refinement of `RecencyCache`. Where induction over numbers is needed above, it is done by the least
counterexample (lemma `LeastElement`). Leaves that need no arithmetic cite the
prover Zenon, which settles them faster than the SMT solver.

## Not modelled

Moves and destruction of a whole map; `init` and moves of a ring buffer, which
must not overlap with its use; copying a vector and its stable removal,
which nothing else calls; `unique_ptr`, one owner of one pointer; moves of
a control block; copies of a pool's `Obj`; the return code -1 of
`rtl_tlsf_make_arena`; key types that change when moved from; what the hash
functions and the de Bruijn bit scans compute; tests and benchmarks. The memory
order is sequential consistency; the argument for the ring is above, the other
classes use sequentially consistent atomics or a mutex, and the spin lock's
acquire and release bracket its critical section.

## Plan

1. An abstract key-value specification that `UnorderedMap` implements, and that
   `Lru` uses in place of the map's contract; keys that change when moved from.
2. The bit scans as pure functions against a reference.
3. Proofs: the list of the cache, by an enumeration of its nodes as in
   `TlsfShapeProofs`.
