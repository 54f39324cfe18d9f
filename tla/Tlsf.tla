-------------------------------- MODULE Tlsf --------------------------------
(***************************************************************************)
(* The TLSF allocator of librtl/memory.incl: rtl_tlsf_make_arena,          *)
(* rtl_tlsf_alloc and rtl_tlsf_free over the physical blocks of one memory *)
(* region.                                                                 *)
(*                                                                         *)
(* The arena is one record: the two bitmaps (as sets of bit positions),    *)
(* the heads of the segregated free lists, and blk, the headers that lie   *)
(* in the region, indexed by their offset from the first block.  The two   *)
(* flag bits of the size word are the fields free and last.  The helpers   *)
(* of the code are operators from arena to arena, in the order in which    *)
(* the code calls them, so that one action is one whole call.              *)
(***************************************************************************)
EXTENDS TlsfMapping, FiniteSets

CONSTANTS
  ArenaSizes,   \* sizes of the memory region passed to rtl_tlsf_make_arena
  Requests,     \* sizes passed to rtl_tlsf_alloc
  NULL          \* the null pointer

ASSUME TlsfConstants ==
  /\ ArenaSizes \subseteq Nat
  /\ Requests \subseteq Nat
  /\ NULL \notin Nat /\ NULL \notin Classes

VARIABLES
  arena,        \* the arena; it has no blocks before rtl_tlsf_make_arena
  live          \* what the client holds: block offset -> requested size

vars == <<arena, live>>

\* sizeof(struct rtl_tlsf_arena)
ARENA_SIZE == WORD_SIZE_BYTES * (1 + FLI_COUNT + FLI_COUNT * SLI_COUNT)

\* A function with a new or without an old member of its domain.
With(f, x, v) == [y \in DOMAIN f \cup {x} |-> IF y = x THEN v ELSE f[y]]
Without(f, x) == [y \in DOMAIN f \ {x} |-> f[y]]

NEXT_BLK(a, b) == b + a.blk[b].size

-----------------------------------------------------------------------------
(* Free lists. *)

tlsf_arena_insert_block(a, b) ==
  LET c    == mapping_insert(a.blk[b].size)
      head == a.free_blocks[c]
      mine == [a.blk EXCEPT ![b].free = TRUE,
                            ![b].next_free = head,
                            ![b].prev_free = NULL]
  IN  [fl_bitmap   |-> a.fl_bitmap \cup {c[1]},
       sl_bitmap   |-> [a.sl_bitmap EXCEPT ![c[1]] = @ \cup {c[2]}],
       free_blocks |-> [a.free_blocks EXCEPT ![c] = b],
       blk         |-> IF head = NULL THEN mine
                       ELSE [mine EXCEPT ![head].prev_free = b]]

\* The header of b once it has left its list.
Detach(a, b) ==
  [a.blk EXCEPT ![b].free = FALSE, ![b].next_free = NULL,
                ![b].prev_free = NULL]

\* Mutant: the head of a list leaves, its successor keeps pointing back.
remove_block_head(a, b, c) ==
  LET prev == a.blk[b].prev_free
      next == a.blk[b].next_free
      row  == a.sl_bitmap[c[1]] \ {c[2]}
      off  == Detach(a, b)
  IN  IF prev = NULL
        THEN [fl_bitmap   |-> IF next = NULL /\ row = {}
                                THEN a.fl_bitmap \ {c[1]} ELSE a.fl_bitmap,
              sl_bitmap   |-> IF next = NULL
                                THEN [a.sl_bitmap EXCEPT ![c[1]] = row]
                                ELSE a.sl_bitmap,
              free_blocks |-> [a.free_blocks EXCEPT ![c] = next],
              blk         |-> off]
        ELSE [a EXCEPT !.blk =
                IF next = NULL THEN [off EXCEPT ![prev].next_free = NULL]
                ELSE [off EXCEPT ![prev].next_free = next,
                                 ![next].prev_free = prev]]

remove_block(a, b, c) ==
  LET prev == a.blk[b].prev_free
      next == a.blk[b].next_free
      off  == Detach(a, b)
      row  == a.sl_bitmap[c[1]] \ {c[2]}
  IN  CASE prev = NULL /\ next = NULL ->
             [fl_bitmap   |-> IF row = {} THEN a.fl_bitmap \ {c[1]}
                              ELSE a.fl_bitmap,
              sl_bitmap   |-> [a.sl_bitmap EXCEPT ![c[1]] = row],
              free_blocks |-> [a.free_blocks EXCEPT ![c] = NULL],
              blk         |-> off]
        [] prev = NULL /\ next # NULL ->
             [a EXCEPT !.free_blocks[c] = next,
                       !.blk = [off EXCEPT ![next].prev_free = NULL]]
        [] prev # NULL /\ next = NULL ->
             [a EXCEPT !.blk = [off EXCEPT ![prev].next_free = NULL]]
        [] prev # NULL /\ next # NULL ->
             [a EXCEPT !.blk = [off EXCEPT ![prev].next_free = next,
                                           ![next].prev_free = prev]]

\* The class in which find_suitable_block finds a non-empty list at or above
\* class c, or NULL.
SuitableClass(a, c) ==
  LET sl == {s \in a.sl_bitmap[c[1]] : s >= c[2]}
      fl == {f \in a.fl_bitmap : f > c[1]}
  IN  CASE sl # {} -> <<c[1], FFS(sl)>>
        [] sl = {} /\ fl # {} -> <<FFS(fl), FFS(a.sl_bitmap[FFS(fl)])>>
        [] OTHER -> NULL

-----------------------------------------------------------------------------
(* Physical blocks. *)

\* Mutant: a word is lost at the end of the region.
split_blk_short(a, b, r) ==
  LET h    == a.blk[b]
      next == b + r
      lost == IF h.last /\ h.size - r > MINIMUM_BLOCK_SIZE
                THEN ALIGNMENT_REQUIREMENT ELSE 0
      rest == [size |-> h.size - r - lost, free |-> TRUE, last |-> h.last,
               prev_physical_block |-> b,
               next_free |-> NULL, prev_free |-> NULL]
      cut  == With([a.blk EXCEPT ![b].size = r, ![b].last = FALSE], next, rest)
  IN  [a EXCEPT !.blk =
         IF h.last THEN cut
         ELSE [cut EXCEPT ![b + h.size].prev_physical_block = next]]

\* The remaining block starts at b + r.  Whatever its flag bits held before,
\* the code overwrites both.
split_blk(a, b, r) ==
  LET h    == a.blk[b]
      next == b + r
      rest == [size |-> h.size - r, free |-> TRUE, last |-> h.last,
               prev_physical_block |-> b,
               next_free |-> NULL, prev_free |-> NULL]
      cut  == With([a.blk EXCEPT ![b].size = r, ![b].last = FALSE], next, rest)
  IN  [a EXCEPT !.blk =
         IF h.last THEN cut
         ELSE [cut EXCEPT ![b + h.size].prev_physical_block = next]]

is_prev_physical_free(a, b) ==
  /\ a.blk[b].prev_physical_block # NULL
  /\ a.blk[a.blk[b].prev_physical_block].free

is_next_physical_free(a, b) ==
  /\ ~a.blk[b].last
  /\ a.blk[NEXT_BLK(a, b)].free

\* Mutant: the block behind the merged one is not told.
blk_merge_untold(a, prev, cur) ==
  [a EXCEPT !.blk =
     [Without(a.blk, cur) EXCEPT
        ![prev].size = a.blk[prev].size + a.blk[cur].size,
        ![prev].last = a.blk[cur].last \/ a.blk[prev].last]]

\* cur disappears into prev: its header is from now on part of prev's memory.
blk_merge(a, prev, cur) ==
  LET size == a.blk[prev].size + a.blk[cur].size
      last == a.blk[cur].last \/ a.blk[prev].last
      one  == [Without(a.blk, cur) EXCEPT ![prev].size = size,
                                          ![prev].last = last]
  IN  [a EXCEPT !.blk =
         IF last THEN one
         ELSE [one EXCEPT ![prev + size].prev_physical_block = prev]]

set_free(a, b) == [a EXCEPT !.blk[b].free = TRUE]

\* A free neighbour leaves its list and stays marked free.
Unlink(a, b) ==
  set_free(remove_block(a, b, mapping_insert(a.blk[b].size)), b)

merge_prev(a, b) ==
  IF is_prev_physical_free(a, b)
    THEN LET p == a.blk[b].prev_physical_block
         IN  [arena |-> blk_merge(Unlink(a, p), p, b), blk |-> p]
    ELSE [arena |-> a, blk |-> b]

\* Mutant: a block is never merged with the one behind it.
merge_next_never(a, b) == [arena |-> a, blk |-> b]

merge_next(a, b) ==
  IF is_next_physical_free(a, b)
    THEN LET n == NEXT_BLK(a, b)
         IN  [arena |-> blk_merge(Unlink(a, n), b, n), blk |-> b]
    ELSE [arena |-> a, blk |-> b]

-----------------------------------------------------------------------------
(* The interface. *)

EmptyArena ==
  [fl_bitmap   |-> {},
   sl_bitmap   |-> [r \in Rows |-> {}],
   free_blocks |-> [c \in Classes |-> NULL],
   blk         |-> <<>>]

Made == arena # EmptyArena

\* The arena over a region of sz bytes: one last, free block.
FreshArena(sz) ==
  LET hdr == [size |-> AlignDown(sz - ARENA_SIZE), free |-> FALSE,
              last |-> TRUE, prev_physical_block |-> NULL,
              next_free |-> NULL, prev_free |-> NULL]
  IN  tlsf_arena_insert_block([EmptyArena EXCEPT !.blk = [b \in {0} |-> hdr]], 0)

\* Return code of rtl_tlsf_make_arena.  The region starts at an offset of
\* misaligned bytes from an aligned address.
MakeArenaCode(misaligned, sz) ==
  CASE misaligned # 0 -> -2
    [] misaligned = 0 /\ sz < ARENA_SIZE + MINIMUM_BLOCK_SIZE -> -3
    [] misaligned = 0 /\ sz > ARENA_SIZE + MAXIMUM_BLOCK_SIZE -> -4
    [] OTHER -> 0

rtl_tlsf_make_arena(misaligned, sz) ==
  /\ ~Made
  /\ arena' = IF MakeArenaCode(misaligned, sz) = 0 THEN FreshArena(sz)
              ELSE arena
  /\ UNCHANGED live

\* The class and the block rtl_tlsf_alloc takes for a block of size bytes.
FoundClass(a, size) ==
  LET c == mapping_search(size)
  IN  IF size = 0 \/ c[1] >= MAXIMUM_FLI THEN NULL ELSE SuitableClass(a, c)

FoundBlock(a, size) ==
  LET c == FoundClass(a, size) IN IF c = NULL THEN NULL ELSE a.free_blocks[c]

\* Take block b of class c and give back what exceeds size.
Take(a, c, b, size) ==
  LET busy == remove_block(a, b, c)
  IN  IF a.blk[b].size >= size + MINIMUM_BLOCK_SIZE
        THEN tlsf_arena_insert_block(split_blk(busy, b, size), b + size)
        ELSE busy

rtl_tlsf_alloc(sz) ==
  LET size == BlockSizeFor(sz)
      c    == FoundClass(arena, size)
      b    == FoundBlock(arena, size)
  IN  /\ Made
      /\ IF b = NULL THEN UNCHANGED vars
         ELSE /\ arena' = Take(arena, c, b, size)
              /\ live' = With(live, b, sz)

\* The client frees a block it holds; free(NULL) does nothing.
Release(a, b) ==
  LET p == merge_prev(set_free(a, b), b)
      n == merge_next(p.arena, p.blk)
  IN  tlsf_arena_insert_block(n.arena, n.blk)

rtl_tlsf_free(b) ==
  /\ Made
  /\ IF b = NULL THEN UNCHANGED vars
     ELSE /\ arena' = Release(arena, b)
          /\ live' = Without(live, b)

Init == arena = EmptyArena /\ live = <<>>

Next ==
  \/ \E m \in {0, 1}, sz \in ArenaSizes : rtl_tlsf_make_arena(m, sz)
  \/ \E sz \in Requests : rtl_tlsf_alloc(sz)
  \/ \E b \in DOMAIN live \cup {NULL} : rtl_tlsf_free(b)

Spec == Init /\ [][Next]_vars

-----------------------------------------------------------------------------
(* Conditions on the build and on the client's sizes. *)

\* The int shift of mapping_search fits for every request, and no region has
\* exactly the largest size, whose block would have a row behind the table.
Limits ==
  /\ \A sz \in Requests : Roundable(BlockSizeFor(sz))
  /\ ARENA_SIZE + MAXIMUM_BLOCK_SIZE \notin ArenaSizes

\* No request is so large that adding header and padding wraps around.
NoWrap ==
  \A sz \in Requests :
    sz + START_OF_USER_DATA_OFFSET + ALIGNMENT_REQUIREMENT - 1 < UWORD_MOD

\* The arena is as long as keeps the user data of the first block aligned.
HeaderAligned ==
  (ARENA_SIZE + START_OF_USER_DATA_OFFSET) % ALIGNMENT_REQUIREMENT = 0

-----------------------------------------------------------------------------
(* Properties. *)

Blocks == DOMAIN arena.blk

FreeBlocks == {b \in Blocks : arena.blk[b].free}

\* The end of the last block.
PoolEnd(a) ==
  LET b == CHOOSE x \in DOMAIN a.blk : a.blk[x].last IN b + a.blk[b].size

Header ==
  [size : Nat, free : BOOLEAN, last : BOOLEAN,
   prev_physical_block : Nat \cup {NULL},
   next_free : Nat \cup {NULL}, prev_free : Nat \cup {NULL}]

\* The types of the arena's fields and of the client's table: every header
\* field is a flag, a size, or a pointer that may be null.
TypeOK ==
  /\ live \in [DOMAIN live -> Nat]
  /\ DOMAIN live \subseteq Blocks
  /\ arena.fl_bitmap \subseteq Rows
  /\ arena.sl_bitmap \in [Rows -> SUBSET Columns]
  /\ arena.free_blocks \in [Classes -> Nat \cup {NULL}]
  /\ Blocks \subseteq Nat
  /\ arena.blk \in [Blocks -> Header]

\* Split and merge keep the physical chain: the blocks tile the region from
\* offset 0 without gap or overlap, prev_physical_block is the inverse of
\* NEXT_BLK, and only the block nobody follows carries the last bit.
BlocksTile ==
  /\ TypeOK
  /\ Made =>
    /\ 0 \in Blocks /\ arena.blk[0].prev_physical_block = NULL
    /\ \A b \in Blocks :
         /\ arena.blk[b].size >= MINIMUM_BLOCK_SIZE
         /\ arena.blk[b].size % ALIGNMENT_REQUIREMENT = 0
         /\ ~arena.blk[b].last =>
              /\ NEXT_BLK(arena, b) \in Blocks
              /\ arena.blk[NEXT_BLK(arena, b)].prev_physical_block = b
         /\ \A c \in Blocks :
              b < c => NEXT_BLK(arena, b) <= c /\ ~arena.blk[b].last

\* The blocks met when walking the list of class c, NULL once it has ended.
Walk(c) ==
  LET w[n \in 0 .. Cardinality(Blocks)] ==
        IF n = 0 THEN arena.free_blocks[c]
        ELSE IF w[n - 1] = NULL THEN NULL ELSE arena.blk[w[n - 1]].next_free
  IN  w

\* Insert and remove keep lists and bitmaps exact: the list of a class visits
\* each free block of that class once and nothing else, prev_free is the
\* inverse of next_free, a second level bit is set iff its list is not empty
\* and a first level bit iff its row has a bit set.
FreeListsExact ==
  Made =>
    /\ \A c \in Classes :
         LET mine == {b \in FreeBlocks : mapping_insert(arena.blk[b].size) = c}
             n    == Cardinality(mine)
         IN  /\ {Walk(c)[i] : i \in 0 .. (n - 1)} = mine
             /\ Walk(c)[n] = NULL
             /\ n > 0 => arena.blk[Walk(c)[0]].prev_free = NULL
             /\ \A i \in 1 .. (n - 1) :
                  arena.blk[Walk(c)[i]].prev_free = Walk(c)[i - 1]
             /\ c[2] \in arena.sl_bitmap[c[1]] <=> n > 0
    /\ \A r \in Rows : r \in arena.fl_bitmap <=> arena.sl_bitmap[r] # {}

\* rtl_tlsf_free merges with both neighbours: two free blocks are never
\* physically adjacent, whatever the order of the frees.
Coalesced ==
  \A b \in FreeBlocks :
    ~arena.blk[b].last => NEXT_BLK(arena, b) \notin FreeBlocks

\* "return a contiguous region of memory at least the size of sz"
\* (include/rtl/memory.h, rtl_tlsf_alloc), for as long as the region is held.
AtLeastRequested ==
  \A b \in DOMAIN live :
    arena.blk[b].size - START_OF_USER_DATA_OFFSET >= live[b]

\* adjust_size pads every request so that the user pointers keep the
\* alignment the memory region was checked for (memory.incl, -2).
UserDataAligned ==
  \A b \in DOMAIN live :
    (ARENA_SIZE + b + START_OF_USER_DATA_OFFSET) % ALIGNMENT_REQUIREMENT = 0

\* The assertion "Size needs to be larger" of rtl_tlsf_alloc, for every
\* request the client could make next: what the bitmaps lead to is a free
\* block that is large enough.
FoundBlockFits ==
  Made =>
    \A sz \in Requests :
      LET b == FoundBlock(arena, BlockSizeFor(sz))
      IN  b # NULL => b \in FreeBlocks /\ arena.blk[b].size >= BlockSizeFor(sz)

\* Good fit: rounding in mapping_search gives up at most one part in
\* SLI_COUNT.  rtl_tlsf_alloc refuses a request only if no free block exceeds
\* the block it needs by that much.
GoodFit ==
  Made =>
    \A sz \in Requests :
      LET size == BlockSizeFor(sz)
      IN  /\ size # 0
          /\ \E b \in FreeBlocks :
               arena.blk[b].size * SLI_COUNT >= size * (SLI_COUNT + 1)
          => FoundBlock(arena, size) # NULL

\* Freeing everything restores the arena that rtl_tlsf_make_arena built, as
\* ArenaSmokeTest of librtl/test/memory_test.cpp expects of one order of
\* frees.
EmptyArenaIsFresh ==
  Made /\ live = <<>> =>
    \E sz \in ArenaSizes : MakeArenaCode(0, sz) = 0 /\ arena = FreshArena(sz)

UserPointers == {b + START_OF_USER_DATA_OFFSET : b \in DOMAIN live}

\* The user region of a held block, and the sz of the call that returned it.
UserRegions ==
  [p \in UserPointers |->
     arena.blk[p - START_OF_USER_DATA_OFFSET].size - START_OF_USER_DATA_OFFSET]

UserRequests ==
  [p \in UserPointers |-> live[p - START_OF_USER_DATA_OFFSET]]

AbstractHeap ==
  INSTANCE Heap WITH Sizes   <- Requests,
                     Offset  <- START_OF_USER_DATA_OFFSET,
                     pool    <- IF Made THEN PoolEnd(arena) ELSE NULL,
                     regions <- UserRegions,
                     asked   <- UserRequests

\* The allocator implements the contract of include/rtl/memory.h: each call
\* of rtl_tlsf_alloc gets at least what that call asked for, apart from all
\* else that is out, or nothing, and what is out stays until it is freed.
ImplementsHeap == AbstractHeap!Spec

=============================================================================
