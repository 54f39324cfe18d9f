------------------------------ MODULE PoolOps ------------------------------
(***************************************************************************)
(* The operations of rtl::object_pool (rtlcpp/object_pool.hpp) on its      *)
(* vector of pointers and the heap, for its clients and for rtl::lru, and  *)
(* the heap between the calls.                                             *)
(***************************************************************************)
EXTENDS Vector

CONSTANT Failures    \* allocations of a call, by number, that may fail

VARIABLES
  live,       \* blocks that are allocated
  misfreed,   \* a block was deallocated that was not allocated
  dropped     \* objects nobody has a pointer to any more

\* The heap at the beginning of a call.
Heaps == {Heap(live, misfreed, fails) : fails \in SUBSET Failures}

\* What an operation returns: the vector and the heap, the number of objects
\* added, the objects that got lost on the way, and the object it hands out.
Start(v, h) == [v |-> v, h |-> h, added |-> 0, lost |-> {}, stopped |-> FALSE,
                rval |-> NULL]

\* One round of the loop: the object is lost when push_back finds no room for
\* its pointer.
AddOne(r, i) ==
  LET a == allocate(r.h)
      b == push_back(r.v, a, a.got)
  IN  CASE r.stopped -> r
        [] ~r.stopped /\ a.got = NULL ->
             [r EXCEPT !.h = a, !.stopped = TRUE]
        [] ~r.stopped /\ a.got # NULL /\ ~b.ok ->
             [r EXCEPT !.h = b.h, !.lost = {a.got}, !.stopped = TRUE]
        [] OTHER ->
             [r EXCEPT !.v = b.v, !.h = b.h, !.added = i]

\* The loop, by the number of its rounds.
Rounds(s, num) ==
  LET after[i \in 0 .. num] == IF i = 0 THEN s ELSE AddOne(after[i - 1], i)
  IN  after

\* The result of reserve is ignored.
AddToPool(v, h, num) ==
  LET r == reserve(v, h, Len(v.items) + num)
  IN  Rounds(Start(r.v, r.h), num)[num]

\* Mutant: the pointer stays in the vector.
Get_keeps(v, h, elasticity) ==
  LET r == IF v.items = <<>> THEN AddToPool(v, h, elasticity) ELSE Start(v, h)
  IN  IF r.v.items = <<>> THEN r ELSE [r EXCEPT !.rval = back(r.v)]

Get(v, h, elasticity) ==
  LET r == IF v.items = <<>> THEN AddToPool(v, h, elasticity) ELSE Start(v, h)
  IN  IF v.items = <<>> /\ r.added < 1 THEN r
      ELSE [r EXCEPT !.v = pop_back(@), !.rval = back(r.v)]

\* The result of push_back is ignored.
Put(v, h, in) ==
  LET b == push_back(v, h, in)
  IN  CASE in = NULL -> Start(v, h)
        [] in # NULL /\ b.ok -> Start(b.v, b.h)
        [] OTHER -> [Start(b.v, b.h) EXCEPT !.lost = {in}]

\* The heap as the objects of s are deallocated one after the other.
Freeing(s, h) ==
  LET after[i \in 0 .. Len(s)] ==
        IF i = 0 THEN h ELSE deallocate(after[i - 1], s[i])
  IN  after

\* The heap after ~object_pool: the objects at hand, then the vector.
destroy_pool(v, h) == destroy_vector(v, Freeing(v.items, h)[Len(v.items)])

=============================================================================
