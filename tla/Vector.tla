------------------------------- MODULE Vector -------------------------------
(***************************************************************************)
(* rtl::vector (rtlcpp/vector.hpp) over the allocator concept of           *)
(* rtlcpp/allocator.hpp, as operators that its users compose.              *)
(*                                                                         *)
(* Memory is a set of blocks.  A call works on a heap record: the blocks   *)
(* that are live, how many allocations the call has made, which of them    *)
(* fail, the result of the last one, and whether a block has been          *)
(* deallocated that was not live.  An operation of the vector returns the  *)
(* vector, the heap and, as ok, what the code returns.                     *)
(***************************************************************************)
EXTENDS Integers, Sequences, FiniteSets, Functions

CONSTANTS Blocks,   \* what can be allocated, a set of numbers
          NULL

ASSUME VectorConstants == Blocks \subseteq Nat /\ NULL \notin Blocks

-----------------------------------------------------------------------------
(* The allocator. *)

\* The heap at the beginning of a call, of whose allocations those whose
\* numbers are in fails find no memory.
Heap(live, misfreed, fails) ==
  [live |-> live, misfreed |-> misfreed, asked |-> 0, fails |-> fails,
   got |-> NULL]

LowestFree(h) == CHOOSE b \in Blocks \ h.live :
                   \A c \in Blocks \ h.live : b <= c

\* Which of the free blocks it is makes no difference.
allocate(h) ==
  LET n == h.asked + 1
  IN  IF n \in h.fails \/ Blocks \subseteq h.live
        THEN [h EXCEPT !.asked = n, !.got = NULL]
        ELSE [h EXCEPT !.asked = n, !.got = LowestFree(h),
                       !.live = @ \cup {LowestFree(h)}]

\* Deallocating nullptr does nothing.
deallocate(h, p) ==
  IF p = NULL THEN h
  ELSE [h EXCEPT !.live = @ \ {p}, !.misfreed = @ \/ p \notin h.live]

-----------------------------------------------------------------------------
(* The vector; its m_count is the length of items. *)

Vectors == [m_buf : Blocks \cup {NULL}, m_capacity : Nat, items : Seq(Blocks)]

vector == [m_buf |-> NULL, m_capacity |-> 0, items |-> <<>>]

\* reserve: the elements move to a larger buffer, or everything stays.
reserve(v, h, new_capacity) ==
  LET a == allocate(h)
  IN  CASE new_capacity <= v.m_capacity -> [ok |-> TRUE, v |-> v, h |-> h]
        [] new_capacity > v.m_capacity /\ a.got = NULL ->
             [ok |-> FALSE, v |-> v, h |-> a]
        [] OTHER ->
             [ok |-> TRUE,
              v  |-> [v EXCEPT !.m_buf = a.got, !.m_capacity = new_capacity],
              h  |-> deallocate(a, v.m_buf)]

push_back(v, h, x) ==
  LET r == IF Len(v.items) < v.m_capacity THEN [ok |-> TRUE, v |-> v, h |-> h]
           ELSE reserve(v, h, IF v.m_capacity = 0 THEN 1 ELSE 2 * v.m_capacity)
  IN  IF r.ok THEN [r EXCEPT !.v.items = Append(@, x)] ELSE r

back(v) == v.items[Len(v.items)]

pop_back(v) ==
  IF v.items = <<>> THEN v
  ELSE [v EXCEPT !.items = SubSeq(@, 1, Len(@) - 1)]

\* The heap after ~vector, and after the part of the move assignment that
\* gives up what the left hand side had.
destroy_vector(v, h) == deallocate(h, v.m_buf)

=============================================================================
