-------------------------------- MODULE Heap --------------------------------
(***************************************************************************)
(* What include/rtl/memory.h promises of an arena: a call of               *)
(* rtl_tlsf_alloc hands out a contiguous region of at least the size this  *)
(* call asked for or nothing, no two regions that are out at the same time *)
(* share a byte, and a region stays where and as large as it is until it   *)
(* is freed.                                                               *)
(***************************************************************************)
EXTENDS Integers

CONSTANTS Sizes,     \* sizes that can be requested
          Offset,    \* bytes in front of a region that belong to no client
          NULL

VARIABLES pool,      \* number of bytes managed, or NULL before make_arena
          regions,   \* address of a region -> its size
          asked      \* address of a region -> the sz of the call that got it

Disjoint(p, n, q, m) == p + n <= q \/ q + m <= p

Make == pool = NULL /\ pool' \in Nat /\ UNCHANGED <<regions, asked>>

Alloc(sz) ==
  /\ pool # NULL
  /\ \E p \in DOMAIN regions' \ DOMAIN regions :
       /\ regions' = [q \in DOMAIN regions \cup {p} |->
                        IF q = p THEN regions'[p] ELSE regions[q]]
       /\ asked' = [q \in DOMAIN regions \cup {p} |->
                      IF q = p THEN sz ELSE asked[q]]
       /\ regions'[p] >= sz
       /\ p - Offset >= 0
       /\ p + regions'[p] <= pool
       /\ \A q \in DOMAIN regions :
            Disjoint(p - Offset, regions'[p] + Offset,
                     q - Offset, regions[q] + Offset)
  /\ UNCHANGED pool

Free(p) ==
  /\ regions' = [q \in DOMAIN regions \ {p} |-> regions[q]]
  /\ asked' = [q \in DOMAIN regions \ {p} |-> asked[q]]
  /\ UNCHANGED pool

Init == pool = NULL /\ regions = <<>> /\ asked = <<>>

Next == \/ Make
        \/ \E sz \in Sizes : Alloc(sz)
        \/ \E p \in DOMAIN regions : Free(p)

Spec == Init /\ [][Next]_<<pool, regions, asked>>

=============================================================================
