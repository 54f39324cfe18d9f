----------------------------- MODULE TlsfProofs -----------------------------
(***************************************************************************)
(* The TLSF allocator, for every build, every set of region and request    *)
(* sizes within Limits and calls in any order.                             *)
(*                                                                         *)
(* The invariant IInv says of the arena between two calls that its headers *)
(* tile the pool, that the lists hold exactly the free blocks and no two   *)
(* free blocks are neighbours (Good), and that the client holds exactly    *)
(* the other blocks (Whole).  Each public call preserves it by the lemmas  *)
(* of TlsfShapeProofs on the helpers it is made of.                        *)
(*                                                                         *)
(* The two merges of rtl_tlsf_free come first.                             *)
(***************************************************************************)
EXTENDS TlsfShapeProofs

-----------------------------------------------------------------------------
(* The merges of rtl_tlsf_free. *)

\* Unlink takes a free neighbour out of its list and leaves it marked free.
LEMMA UnlinkShape ==
  ASSUME NEW a, NEW S, NEW N, PoolSize(N), Shape(a, S, N), NEW p \in S, a.blk[p].free,
         NEW u, u = Unlink(a, p)
  PROVE  /\ Shape(u, S \ {p}, N) /\ SamePlaces(a, u)
         /\ \A x \in DOMAIN a.blk : u.blk[x].free <=> a.blk[x].free
<1> DEFINE d == remove_block(a, p, Class(a, p))
<1>1. p \in DOMAIN a.blk
  BY Zenon DEF Shape, Lists
<1>2. Shape(d, S \ {p}, N) /\ Marked(a, d, p)
  BY ShapeRemove, Zenon
<1>3. u = set_free(d, p)
  BY Zenon DEF Unlink, Class
<1> HIDE DEF d
<1>4. p \in DOMAIN d.blk
  BY <1>1, <1>2, Zenon DEF Marked, SamePlaces
<1>5. Shape(u, S \ {p}, N) /\ Marked(d, u, p) /\ u.blk[p].free
  BY <1>2, <1>3, <1>4, ShapeMark, Zenon
<1>6. QED
  BY <1>1, <1>2, <1>5, Zenon DEF Marked, SamePlaces

\* While b is being freed: the lists hold S, the block in hand is q.
Mid(a, S, q, N) ==
  /\ Shape(a, S, N) /\ q \in DOMAIN a.blk \ S
  /\ \A x \in DOMAIN a.blk : a.blk[x].free <=> x \in S \cup {q}
  /\ \A x \in S : ~a.blk[x].last => x + a.blk[x].size \notin S

\* No listed block ends where q starts.
Front(a, S, q) == \A x \in S : x + a.blk[x].size # q

\* The blocks in use are the same, and as large as they were.
KeepsBusy(a, e) ==
  /\ BusyOf(e) = BusyOf(a)
  /\ \A x \in BusyOf(a) : e.blk[x].size = a.blk[x].size

\* One of the two merges of rtl_tlsf_free, in either direction.
LEMMA JoinMid ==
  ASSUME NEW a, NEW S, NEW q, NEW N, PoolSize(N), Mid(a, S, q, N),
         NEW p, NEW c, p \in S \cup {q}, c \in S \cup {q}, p # c, NEW z, {p, c} = {q, z},
         z \in S, ~a.blk[p].last, c = p + a.blk[p].size,
         NEW e, e = blk_merge(Unlink(a, z), p, c)
  PROVE  Mid(e, S \ {z}, p, N) /\ KeepsBusy(a, e) /\ Joined(Unlink(a, z).blk, e.blk, p, c)
<1> DEFINE u == Unlink(a, z)
           T == S \ {z}
<1>1. /\ Shape(a, S, N) /\ q \in DOMAIN a.blk /\ q \notin S /\ S \subseteq DOMAIN a.blk
      /\ \A x \in DOMAIN a.blk : a.blk[x].free <=> x \in S \cup {q}
  BY Zenon DEF Mid, Shape, Lists
<1>2. /\ Shape(u, T, N) /\ SamePlaces(a, u)
      /\ \A x \in DOMAIN a.blk : u.blk[x].free <=> a.blk[x].free
  <2>1. a.blk[z].free
    BY <1>1, Zenon
  <2>2. QED
    BY <1>1, <2>1, UnlinkShape, Zenon
<1>3. z # q
  BY <1>1, Zenon
<1>4. p \in DOMAIN u.blk \ T /\ c \in DOMAIN u.blk \ T
  BY <1>1, <1>2, <1>3, Zenon DEF SamePlaces
<1>5. ~u.blk[p].last /\ c = p + u.blk[p].size
  BY <1>1, <1>2, Zenon DEF SamePlaces
<1> HIDE DEF u, T
<1>6. e = blk_merge(u, p, c)
  BY Zenon DEF u
<1>7. Shape(e, T, N) /\ Joined(u.blk, e.blk, p, c)
  BY <1>2, <1>4, <1>5, <1>6, ShapeMerge, Zenon
<1>8. /\ DOMAIN e.blk = DOMAIN a.blk \ {c} /\ p \in DOMAIN e.blk
      /\ \A x \in DOMAIN a.blk \ {c} :
           /\ x # p => e.blk[x].size = a.blk[x].size /\ (e.blk[x].last <=> a.blk[x].last)
           /\ e.blk[x].free <=> a.blk[x].free
  <2>1. /\ DOMAIN e.blk = DOMAIN u.blk \ {c}
        /\ \A x \in DOMAIN u.blk \ {c} :
             /\ x # p => e.blk[x].size = u.blk[x].size /\ (e.blk[x].last <=> u.blk[x].last)
             /\ e.blk[x].free <=> u.blk[x].free
    BY <1>7, Zenon DEF Joined
  <2>2. /\ DOMAIN u.blk = DOMAIN a.blk
        /\ \A x \in DOMAIN a.blk :
             /\ u.blk[x].size = a.blk[x].size /\ (u.blk[x].last <=> a.blk[x].last)
             /\ u.blk[x].free <=> a.blk[x].free
    BY <1>2, Zenon DEF SamePlaces
  <2>3. DOMAIN e.blk = DOMAIN a.blk \ {c} /\ p \in DOMAIN e.blk
    BY <1>4, <2>1, <2>2, Zenon
  <2>4. QED
    BY <2>1, <2>2, <2>3, Zenon
<1>9. T \cup {p} = (S \cup {q}) \ {c} /\ p \notin T /\ c \notin T
  BY <1>1, <1>3, Zenon DEF T
<1>10. \A x \in DOMAIN e.blk : e.blk[x].free <=> x \in T \cup {p}
  BY <1>1, <1>8, <1>9, Zenon
<1>11. \A x \in T : ~e.blk[x].last => x + e.blk[x].size \notin T
  BY <1>1, <1>8, <1>9, Zenon DEF Mid, T
<1>12. Mid(e, T, p, N)
  BY <1>7, <1>8, <1>9, <1>10, <1>11, Zenon DEF Mid
<1>13. BusyOf(e) = BusyOf(a)
  BY <1>1, <1>8, Zenon DEF BusyOf
<1>14. \A x \in BusyOf(a) : e.blk[x].size = a.blk[x].size
  BY <1>1, <1>8, Zenon DEF BusyOf
<1>15. QED
  BY <1>7, <1>12, <1>13, <1>14, Zenon DEF KeepsBusy, T, u

\* Blocks are not empty.
LEMMA ChainSizes ==
  ASSUME NEW f, NEW N, Chain(f, N), NEW x \in DOMAIN f, f[x].size \in Nat
  PROVE  f[x].size > 0
<1>1. f[x].size >= MINIMUM_BLOCK_SIZE
  BY Zenon DEF Chain
<1>2. MINIMUM_BLOCK_SIZE \in Nat \ {0}
  BY Sizes
<1>3. QED
  BY <1>1, <1>2

\* A block that is not empty does not start where it ends.
LEMMA EndApart ==
  ASSUME NEW q \in Nat, NEW s \in Nat, s > 0
  PROVE  q + s # q /\ q < q + s
  OBVIOUS

\* After merge_prev no free block ends where the block in hand starts.
LEMMA MergePrev ==
  ASSUME NEW a, NEW S, NEW q, NEW N, PoolSize(N), Mid(a, S, q, N),
         NEW e, e = merge_prev(a, q).arena, NEW y, y = merge_prev(a, q).blk
  PROVE  \E T : Mid(e, T, y, N) /\ Front(e, T, y) /\ KeepsBusy(a, e)
<1>1. /\ Shape(a, S, N) /\ q \in DOMAIN a.blk /\ q \notin S /\ S \subseteq DOMAIN a.blk
      /\ \A x \in DOMAIN a.blk : a.blk[x].free <=> x \in S \cup {q}
      /\ Chain(a.blk, N) /\ DOMAIN a.blk \subseteq Nat
      /\ \A x \in DOMAIN a.blk : a.blk[x].size \in Nat
  BY Zenon DEF Mid, Shape, Lists, Headers, Header
<1>2. \A x \in DOMAIN a.blk : a.blk[x].size > 0
  BY <1>1, ChainSizes, Zenon
<1>3. CASE is_prev_physical_free(a, q)
  <2> DEFINE p == a.blk[q].prev_physical_block
  <2>1. p # NULL /\ a.blk[p].free /\ q # 0
    BY <1>1, <1>3, Zenon DEF is_prev_physical_free, Chain
  <2>2. p \in DOMAIN a.blk /\ p + a.blk[p].size = q /\ ~a.blk[p].last
    BY <1>1, <2>1, Zenon DEF Chain
  <2>3. p # q /\ p \in S
    BY <1>1, <1>2, <2>1, <2>2
  <2>4. y = p /\ e = blk_merge(Unlink(a, p), p, q)
    BY <1>3, Zenon DEF merge_prev
  <2> HIDE DEF p
  <2> DEFINE T == S \ {p}
  <2>5. Mid(e, T, p, N) /\ KeepsBusy(a, e) /\ Joined(Unlink(a, p).blk, e.blk, p, q)
    BY <2>2, <2>3, <2>4, JoinMid
  <2>6. /\ SamePlaces(a, Unlink(a, p))
    BY <1>1, <2>1, <2>3, UnlinkShape, Zenon
  <2>7. Front(e, T, p)
    <3>1. SUFFICES ASSUME NEW x \in T, x + e.blk[x].size = p PROVE FALSE
      BY Zenon DEF Front
    <3>2. x \in S /\ x # p /\ x # q /\ x \in DOMAIN a.blk
      BY <1>1, <3>1, Zenon
    <3>3. e.blk[x].size = a.blk[x].size
      BY <2>5, <2>6, <3>2, Zenon DEF Joined, SamePlaces
    <3>4. x < p
      BY <1>1, <1>2, <2>2, <3>1, <3>2, <3>3
    <3>5. ~a.blk[x].last
      BY <1>1, <2>2, <3>2, <3>4, Zenon DEF Chain
    <3>6. QED
      BY <2>3, <3>1, <3>2, <3>3, <3>5, Zenon DEF Mid
  <2>8. QED
    BY <2>4, <2>5, <2>7, Zenon
<1>4. CASE ~is_prev_physical_free(a, q)
  <2>1. e = a /\ y = q
    BY <1>4, Zenon DEF merge_prev
  <2>2. Front(a, S, q)
    <3>1. SUFFICES ASSUME NEW x \in S, x + a.blk[x].size = q PROVE FALSE
      BY Zenon DEF Front
    <3>2. x < q /\ x \in DOMAIN a.blk
      BY <1>1, <1>2, <3>1
    <3>3. ~a.blk[x].last
      BY <1>1, <3>2, Zenon DEF Chain
    <3>4. a.blk[q].prev_physical_block = x
      BY <1>1, <3>1, <3>2, <3>3, Zenon DEF Chain
    <3>5. x # NULL /\ a.blk[x].free
      BY <1>1, <3>2, TlsfConstants, Zenon
    <3>6. QED
      BY <1>4, <3>4, <3>5, Zenon DEF is_prev_physical_free
  <2>3. QED
    BY <2>1, <2>2, Zenon DEF KeepsBusy
<1>5. QED
  BY <1>3, <1>4, Zenon

\* After merge_next no free block follows the block in hand either.
LEMMA MergeNext ==
  ASSUME NEW a, NEW S, NEW q, NEW N, PoolSize(N), Mid(a, S, q, N), Front(a, S, q),
         NEW e, e = merge_next(a, q).arena
  PROVE  /\ merge_next(a, q).blk = q
         /\ \E T : /\ Mid(e, T, q, N) /\ Front(e, T, q) /\ KeepsBusy(a, e)
                   /\ ~e.blk[q].last => q + e.blk[q].size \notin T
<1>1. /\ Shape(a, S, N) /\ q \in DOMAIN a.blk /\ q \notin S /\ S \subseteq DOMAIN a.blk
      /\ \A x \in DOMAIN a.blk : a.blk[x].free <=> x \in S \cup {q}
      /\ Chain(a.blk, N) /\ DOMAIN a.blk \subseteq Nat
      /\ \A x \in DOMAIN a.blk : a.blk[x].size \in Nat
  BY Zenon DEF Mid, Shape, Lists, Headers, Header
<1>2. \A x \in DOMAIN a.blk : a.blk[x].size > 0
  BY <1>1, ChainSizes, Zenon
<1>3. merge_next(a, q).blk = q
  BY Zenon DEF merge_next
<1>4. CASE is_next_physical_free(a, q)
  <2> DEFINE n == q + a.blk[q].size
  <2>1. ~a.blk[q].last /\ a.blk[n].free /\ n \in DOMAIN a.blk
    BY <1>1, <1>4, Zenon DEF is_next_physical_free, NEXT_BLK, Chain
  <2>2. n # q /\ n \in S
    <3>1. n # q
      BY <1>1, <1>2, EndApart, Zenon
    <3>2. QED
      BY <1>1, <2>1, <3>1, Zenon
  <2>3. e = blk_merge(Unlink(a, n), q, n)
    BY <1>4, Zenon DEF merge_next, NEXT_BLK
  <2>4. n = q + a.blk[q].size
    BY Zenon
  <2> HIDE DEF n
  <2> DEFINE T == S \ {n}
  <2>5. Mid(e, T, q, N) /\ KeepsBusy(a, e) /\ Joined(Unlink(a, n).blk, e.blk, q, n)
    BY <2>1, <2>2, <2>3, <2>4, JoinMid, Zenon
  <2>6. SamePlaces(a, Unlink(a, n))
    BY <1>1, <2>1, <2>2, UnlinkShape, Zenon
  <2>7. Front(e, T, q)
    <3>1. ASSUME NEW x \in T PROVE x + e.blk[x].size # q
      <4>1. x \in S /\ x # q /\ x # n /\ x \in DOMAIN a.blk
        BY <1>1, Zenon
      <4>2. e.blk[x].size = a.blk[x].size
        BY <2>5, <2>6, <4>1, Zenon DEF Joined, SamePlaces
      <4>3. QED
        BY <4>1, <4>2, Zenon DEF Front
    <3>2. QED
      BY <3>1, Zenon DEF Front
  <2>8. ~e.blk[q].last => q + e.blk[q].size \notin T
    <3>1. e.blk[q].size = a.blk[q].size + a.blk[n].size /\ (e.blk[q].last <=> a.blk[n].last)
      BY <1>1, <2>1, <2>5, <2>6, Zenon DEF Joined, SamePlaces
    <3>2. q + e.blk[q].size = n + a.blk[n].size
      BY <1>1, <2>1, <2>4, <3>1
    <3>3. ~a.blk[n].last => n + a.blk[n].size \notin S
      BY <2>2, Zenon DEF Mid
    <3>4. QED
      BY <3>1, <3>2, <3>3, Zenon
  <2>9. QED
    BY <1>3, <2>5, <2>7, <2>8, Zenon
<1>5. CASE ~is_next_physical_free(a, q)
  <2>1. e = a
    BY <1>5, Zenon DEF merge_next
  <2>2. ~a.blk[q].last => q + a.blk[q].size \notin S
    BY <1>1, <1>5, Zenon DEF is_next_physical_free, NEXT_BLK
  <2>3. QED
    BY <1>3, <2>1, <2>2, Zenon DEF KeepsBusy
<1>6. QED
  BY <1>4, <1>5, Zenon

\* The body of rtl_tlsf_free: the arena is good again, b is in use no more,
\* and the other blocks in use are where and as large as they were.
LEMMA ReleaseGood ==
  ASSUME NEW a, NEW N, PoolSize(N), Good(a, N), NEW b \in BusyOf(a),
         NEW e, e = Release(a, b)
  PROVE  /\ Good(e, N) /\ BusyOf(e) = BusyOf(a) \ {b}
         /\ \A x \in BusyOf(a) \ {b} : e.blk[x].size = a.blk[x].size
<1> DEFINE S == FreeOf(a)
           a1 == set_free(a, b)
           a2 == merge_prev(a1, b).arena
           b2 == merge_prev(a1, b).blk
           a3 == merge_next(a2, b2).arena
<1>1. e = tlsf_arena_insert_block(a3, merge_next(a2, b2).blk)
  BY Zenon DEF Release
<1>2. /\ Shape(a, S, N) /\ S \subseteq DOMAIN a.blk /\ b \in DOMAIN a.blk /\ b \notin S
      /\ \A x \in DOMAIN a.blk : a.blk[x].free <=> x \in S
      /\ \A x \in S : ~a.blk[x].last => x + a.blk[x].size \notin S
  BY Zenon DEF Good, FreeOf, BusyOf, Merged
<1>3. Shape(a1, S, N) /\ Marked(a, a1, b) /\ a1.blk[b].free
  BY <1>2, ShapeMark, Zenon
<1> HIDE DEF S, a1
<1>4. Mid(a1, S, b, N)
  BY <1>2, <1>3, Zenon DEF Mid, Marked, SamePlaces
<1>5. /\ BusyOf(a1) = BusyOf(a) \ {b}
      /\ \A x \in BusyOf(a1) : a1.blk[x].size = a.blk[x].size
  BY <1>2, <1>3, Zenon DEF BusyOf, Marked, SamePlaces
<1>6. PICK T : Mid(a2, T, b2, N) /\ Front(a2, T, b2) /\ KeepsBusy(a1, a2)
  BY <1>4, MergePrev, Zenon
<1> HIDE DEF a2, b2
<1>7. /\ merge_next(a2, b2).blk = b2
      /\ \E U : /\ Mid(a3, U, b2, N) /\ Front(a3, U, b2) /\ KeepsBusy(a2, a3)
                /\ ~a3.blk[b2].last => b2 + a3.blk[b2].size \notin U
  BY <1>6, MergeNext, Zenon
<1> HIDE DEF a3
<1>8. PICK U : /\ Mid(a3, U, b2, N) /\ Front(a3, U, b2) /\ KeepsBusy(a2, a3)
               /\ ~a3.blk[b2].last => b2 + a3.blk[b2].size \notin U
  BY <1>7, Zenon
<1>9. /\ Shape(a3, U, N) /\ b2 \in DOMAIN a3.blk \ U /\ U \subseteq DOMAIN a3.blk
      /\ \A x \in DOMAIN a3.blk : a3.blk[x].free <=> x \in U \cup {b2}
      /\ \A x \in U : ~a3.blk[x].last => x + a3.blk[x].size \notin U
  BY <1>8, Zenon DEF Mid, Shape, Lists
<1>10. Shape(e, U \cup {b2}, N) /\ Marked(a3, e, b2) /\ e.blk[b2].free
  BY <1>1, <1>7, <1>9, ShapeInsert, Zenon
<1>11. /\ DOMAIN e.blk = DOMAIN a3.blk
       /\ \A x \in DOMAIN a3.blk :
            /\ e.blk[x].size = a3.blk[x].size /\ (e.blk[x].last <=> a3.blk[x].last)
            /\ e.blk[x].free <=> x \in U \cup {b2}
  BY <1>9, <1>10, Zenon DEF Marked, SamePlaces
<1>12. FreeOf(e) = U \cup {b2}
  BY <1>9, <1>11, Zenon DEF FreeOf
<1>13. Merged(e)
  <2>1. SUFFICES ASSUME NEW x \in U \cup {b2}, ~a3.blk[x].last
                 PROVE  x + a3.blk[x].size \notin U \cup {b2}
    <3>1. \A x \in FreeOf(e) : x \in DOMAIN a3.blk
      BY <1>9, <1>12, Zenon
    <3>2. \A x \in FreeOf(e) : e.blk[x].size = a3.blk[x].size /\ (e.blk[x].last <=> a3.blk[x].last)
      BY <1>11, <3>1, Zenon
    <3>3. QED
      BY <1>12, <3>2, Zenon DEF Merged
  <2>2. CASE x = b2
    <3>1. /\ b2 \in Nat /\ a3.blk[b2].size \in Nat /\ a3.blk[b2].size >= MINIMUM_BLOCK_SIZE
      BY <1>9, Zenon DEF Shape, Headers, Header, Chain
    <3>2. b2 + a3.blk[b2].size # b2
      BY <3>1, Sizes
    <3>3. QED
      BY <1>8, <2>1, <2>2, <3>2, Zenon
  <2>3. CASE x # b2
    BY <1>8, <1>9, <2>1, <2>3, Zenon DEF Front
  <2>4. QED
    BY <2>2, <2>3, Zenon
<1>14. BusyOf(e) = BusyOf(a3)
  BY <1>9, <1>11, Zenon DEF BusyOf
<1>15. BusyOf(e) = BusyOf(a) \ {b}
  BY <1>5, <1>6, <1>8, <1>14, Zenon DEF KeepsBusy
<1>16. \A x \in BusyOf(a) \ {b} : e.blk[x].size = a.blk[x].size
  <2>1. SUFFICES ASSUME NEW x \in BusyOf(a) \ {b} PROVE e.blk[x].size = a.blk[x].size
    BY Zenon
  <2>2. x \in BusyOf(a1) /\ x \in BusyOf(a2) /\ x \in BusyOf(a3)
    BY <1>5, <1>6, <1>8, <2>1, Zenon DEF KeepsBusy
  <2>3. x \in DOMAIN a3.blk
    BY <2>2, Zenon DEF BusyOf
  <2>4. QED
    BY <1>5, <1>6, <1>8, <1>11, <2>2, <2>3, Zenon DEF KeepsBusy
<1>17. QED
  BY <1>10, <1>12, <1>13, <1>15, <1>16, Zenon DEF Good

-----------------------------------------------------------------------------
(* rtl_tlsf_make_arena *)

\* sizeof(struct rtl_tlsf_arena) is a number.
LEMMA ArenaSizeType == ARENA_SIZE \in Nat
<1>1. FLI_COUNT \in Nat
  BY Levels DEF FLI_COUNT
<1>2. FLI_COUNT * SLI_COUNT \in Nat
  BY <1>1, Sizes, MulMonotone
<1>3. (1 + FLI_COUNT + FLI_COUNT * SLI_COUNT) \in Nat
  BY <1>1, <1>2
<1> DEFINE k == 1 + FLI_COUNT + FLI_COUNT * SLI_COUNT
<1>4. k \in Nat /\ ARENA_SIZE = WORD_SIZE_BYTES * k
  BY <1>3, Zenon DEF ARENA_SIZE
<1> HIDE DEF k
<1>5. QED
  BY <1>4, Sizes, MulMonotone

\* The region is accepted and smaller than the largest one.
Accepted(sz) ==
  /\ sz \in Nat /\ MakeArenaCode(0, sz) = 0
  /\ sz # ARENA_SIZE + MAXIMUM_BLOCK_SIZE

\* The first block of an accepted region is aligned and within the limits.
LEMMA FreshSize ==
  ASSUME NEW sz, Accepted(sz), NEW N, N = AlignDown(sz - ARENA_SIZE)
  PROVE  PoolSize(N) /\ MINIMUM_BLOCK_SIZE <= N /\ N % ALIGNMENT_REQUIREMENT = 0
<1>1. /\ ARENA_SIZE \in Nat /\ MINIMUM_BLOCK_SIZE \in Nat \ {0} /\ MAXIMUM_BLOCK_SIZE \in Nat
      /\ ALIGNMENT_REQUIREMENT \in Nat \ {0}
  BY ArenaSizeType, Sizes, ConstantTypes, Zenon
<1>2. /\ sz \in Nat /\ ~(sz < ARENA_SIZE + MINIMUM_BLOCK_SIZE)
      /\ ~(sz > ARENA_SIZE + MAXIMUM_BLOCK_SIZE) /\ sz # ARENA_SIZE + MAXIMUM_BLOCK_SIZE
  BY DEF Accepted, MakeArenaCode
<1> DEFINE x == sz - ARENA_SIZE
<1>3. x \in Nat /\ MINIMUM_BLOCK_SIZE <= x /\ x < MAXIMUM_BLOCK_SIZE
  BY <1>1, <1>2
<1> HIDE DEF x
<1>4. /\ N \in Nat /\ N <= x /\ x < N + ALIGNMENT_REQUIREMENT
      /\ N % ALIGNMENT_REQUIREMENT = 0
  BY <1>3, AlignedDown, Zenon DEF x
<1>5. MINIMUM_BLOCK_SIZE <= N
  <2>1. SUFFICES ASSUME N < MINIMUM_BLOCK_SIZE PROVE FALSE
    BY <1>1, <1>4
  <2>2. N + ALIGNMENT_REQUIREMENT <= MINIMUM_BLOCK_SIZE
    <3>1. MINIMUM_BLOCK_SIZE % ALIGNMENT_REQUIREMENT = 0
      BY AlignmentConstants, Zenon
    <3>2. QED
      BY <1>1, <1>4, <2>1, <3>1, MultipleDifference, Zenon
  <2>3. QED
    BY <1>1, <1>3, <1>4, <2>2
<1>6. QED
  BY <1>1, <1>3, <1>4, <1>5 DEF PoolSize

\* rtl_tlsf_make_arena builds a good arena with nothing in use.
LEMMA FreshGood ==
  ASSUME NEW sz, Accepted(sz), NEW N, N = AlignDown(sz - ARENA_SIZE),
         NEW e, e = FreshArena(sz)
  PROVE  Good(e, N) /\ DOMAIN e.blk = {0} /\ BusyOf(e) = {}
<1>1. PoolSize(N) /\ MINIMUM_BLOCK_SIZE <= N /\ N % ALIGNMENT_REQUIREMENT = 0 /\ N \in Nat
  BY FreshSize, Zenon DEF PoolSize
<1> DEFINE hdr == [size |-> N, free |-> FALSE, last |-> TRUE,
                   prev_physical_block |-> NULL, next_free |-> NULL, prev_free |-> NULL]
           f == [b \in {0} |-> hdr]
           a == [EmptyArena EXCEPT !.blk = f]
<1>2. hdr \in Header
  BY <1>1, Zenon DEF Header
<1>3. f \in [{0} -> Header] /\ DOMAIN f = {0} /\ f[0] = hdr
  BY <1>2, Zenon
<1>4. Headers(f)
  BY <1>3 DEF Headers
<1>5. f[0].size = N /\ f[0].last /\ f[0].prev_physical_block = NULL
  BY <1>3, Zenon
<1>6. e = tlsf_arena_insert_block(a, 0)
  BY Zenon DEF FreshArena
<1> HIDE DEF hdr, f
<1>7. /\ a = [fl_bitmap |-> {}, sl_bitmap |-> [r \in Rows |-> {}],
              free_blocks |-> [c \in Classes |-> NULL], blk |-> f]
  <2> DEFINE rows == [r \in Rows |-> {}]
             heads == [c \in Classes |-> NULL]
             none == <<>>
  <2>1. a = [[fl_bitmap |-> {}, sl_bitmap |-> rows, free_blocks |-> heads, blk |-> none]
               EXCEPT !.blk = f]
    BY Zenon DEF EmptyArena
  <2> HIDE DEF rows, heads, none
  <2>2. a = [fl_bitmap |-> {}, sl_bitmap |-> rows, free_blocks |-> heads, blk |-> f]
    BY <2>1
  <2>3. QED
    BY <2>2, Zenon DEF rows, heads
<1> HIDE DEF a
<1>8. Table(a) /\ a.blk = f
  BY <1>7, Zenon DEF Table
<1>9. Chain(f, N)
  <2>1. 0 % ALIGNMENT_REQUIREMENT = 0
    BY ConstantTypes
  <2>2. QED
    BY <1>1, <1>3, <1>5, <2>1 DEF Chain
<1>10. Lists(a, {})
  <2>1. ASSUME NEW c \in Classes PROVE \E n \in Nat : \E L : List(a, {}, c, n, L)
    <3>1. a.free_blocks[c] = NULL
      BY <1>7, Zenon
    <3>2. List(a, {}, c, 0, <<>>)
      BY <3>1 DEF List
    <3>3. QED
      BY <3>2, Zenon
  <2>2. \A r \in Rows : a.sl_bitmap[r] = {}
    BY <1>7, Zenon
  <2>3. \A c \in Classes : a.free_blocks[c] = NULL /\ c[1] \in Rows
    BY <1>7, Zenon DEF Classes
  <2>4. a.fl_bitmap = {}
    BY <1>7, Zenon
  <2>5. QED
    BY <2>1, <2>2, <2>3, <2>4, Zenon DEF Lists
<1>11. Shape(a, {}, N)
  BY <1>4, <1>8, <1>9, <1>10, Zenon DEF Shape
<1>12. Shape(e, {} \cup {0}, N) /\ Marked(a, e, 0) /\ e.blk[0].free
  BY <1>1, <1>3, <1>6, <1>8, <1>11, ShapeInsert, SMTT(20)
<1>13. DOMAIN e.blk = {0} /\ e.blk[0].last
  BY <1>3, <1>5, <1>8, <1>12, Zenon DEF Marked, SamePlaces
<1>14. FreeOf(e) = {0} /\ BusyOf(e) = {}
  BY <1>12, <1>13, Zenon DEF FreeOf, BusyOf
<1>15. Merged(e)
  BY <1>13, <1>14, Zenon DEF Merged
<1>16. {} \cup {0} = {0}
  BY Zenon
<1>17. QED
  BY <1>12, <1>13, <1>14, <1>15, <1>16, Zenon DEF Good

-----------------------------------------------------------------------------
(* find_suitable_block *)

\* FFS of a bitmap that is not 0 is its lowest bit.
LEMMA LeastBit ==
  ASSUME NEW bits, bits \subseteq Nat, bits # {}
  PROVE  FFS(bits) \in bits /\ \A j \in bits : FFS(bits) <= j
<1>1. \E i \in bits : \A j \in bits : i <= j
  BY LeastElement, Zenon
<1>2. FFS(bits) = CHOOSE i \in bits : \A j \in bits : i <= j
  BY Zenon DEF FFS
<1>3. QED
  BY <1>1, <1>2, Zenon

\* find_suitable_block finds a list that is not empty at or above the class
\* it starts from, and fails only if all of them are empty.
LEMMA Suitable ==
  ASSUME NEW a, Table(a), NEW S, Lists(a, S), NEW c \in Classes,
         NEW d, d = SuitableClass(a, c)
  PROVE  /\ d # NULL => d \in Classes /\ AtMost(c, d) /\ a.free_blocks[d] # NULL
         /\ d = NULL => \A k \in Classes : AtMost(c, k) => a.free_blocks[k] = NULL
<1> DEFINE sl == {s \in a.sl_bitmap[c[1]] : s >= c[2]}
           fl == {f \in a.fl_bitmap : f > c[1]}
<1>1. Rows \subseteq Nat /\ Columns \subseteq Nat
  BY Levels, ConstantTypes, RowRange, Sizes DEF Columns
<1>2. /\ \A k \in Classes : k[1] \in Rows /\ k[2] \in Columns /\ k = <<k[1], k[2]>>
      /\ \A r \in Rows, s \in Columns : <<r, s>> \in Classes
  BY DEF Classes
<1>3. /\ \A k \in Classes : k[2] \in a.sl_bitmap[k[1]] <=> a.free_blocks[k] # NULL
      /\ \A r \in Rows : r \in a.fl_bitmap <=> a.sl_bitmap[r] # {}
      /\ \A r \in Rows : a.sl_bitmap[r] \subseteq Columns
      /\ a.fl_bitmap \subseteq Rows
  BY Zenon DEF Lists, Table
<1>4. \A r \in Rows : \A s \in a.sl_bitmap[r] :
        <<r, s>> \in Classes /\ a.free_blocks[<<r, s>>] # NULL
  BY <1>2, <1>3, Zenon
<1>5. CASE sl # {}
  <2>1. sl \subseteq Nat
    BY <1>1, <1>2, <1>3, Zenon
  <2>2. FFS(sl) \in sl
    BY <1>5, <2>1, LeastBit, Zenon
  <2>3. d = <<c[1], FFS(sl)>>
    BY <1>5, Zenon DEF SuitableClass
  <2>4. FFS(sl) \in a.sl_bitmap[c[1]] /\ FFS(sl) >= c[2] /\ c[1] \in Rows
    BY <1>2, <2>2, Zenon
  <2>5. c[2] \in Nat /\ FFS(sl) \in Nat
    BY <1>1, <1>2, <2>1, <2>2, Zenon
  <2> HIDE DEF sl
  <2>6. d \in Classes /\ a.free_blocks[d] # NULL
    BY <1>4, <2>3, <2>4, Zenon
  <2>7. AtMost(c, d)
    BY <2>3, <2>4, <2>5 DEF AtMost
  <2>8. d # NULL
    BY <2>6, TlsfConstants, Zenon
  <2>9. QED
    BY <2>6, <2>7, <2>8, Zenon
<1>6. CASE sl = {} /\ fl # {}
  <2> DEFINE r == FFS(fl)
             row == a.sl_bitmap[r]
  <2>1. fl \subseteq Nat
    BY <1>1, <1>3, Zenon
  <2>2. r \in fl
    BY <1>6, <2>1, LeastBit, Zenon
  <2>3. r \in Rows /\ r > c[1] /\ row # {} /\ row \subseteq Nat
    BY <1>1, <1>3, <2>2, Zenon
  <2>4. FFS(row) \in row
    BY <2>3, LeastBit, Zenon
  <2>5. d = <<r, FFS(row)>>
    BY <1>6, Zenon DEF SuitableClass
  <2>6. c[1] \in Nat /\ r \in Nat
    BY <1>1, <1>2, <2>3, Zenon
  <2> HIDE DEF r
  <2>7. d \in Classes /\ a.free_blocks[d] # NULL
    BY <1>4, <2>3, <2>4, <2>5, Zenon
  <2>8. AtMost(c, d)
    BY <2>3, <2>5, <2>6 DEF AtMost
  <2>9. d # NULL
    BY <2>7, TlsfConstants, Zenon
  <2>10. QED
    BY <2>7, <2>8, <2>9, Zenon
<1>7. CASE sl = {} /\ fl = {}
  <2>1. d = NULL
    BY <1>7, Zenon DEF SuitableClass
  <2>2. ASSUME NEW k \in Classes, AtMost(c, k), a.free_blocks[k] # NULL PROVE FALSE
    <3>1. k[2] \in a.sl_bitmap[k[1]] /\ k[1] \in Rows /\ k[1] \in a.fl_bitmap
      BY <1>2, <1>3, <2>2, Zenon
    <3>2. c[1] \in Nat /\ c[2] \in Nat /\ k[1] \in Nat /\ k[2] \in Nat
      BY <1>1, <1>2, Zenon
    <3>3. CASE c[1] < k[1]
      <4>1. k[1] \in fl
        BY <3>1, <3>2, <3>3, Zenon
      <4>2. QED
        BY <1>7, <4>1, Zenon
    <3>4. CASE c[1] = k[1] /\ c[2] <= k[2]
      <4>1. k[2] \in sl
        BY <3>1, <3>2, <3>4, Zenon
      <4>2. QED
        BY <1>7, <4>1, Zenon
    <3>5. QED
      BY <2>2, <3>3, <3>4, Zenon DEF AtMost
  <2>3. QED
    BY <2>1, <2>2, Zenon
<1>8. QED
  BY <1>5, <1>6, <1>7, Zenon

\* A class that mapping_search returns and rtl_tlsf_alloc does not reject is
\* within the arrays.
LEMMA SearchInTable ==
  ASSUME NEW r \in Nat, r <= MAXIMUM_BLOCK_SIZE, Roundable(r),
         ~(mapping_search(r)[1] >= MAXIMUM_FLI)
  PROVE  mapping_search(r) \in Classes
<1>1. /\ MINIMUM_FLI_ALLOCATION \in Nat /\ MAXIMUM_BLOCK_SIZE \in Nat /\ UWORD_MOD \in Nat
      /\ MINIMUM_FLI_ALLOCATION <= MAXIMUM_BLOCK_SIZE
  <2>1. MINIMUM_FLI_ALLOCATION <= MAXIMUM_BLOCK_SIZE
    BY SizePowers, Levels, PowMonotone
  <2>2. QED
    BY <2>1, Sizes
<1>2. CASE r < MINIMUM_FLI_ALLOCATION
  <2>1. mapping_search(r) = mapping_insert(r)
    BY <1>1, <1>2 DEF mapping_search
  <2>2. r < MAXIMUM_BLOCK_SIZE
    BY <1>1, <1>2
  <2>3. QED
    BY <2>1, <2>2, InsertInTable, Zenon
<1>3. CASE MINIMUM_FLI_ALLOCATION <= r
  <2> DEFINE x == r + Pow(FLS(r) - SLI_COUNT_LOG2) - 1
  <2>1. /\ x \in Nat /\ x < UWORD_MOD /\ mapping_search(r) = mapping_insert(x)
    BY <1>3, SearchRounds, Zenon
  <2> HIDE DEF x
  <2>2. CASE x < MAXIMUM_BLOCK_SIZE
    BY <2>1, <2>2, InsertInTable, Zenon
  <2>3. CASE MAXIMUM_BLOCK_SIZE <= x
    <3> DEFINE fli == FLS(x)
    <3>1. /\ fli \in Nat /\ x < Pow(fli + 1) /\ mapping_insert(x)[1] = fli
      <4>1. MINIMUM_FLI_ALLOCATION <= x
        BY <1>1, <2>1, <2>3
      <4>2. QED
        BY <2>1, <4>1, UpperRow
    <3> HIDE DEF fli
    <3>2. fli < MAXIMUM_FLI
      BY <2>1, <3>1, Levels
    <3>3. fli + 1 \in Nat /\ MAXIMUM_FLI \in Nat /\ fli + 1 <= MAXIMUM_FLI
      BY <3>1, <3>2, Levels
    <3>4. Pow(fli + 1) <= Pow(MAXIMUM_FLI) /\ Pow(fli + 1) \in Nat
      BY <3>3, PowMonotone, PowCounts, Zenon
    <3>5. MAXIMUM_BLOCK_SIZE = Pow(MAXIMUM_FLI)
      BY SizePowers, Zenon
    <3>6. QED
      BY <1>1, <2>1, <2>3, <3>1, <3>4, <3>5
  <2>4. QED
    BY <1>1, <2>1, <2>2, <2>3
<1>4. QED
  BY <1>1, <1>2, <1>3

\* What rtl_tlsf_alloc finds is a free block, is taken out of its own list,
\* and is large enough.
LEMMA FoundFits ==
  ASSUME NEW a, NEW N, PoolSize(N), Good(a, N),
         NEW sz \in Nat, NEW size, size = BlockSizeFor(sz), Roundable(size),
         NEW b, b = FoundBlock(a, size), b # NULL
  PROVE  /\ b \in FreeOf(a) /\ FoundClass(a, size) = Class(a, b)
         /\ size \in Nat /\ MINIMUM_BLOCK_SIZE <= size /\ size <= a.blk[b].size
         /\ size % ALIGNMENT_REQUIREMENT = 0
<1> DEFINE c == mapping_search(size)
           d == FoundClass(a, size)
<1>1. /\ Table(a) /\ Headers(a.blk) /\ Chain(a.blk, N) /\ Lists(a, FreeOf(a))
  BY Zenon DEF Good, Shape
<1>2. d # NULL /\ b = a.free_blocks[d]
  BY Zenon DEF FoundBlock
<1>3. size # 0 /\ ~(c[1] >= MAXIMUM_FLI) /\ d = SuitableClass(a, c)
  BY <1>2, Zenon DEF FoundClass
<1>4. /\ size \in Nat /\ MINIMUM_BLOCK_SIZE <= size
      /\ size <= MAXIMUM_BLOCK_SIZE /\ size % ALIGNMENT_REQUIREMENT = 0
  BY <1>3, BlockSizes, Zenon
<1>5. c \in Classes
  BY <1>3, <1>4, SearchInTable, Zenon
<1> HIDE DEF c, d
<1>6. d \in Classes /\ AtMost(c, d)
  BY <1>1, <1>2, <1>3, <1>5, Suitable, Zenon
<1>7. b \in FreeOf(a) /\ Class(a, b) = d
  BY <1>1, <1>2, <1>6, HeadListed, Zenon
<1> DEFINE s == a.blk[b].size
<1>8. b \in DOMAIN a.blk
  BY <1>7, Zenon DEF FreeOf
<1>9. b \in Nat /\ s \in Nat /\ b + s <= N /\ s % ALIGNMENT_REQUIREMENT = 0
  BY <1>1, <1>8, Zenon DEF Headers, Header, Chain
<1>10. d = mapping_insert(s)
  BY <1>7, Zenon DEF Class
<1> HIDE DEF s
<1>11. s < UWORD_MOD
  BY <1>9, Sizes DEF PoolSize
<1>12. s >= size
  <2>1. AtMost(mapping_search(size), mapping_insert(s))
    BY <1>6, <1>10, Zenon DEF c
  <2>2. QED
    BY <1>4, <1>9, <1>11, <2>1, SearchFits, Zenon
<1>13. QED
  BY <1>4, <1>7, <1>9, <1>12, Zenon DEF s, d

\* rtl_tlsf_alloc finds something if a free block exceeds the request by one
\* part in SLI_COUNT.
LEMMA FoundReaches ==
  ASSUME NEW a, NEW N, PoolSize(N), Good(a, N),
         NEW sz \in Nat, NEW size, size = BlockSizeFor(sz), Roundable(size), size # 0,
         NEW x \in FreeOf(a), a.blk[x].size * SLI_COUNT >= size * (SLI_COUNT + 1)
  PROVE  FoundBlock(a, size) # NULL
<1> DEFINE c == mapping_search(size)
           s == a.blk[x].size
           k == Class(a, x)
<1>1. /\ Table(a) /\ Headers(a.blk) /\ Chain(a.blk, N) /\ Lists(a, FreeOf(a))
      /\ Shape(a, FreeOf(a), N)
  BY Zenon DEF Good, Shape
<1>2. x \in DOMAIN a.blk
  BY Zenon DEF FreeOf
<1>3. x \in Nat /\ s \in Nat /\ x + s <= N
  BY <1>1, <1>2, Zenon DEF Headers, Header, Chain
<1>4. k \in Classes
  BY <1>1, <1>2, ClassInTable, Zenon
<1>5. size \in Nat \ {0} /\ size <= MAXIMUM_BLOCK_SIZE
  BY BlockSizes, Zenon
<1>6. s * SLI_COUNT >= size * (SLI_COUNT + 1)
  BY Zenon
<1>7. k = mapping_insert(s)
  BY Zenon DEF Class
<1> HIDE DEF s
<1>8. s < MAXIMUM_BLOCK_SIZE
  BY <1>3, Sizes DEF PoolSize
<1>9. AtMost(c, mapping_insert(s)) /\ c \in Classes
  BY <1>3, <1>5, <1>6, <1>8, SearchReaches, Zenon
<1>10. AtMost(c, k)
  BY <1>7, <1>9, Zenon
<1>11. a.free_blocks[k] # NULL
  <2>0. PICK n \in Nat : \E L : List(a, FreeOf(a), k, n, L)
    BY <1>1, <1>4, Zenon DEF Lists
  <2>1. PICK L : List(a, FreeOf(a), k, n, L)
    BY <2>0, Zenon
  <2>2. PICK i \in 0 .. (n - 1) : L[i] = x
    BY <2>1, Zenon DEF List
  <2>3. n # 0 /\ 0 \in 0 .. (n - 1)
    OBVIOUS
  <2>4. a.free_blocks[k] = L[0] /\ L[0] \in DOMAIN a.blk
    BY <2>1, <2>3, Zenon DEF List, FreeOf
  <2>5. QED
    BY <1>1, <2>4, TlsfConstants, Zenon DEF Headers
<1>12. ~(c[1] >= MAXIMUM_FLI)
  <2>1. c[1] \in Rows
    BY <1>9, Zenon DEF Classes
  <2>2. QED
    BY <2>1, RowRange, Levels, ConstantTypes, SMTT(20)
<1> HIDE DEF k
<1>13. FoundClass(a, size) = SuitableClass(a, c)
  BY <1>12, Zenon DEF FoundClass
<1> HIDE DEF c
<1> DEFINE d == SuitableClass(a, c)
<1>14. d # NULL
  BY <1>1, <1>4, <1>9, <1>10, <1>11, Suitable, Zenon
<1>15. a.free_blocks[d] # NULL
  BY <1>1, <1>9, <1>14, Suitable, Zenon
<1>16. QED
  BY <1>13, <1>14, <1>15, Zenon DEF FoundBlock

-----------------------------------------------------------------------------
(* The invariant. *)

\* An arena over a region of one of the sizes, held blocks and all.
Whole(a, held) ==
  \E sz \in ArenaSizes :
    /\ MakeArenaCode(0, sz) = 0
    /\ Good(a, AlignDown(sz - ARENA_SIZE))
    /\ held = BusyOf(a)

\* What is held is large enough for what was asked for.
Granted(a, l) ==
  \A b \in DOMAIN l : /\ l[b] \in Requests /\ BlockSizeFor(l[b]) # 0
                      /\ a.blk[b].size >= BlockSizeFor(l[b])

\* The inductive invariant.
IInv ==
  /\ live \in [DOMAIN live -> Nat]
  /\ ~Made => live = <<>>
  /\ Made => Whole(arena, DOMAIN live)
  /\ Granted(arena, live)

\* A good arena is one that rtl_tlsf_make_arena has made.
LEMMA GoodIsMade ==
  ASSUME NEW a, NEW N, Good(a, N)
  PROVE  a # EmptyArena
<1>1. 0 \in DOMAIN a.blk
  BY Zenon DEF Good, Shape, Chain
<1>2. EmptyArena.blk = <<>>
  BY Zenon DEF EmptyArena
<1>3. QED
  BY <1>1, <1>2

\* The pool of an arena is of a size for which every block has a list.
LEMMA WholePool ==
  ASSUME Limits, NEW a, NEW held, Whole(a, held)
  PROVE  \E N : PoolSize(N) /\ Good(a, N) /\ held = BusyOf(a)
<1>1. PICK sz \in ArenaSizes : /\ MakeArenaCode(0, sz) = 0
                               /\ Good(a, AlignDown(sz - ARENA_SIZE))
                               /\ held = BusyOf(a)
  BY Zenon DEF Whole
<1>2. Accepted(sz)
  BY <1>1, TlsfConstants, Zenon DEF Accepted, Limits
<1>3. PoolSize(AlignDown(sz - ARENA_SIZE))
  BY <1>2, FreshSize, Zenon
<1>4. QED
  BY <1>1, <1>3, Zenon

\* The invariant holds before rtl_tlsf_make_arena.
LEMMA InitIInv ==
  ASSUME Init
  PROVE  IInv
<1>1. arena = EmptyArena /\ live = <<>>
  BY Zenon DEF Init
<1>2. live \in [DOMAIN live -> Nat] /\ DOMAIN live = {}
  BY <1>1
<1>3. QED
  BY <1>1, <1>2, Zenon DEF IInv, Made, Granted

\* rtl_tlsf_make_arena establishes the invariant, or refuses the region.
LEMMA MakeIInv ==
  ASSUME Limits, IInv, NEW m \in {0, 1}, NEW sz \in ArenaSizes, rtl_tlsf_make_arena(m, sz)
  PROVE  IInv'
<1>1. ~Made /\ live = <<>> /\ live' = live /\ DOMAIN live = {} /\ live' \in [DOMAIN live' -> Nat]
  BY DEF rtl_tlsf_make_arena, IInv
<1>2. Granted(arena', live')
  BY <1>1, Zenon DEF Granted
<1>3. CASE MakeArenaCode(m, sz) = 0
  <2>1. arena' = FreshArena(sz)
    BY <1>3, Zenon DEF rtl_tlsf_make_arena
  <2>2. MakeArenaCode(0, sz) = 0
    BY <1>3 DEF MakeArenaCode
  <2>3. Accepted(sz)
    BY <2>2, TlsfConstants, Zenon DEF Accepted, Limits
  <2>4. Good(arena', AlignDown(sz - ARENA_SIZE)) /\ BusyOf(arena') = {}
    BY <2>1, <2>3, FreshGood, Zenon
  <2>5. Whole(arena', DOMAIN live')
    BY <1>1, <2>2, <2>4, Zenon DEF Whole
  <2>6. arena' # EmptyArena
    BY <2>4, GoodIsMade, Zenon
  <2>7. QED
    BY <1>1, <1>2, <2>5, <2>6, Zenon DEF IInv, Made
<1>4. CASE MakeArenaCode(m, sz) # 0
  <2>1. arena' = arena
    BY <1>4, Zenon DEF rtl_tlsf_make_arena
  <2>2. QED
    BY <1>1, <1>2, <2>1, Zenon DEF IInv, Made
<1>5. QED
  BY <1>3, <1>4, Zenon

\* What a successful call of rtl_tlsf_alloc does.
Served(N, b, sz) ==
  /\ PoolSize(N) /\ Good(arena, N) /\ Good(arena', N)
  /\ DOMAIN live = BusyOf(arena) /\ live' = With(live, b, sz)
  /\ b \in FreeOf(arena) /\ BusyOf(arena') = BusyOf(arena) \cup {b}
  /\ \A x \in BusyOf(arena) : arena'.blk[x].size = arena.blk[x].size
  /\ BlockSizeFor(sz) \in Nat \ {0} /\ arena'.blk[b].size >= BlockSizeFor(sz)

\* What rtl_tlsf_free does.
Returned(N, b) ==
  /\ PoolSize(N) /\ Good(arena, N) /\ Good(arena', N)
  /\ DOMAIN live = BusyOf(arena) /\ live' = Without(live, b)
  /\ b \in BusyOf(arena) /\ BusyOf(arena') = BusyOf(arena) \ {b}
  /\ \A x \in BusyOf(arena) \ {b} : arena'.blk[x].size = arena.blk[x].size

\* A call of rtl_tlsf_alloc that finds a block serves the request with it.
LEMMA AllocServes ==
  ASSUME Limits, IInv, NEW sz \in Requests, rtl_tlsf_alloc(sz),
         NEW size, size = BlockSizeFor(sz),
         NEW b, b = FoundBlock(arena, size), b # NULL
  PROVE  \E t \in ArenaSizes : /\ MakeArenaCode(0, t) = 0
                               /\ Served(AlignDown(t - ARENA_SIZE), b, sz)
<1>1. /\ Whole(arena, DOMAIN live)
      /\ arena' = Take(arena, FoundClass(arena, size), b, size)
      /\ live' = With(live, b, sz)
  BY Zenon DEF rtl_tlsf_alloc, IInv
<1>2. PICK t \in ArenaSizes : /\ MakeArenaCode(0, t) = 0
                              /\ Good(arena, AlignDown(t - ARENA_SIZE))
                              /\ DOMAIN live = BusyOf(arena)
  BY <1>1, Zenon DEF Whole
<1> DEFINE N == AlignDown(t - ARENA_SIZE)
<1>3. PoolSize(N)
  <2>1. Accepted(t)
    BY <1>2, TlsfConstants, Zenon DEF Accepted, Limits
  <2>2. QED
    BY <2>1, FreshSize, Zenon
<1>4. sz \in Nat /\ Roundable(size)
  BY TlsfConstants, Zenon DEF Limits
<1>5. Good(arena, N)
  BY <1>2, Zenon
<1> HIDE DEF N
<1>6. /\ b \in FreeOf(arena) /\ FoundClass(arena, size) = Class(arena, b)
      /\ size \in Nat /\ MINIMUM_BLOCK_SIZE <= size /\ size <= arena.blk[b].size
      /\ size % ALIGNMENT_REQUIREMENT = 0
  BY <1>3, <1>4, <1>5, FoundFits, Zenon
<1>7. arena' = Take(arena, Class(arena, b), b, size)
  BY <1>1, <1>6, Zenon
<1>8. /\ Good(arena', N) /\ BusyOf(arena') = BusyOf(arena) \cup {b}
      /\ \A x \in BusyOf(arena) : arena'.blk[x].size = arena.blk[x].size
      /\ arena'.blk[b].size >= size
  BY <1>3, <1>5, <1>6, <1>7, TakeGood, SMTT(20)
<1>9. size \in Nat \ {0}
  BY <1>6, Sizes
<1>10. Served(N, b, sz)
  BY <1>1, <1>2, <1>3, <1>5, <1>6, <1>8, <1>9, Zenon DEF Served
<1>11. QED
  BY <1>2, <1>10, Zenon DEF N

\* rtl_tlsf_free of a block the client holds returns it.
LEMMA FreeReturns ==
  ASSUME Limits, IInv, NEW b \in DOMAIN live, b # NULL, rtl_tlsf_free(b)
  PROVE  \E t \in ArenaSizes : /\ MakeArenaCode(0, t) = 0
                               /\ Returned(AlignDown(t - ARENA_SIZE), b)
<1>1. /\ Whole(arena, DOMAIN live) /\ arena' = Release(arena, b)
      /\ live' = Without(live, b)
  BY Zenon DEF rtl_tlsf_free, IInv
<1>2. PICK t \in ArenaSizes : /\ MakeArenaCode(0, t) = 0
                              /\ Good(arena, AlignDown(t - ARENA_SIZE))
                              /\ DOMAIN live = BusyOf(arena)
  BY <1>1, Zenon DEF Whole
<1> DEFINE N == AlignDown(t - ARENA_SIZE)
<1>3. PoolSize(N)
  <2>1. Accepted(t)
    BY <1>2, TlsfConstants, Zenon DEF Accepted, Limits
  <2>2. QED
    BY <2>1, FreshSize, Zenon
<1>4. Good(arena, N)
  BY <1>2, Zenon
<1> HIDE DEF N
<1>5. /\ Good(arena', N) /\ BusyOf(arena') = BusyOf(arena) \ {b}
      /\ \A x \in BusyOf(arena) \ {b} : arena'.blk[x].size = arena.blk[x].size
  BY <1>1, <1>2, <1>3, <1>4, ReleaseGood, SMTT(20)
<1>6. Returned(N, b)
  BY <1>1, <1>2, <1>3, <1>4, <1>5, Zenon DEF Returned
<1>7. QED
  BY <1>2, <1>6, Zenon DEF N

\* rtl_tlsf_alloc keeps the invariant.
LEMMA AllocIInv ==
  ASSUME Limits, IInv, NEW sz \in Requests, rtl_tlsf_alloc(sz)
  PROVE  IInv'
<1> DEFINE size == BlockSizeFor(sz)
           b == FoundBlock(arena, size)
<1>1. CASE b = NULL
  <2>1. arena' = arena /\ live' = live
    BY <1>1, Zenon DEF rtl_tlsf_alloc, vars
  <2>2. QED
    BY <2>1, Zenon DEF IInv, Made
<1>2. CASE b # NULL
  <2>1. PICK t \in ArenaSizes : /\ MakeArenaCode(0, t) = 0
                                /\ Served(AlignDown(t - ARENA_SIZE), b, sz)
    BY <1>2, AllocServes, Zenon
  <2> DEFINE N == AlignDown(t - ARENA_SIZE)
  <2>2. Served(N, b, sz)
    BY <2>1, Zenon
  <2> HIDE DEF N, b
  <2>3. /\ DOMAIN live' = DOMAIN live \cup {b} /\ live'[b] = sz
        /\ \A x \in DOMAIN live : x # b => live'[x] = live[x]
        /\ live' \in [DOMAIN live' -> Nat]
    BY <2>2, TlsfConstants, Zenon DEF Served, With, IInv
  <2>4. Whole(arena', DOMAIN live')
    BY <2>1, <2>2, <2>3, Zenon DEF Whole, Served, N
  <2>5. arena' # EmptyArena
    BY <2>2, GoodIsMade, Zenon DEF Served
  <2>6. Granted(arena', live')
    BY <2>2, <2>3, Zenon DEF Granted, IInv, Served
  <2>7. QED
    BY <2>3, <2>4, <2>5, <2>6, Zenon DEF IInv, Made
<1>3. QED
  BY <1>1, <1>2, Zenon

\* rtl_tlsf_free keeps the invariant.
LEMMA FreeIInv ==
  ASSUME Limits, IInv, NEW b \in DOMAIN live \cup {NULL}, rtl_tlsf_free(b)
  PROVE  IInv'
<1>1. CASE b = NULL
  <2>1. arena' = arena /\ live' = live
    BY <1>1, Zenon DEF rtl_tlsf_free, vars
  <2>2. QED
    BY <2>1, Zenon DEF IInv, Made
<1>2. CASE b # NULL
  <2>1. PICK t \in ArenaSizes : /\ MakeArenaCode(0, t) = 0
                                /\ Returned(AlignDown(t - ARENA_SIZE), b)
    BY <1>2, FreeReturns, Zenon
  <2> DEFINE N == AlignDown(t - ARENA_SIZE)
  <2>2. Returned(N, b)
    BY <2>1, Zenon
  <2> HIDE DEF N
  <2>3. /\ DOMAIN live' = DOMAIN live \ {b}
        /\ \A x \in DOMAIN live \ {b} : live'[x] = live[x]
        /\ live' \in [DOMAIN live' -> Nat]
    BY <2>2, Zenon DEF Returned, Without, IInv
  <2>4. Whole(arena', DOMAIN live')
    BY <2>1, <2>2, <2>3, Zenon DEF Whole, Returned, N
  <2>5. arena' # EmptyArena
    BY <2>2, GoodIsMade, Zenon DEF Returned
  <2>6. Granted(arena', live')
    BY <2>2, <2>3, Zenon DEF Granted, IInv, Returned
  <2>7. QED
    BY <2>3, <2>4, <2>5, <2>6, Zenon DEF IInv, Made
<1>3. QED
  BY <1>1, <1>2, Zenon

\* Every step keeps the invariant.
LEMMA StepIInv ==
  ASSUME Limits, IInv, [Next]_vars
  PROVE  IInv'
<1>1. CASE UNCHANGED vars
  BY <1>1, Zenon DEF vars, IInv, Made
<1>2. CASE Next
  BY <1>2, MakeIInv, AllocIInv, FreeIInv, Zenon DEF Next
<1>3. QED
  BY <1>1, <1>2, Zenon

\* The invariant holds in every state between two calls.
LEMMA Invariance ==
  ASSUME Limits
  PROVE  Spec => []IInv
  BY InitIInv, StepIInv, PTL DEF Spec

-----------------------------------------------------------------------------
(* What follows from the invariant. *)

\* Before rtl_tlsf_make_arena there are no blocks and nothing is held.
LEMMA EmptyFacts ==
  ASSUME IInv, ~Made
  PROVE  arena = EmptyArena /\ Blocks = {} /\ FreeBlocks = {} /\ DOMAIN live = {}
<1>1. arena = EmptyArena /\ live = <<>>
  BY Zenon DEF IInv, Made
<1>2. arena.blk = <<>>
  BY <1>1, Zenon DEF EmptyArena
<1>3. QED
  BY <1>1, <1>2 DEF Blocks, FreeBlocks

\* The invariant in terms of the definitions the properties use.
LEMMA MadeFacts ==
  ASSUME Limits, IInv, Made
  PROVE  \E N : /\ PoolSize(N) /\ Good(arena, N) /\ Shape(arena, FreeBlocks, N)
                /\ Merged(arena) /\ Blocks = DOMAIN arena.blk
                /\ FreeBlocks = FreeOf(arena) /\ DOMAIN live = BusyOf(arena)
<1>1. PICK N : PoolSize(N) /\ Good(arena, N) /\ DOMAIN live = BusyOf(arena)
  BY WholePool, Zenon DEF IInv
<1>2. FreeBlocks = FreeOf(arena) /\ Blocks = DOMAIN arena.blk
  BY Zenon DEF FreeBlocks, FreeOf, Blocks
<1>3. QED
  BY <1>1, <1>2, Zenon DEF Good

\* The invariant implies that the blocks tile the region.
LEMMA Tiles ==
  ASSUME Limits, IInv
  PROVE  BlocksTile
<1>1. CASE ~Made
  <2>1. arena = EmptyArena /\ Blocks = {} /\ DOMAIN live = {}
    BY <1>1, EmptyFacts, Zenon
  <2>2. /\ arena.fl_bitmap = {} /\ arena.sl_bitmap = [r \in Rows |-> {}]
        /\ arena.free_blocks = [c \in Classes |-> NULL] /\ arena.blk = <<>>
    BY <2>1, Zenon DEF EmptyArena
  <2>3. arena.blk \in [Blocks -> Header]
    BY <2>1, <2>2
  <2>4. TypeOK
    BY <2>1, <2>2, <2>3, Zenon DEF TypeOK, IInv
  <2>5. QED
    BY <1>1, <2>4, Zenon DEF BlocksTile
<1>2. CASE Made
  <2>1. PICK N : Shape(arena, FreeBlocks, N) /\ Blocks = DOMAIN arena.blk
                 /\ DOMAIN live = BusyOf(arena)
    BY <1>2, MadeFacts, Zenon
  <2>2. TypeOK
    BY <2>1, Zenon DEF TypeOK, IInv, Shape, Table, Headers, BusyOf
  <2>3. Chain(arena.blk, N)
    BY <2>1, Zenon DEF Shape
  <2>4. QED
    BY <2>1, <2>2, <2>3, Zenon DEF BlocksTile, Chain, NEXT_BLK
<1>3. QED
  BY <1>1, <1>2, Zenon

\* The invariant implies that no two free blocks are neighbours.
LEMMA Coalesces ==
  ASSUME Limits, IInv
  PROVE  Coalesced
<1>1. CASE ~Made
  BY <1>1, EmptyFacts, Zenon DEF Coalesced
<1>2. CASE Made
  BY <1>2, MadeFacts DEF Coalesced, Merged, NEXT_BLK
<1>3. QED
  BY <1>1, <1>2, Zenon

\* The invariant implies that the next request finds a block that fits.
LEMMA Finds ==
  ASSUME Limits, IInv
  PROVE  FoundBlockFits
<1>1. SUFFICES ASSUME Made, NEW sz \in Requests, NEW b,
                      b = FoundBlock(arena, BlockSizeFor(sz)), b # NULL
               PROVE  b \in FreeBlocks /\ arena.blk[b].size >= BlockSizeFor(sz)
  BY Zenon DEF FoundBlockFits
<1>2. PICK N : PoolSize(N) /\ Good(arena, N) /\ FreeBlocks = FreeOf(arena)
  BY <1>1, MadeFacts, Zenon
<1> DEFINE size == BlockSizeFor(sz)
<1>3. sz \in Nat /\ Roundable(size)
  BY TlsfConstants, Zenon DEF Limits
<1>4. /\ b \in FreeOf(arena) /\ size \in Nat /\ size <= arena.blk[b].size
  BY <1>1, <1>2, <1>3, FoundFits
<1>5. arena.blk[b].size \in Nat
  BY <1>2, <1>4, Zenon DEF Good, Shape, Headers, Header, FreeOf
<1>6. QED
  BY <1>2, <1>4, <1>5, Zenon

\* The invariant implies that refusals of rtl_tlsf_alloc are justified.
LEMMA Fits ==
  ASSUME Limits, IInv
  PROVE  GoodFit
<1>1. SUFFICES ASSUME Made, NEW sz \in Requests, BlockSizeFor(sz) # 0, NEW x \in FreeBlocks,
                      arena.blk[x].size * SLI_COUNT >= BlockSizeFor(sz) * (SLI_COUNT + 1)
               PROVE  FoundBlock(arena, BlockSizeFor(sz)) # NULL
  BY Zenon DEF GoodFit
<1>2. PICK N : PoolSize(N) /\ Good(arena, N) /\ FreeBlocks = FreeOf(arena)
  BY <1>1, MadeFacts, Zenon
<1>3. sz \in Nat /\ Roundable(BlockSizeFor(sz))
  BY TlsfConstants, Zenon DEF Limits
<1>4. QED
  BY <1>1, <1>2, <1>3, FoundReaches, Zenon

\* The invariant implies that user data is aligned.
LEMMA Aligns ==
  ASSUME Limits, HeaderAligned, IInv
  PROVE  UserDataAligned
<1>1. SUFFICES ASSUME NEW b \in DOMAIN live
               PROVE  (ARENA_SIZE + b + START_OF_USER_DATA_OFFSET) % ALIGNMENT_REQUIREMENT = 0
  BY Zenon DEF UserDataAligned
<1>2. Made
  BY EmptyFacts, Zenon
<1>3. PICK N : Shape(arena, FreeBlocks, N) /\ DOMAIN live = BusyOf(arena)
  BY <1>2, MadeFacts, Zenon
<1>4. b \in Nat /\ b % ALIGNMENT_REQUIREMENT = 0
  BY <1>3, Zenon DEF Shape, Headers, Chain, BusyOf
<1> DEFINE h == ARENA_SIZE + START_OF_USER_DATA_OFFSET
<1>5. h \in Nat /\ h % ALIGNMENT_REQUIREMENT = 0 /\ ALIGNMENT_REQUIREMENT \in Nat \ {0}
  BY ArenaSizeType, Sizes, ConstantTypes DEF HeaderAligned, START_OF_USER_DATA_OFFSET
<1>6. ARENA_SIZE + b + START_OF_USER_DATA_OFFSET = h + b
  BY <1>4, ArenaSizeType, Sizes DEF START_OF_USER_DATA_OFFSET
<1> HIDE DEF h
<1>7. QED
  BY <1>4, <1>5, <1>6, MultipleSum

\* A good arena of which nothing is in use is one block.
LEMMA LoneBlock ==
  ASSUME NEW a, NEW N, PoolSize(N), Good(a, N), BusyOf(a) = {}
  PROVE  /\ Table(a) /\ Headers(a.blk) /\ DOMAIN a.blk = {0} /\ FreeOf(a) = {0}
         /\ a.blk[0].size = N /\ a.blk[0].free /\ a.blk[0].last
         /\ a.blk[0].prev_physical_block = NULL /\ Lists(a, {0})
<1>1. /\ Table(a) /\ Headers(a.blk) /\ Chain(a.blk, N) /\ Lists(a, FreeOf(a))
      /\ Merged(a) /\ FreeOf(a) = DOMAIN a.blk
  BY Zenon DEF Good, Shape, FreeOf, BusyOf
<1>2. 0 \in DOMAIN a.blk /\ a.blk[0].prev_physical_block = NULL
  BY <1>1, Zenon DEF Chain
<1>3. a.blk[0].last
  BY <1>1, <1>2, Zenon DEF Chain, Merged
<1>4. DOMAIN a.blk = {0}
  <2>1. ASSUME NEW x \in DOMAIN a.blk, x # 0 PROVE FALSE
    <3>1. x \in Nat
      BY <1>1, HeaderTypes, Zenon
    <3>2. 0 < x
      BY <2>1, <3>1
    <3>3. QED
      BY <1>1, <1>2, <1>3, <3>2, Zenon DEF Chain
  <2>2. QED
    BY <1>2, <2>1, Zenon
<1>5. a.blk[0].size = N
  <2>1. 0 + a.blk[0].size = N /\ a.blk[0].size \in Nat
    BY <1>1, <1>2, <1>3, HeaderTypes, Zenon DEF Chain
  <2>2. QED
    BY <2>1
<1>6. a.blk[0].free
  BY <1>1, <1>2, Zenon DEF FreeOf
<1>7. QED
  BY <1>1, <1>2, <1>3, <1>4, <1>5, <1>6, Zenon

\* Its lists and bitmaps hold that block and nothing else.
LEMMA LoneTable ==
  ASSUME NEW a, NEW N, PoolSize(N), Good(a, N), BusyOf(a) = {},
         NEW c, c = mapping_insert(N)
  PROVE  /\ c \in Classes
         /\ a.blk[0].next_free = NULL /\ a.blk[0].prev_free = NULL
         /\ \A d \in Classes : a.free_blocks[d] = IF d = c THEN 0 ELSE NULL
         /\ \A r \in Rows : \A k : k \in a.sl_bitmap[r] <=> r = c[1] /\ k = c[2]
         /\ \A r \in Rows : r \in a.fl_bitmap <=> r = c[1]
<1>1. /\ Table(a) /\ Lists(a, {0}) /\ Class(a, 0) = c
  BY LoneBlock, Zenon DEF Class
<1>2. c \in Classes
  BY InsertInTable, Zenon DEF PoolSize
<1>3. \A d \in Classes : a.free_blocks[d] = IF d = c THEN 0 ELSE NULL
  <2>1. SUFFICES ASSUME NEW d \in Classes
                 PROVE  a.free_blocks[d] = IF d = c THEN 0 ELSE NULL
    BY Zenon
  <2>2a. PICK n \in Nat : \E L : List(a, {0}, d, n, L)
    BY <1>1, Zenon DEF Lists
  <2>2. PICK L : List(a, {0}, d, n, L)
    BY <2>2a, Zenon
  <2>3. CASE d = c
    BY <1>1, <2>2, <2>3, SMTT(20) DEF List
  <2>4. CASE d # c
    BY <1>1, <2>2, <2>4 DEF List
  <2>5. QED
    BY <2>3, <2>4, Zenon
<1>4. a.blk[0].next_free = NULL /\ a.blk[0].prev_free = NULL
  <2>0. PICK n \in Nat : \E L : List(a, {0}, c, n, L)
    BY <1>1, <1>2, Zenon DEF Lists
  <2>1. PICK L : List(a, {0}, c, n, L)
    BY <2>0, Zenon
  <2>2. \A i \in 0 .. (n - 1) : i = 0
    <3>1. SUFFICES ASSUME NEW i \in 0 .. (n - 1) PROVE i = 0
      BY Zenon
    <3>2. 0 \in 0 .. (n - 1)
      OBVIOUS
    <3>3. L[i] = L[0]
      BY <2>1, <3>2, Zenon DEF List
    <3>4. QED
      BY <2>1, <3>2, <3>3, Zenon DEF List
  <2>3. PICK i \in 0 .. (n - 1) : L[i] = 0
    BY <1>1, <2>1, Zenon DEF List
  <2>4. i = 0 /\ i = n - 1
    <3>1. n - 1 \in 0 .. (n - 1)
      OBVIOUS
    <3>2. QED
      BY <2>2, <3>1, Zenon
  <2>5. QED
    BY <2>1, <2>3, <2>4, Zenon DEF List
<1>5. NULL # 0
  BY TlsfConstants
<1>6. /\ c[1] \in Rows /\ c[2] \in Columns /\ c = <<c[1], c[2]>>
      /\ \A r \in Rows, k \in Columns : <<r, k>> \in Classes
  BY <1>2 DEF Classes
<1>7. ASSUME NEW r \in Rows, NEW k PROVE k \in a.sl_bitmap[r] <=> r = c[1] /\ k = c[2]
  <2>1. a.sl_bitmap[r] \subseteq Columns
    BY <1>1, Zenon DEF Table
  <2>2. k \in Columns => (k \in a.sl_bitmap[r] <=> a.free_blocks[<<r, k>>] # NULL)
    BY <1>1, <1>6, Zenon DEF Lists
  <2>3. k \in Columns => (a.free_blocks[<<r, k>>] # NULL <=> <<r, k>> = c)
    BY <1>3, <1>5, <1>6, Zenon
  <2>4. <<r, k>> = c <=> r = c[1] /\ k = c[2]
    BY <1>6
  <2>5. QED
    BY <1>6, <2>1, <2>2, <2>3, <2>4, Zenon
<1>8. \A r \in Rows : r \in a.fl_bitmap <=> r = c[1]
  BY <1>1, <1>7, Zenon DEF Lists
<1>9. QED
  BY <1>2, <1>3, <1>4, <1>7, <1>8, Zenon

\* There is only one such arena for a pool.
LEMMA LoneUnique ==
  ASSUME NEW N, PoolSize(N),
         NEW a, Good(a, N), BusyOf(a) = {}, NEW e, Good(e, N), BusyOf(e) = {}
  PROVE  a = e
<1> DEFINE c == mapping_insert(N)
<1>1. /\ Table(a) /\ Headers(a.blk) /\ DOMAIN a.blk = {0}
      /\ a.blk[0].size = N /\ a.blk[0].free /\ a.blk[0].last
      /\ a.blk[0].prev_physical_block = NULL
  BY LoneBlock, Zenon
<1>2. /\ Table(e) /\ Headers(e.blk) /\ DOMAIN e.blk = {0}
      /\ e.blk[0].size = N /\ e.blk[0].free /\ e.blk[0].last
      /\ e.blk[0].prev_physical_block = NULL
  BY LoneBlock, Zenon
<1>3. /\ a.blk[0].next_free = NULL /\ a.blk[0].prev_free = NULL
      /\ \A d \in Classes : a.free_blocks[d] = IF d = c THEN 0 ELSE NULL
      /\ \A r \in Rows : \A k : k \in a.sl_bitmap[r] <=> r = c[1] /\ k = c[2]
      /\ \A r \in Rows : r \in a.fl_bitmap <=> r = c[1]
  BY LoneTable
<1>4. /\ e.blk[0].next_free = NULL /\ e.blk[0].prev_free = NULL
      /\ \A d \in Classes : e.free_blocks[d] = IF d = c THEN 0 ELSE NULL
      /\ \A r \in Rows : \A k : k \in e.sl_bitmap[r] <=> r = c[1] /\ k = c[2]
      /\ \A r \in Rows : r \in e.fl_bitmap <=> r = c[1]
  BY LoneTable
<1> HIDE DEF c
<1>5. a.fl_bitmap = e.fl_bitmap
  BY <1>1, <1>2, <1>3, <1>4, Zenon DEF Table
<1>6. a.sl_bitmap = e.sl_bitmap
  <2>1. ASSUME NEW r \in Rows PROVE a.sl_bitmap[r] = e.sl_bitmap[r]
    <3>1. \A k : k \in a.sl_bitmap[r] <=> k \in e.sl_bitmap[r]
      BY <1>3, <1>4, Zenon
    <3>2. QED
      BY <3>1, Zenon
  <2>2. QED
    BY <1>1, <1>2, <2>1, SMTT(20) DEF Table
<1>7. a.free_blocks = e.free_blocks
  BY <1>1, <1>2, <1>3, <1>4, SMTT(20) DEF Table
<1>8. a.blk[0] = e.blk[0]
  <2>1. a.blk[0] \in Header /\ e.blk[0] \in Header
    BY <1>1, <1>2, Zenon DEF Headers
  <2>2. a.blk[0].free = TRUE /\ a.blk[0].last = TRUE /\ e.blk[0].free = TRUE /\ e.blk[0].last = TRUE
    BY <1>1, <1>2, <2>1, Zenon DEF Header
  <2>3. QED
    BY <1>1, <1>2, <1>3, <1>4, <2>1, <2>2, SMTT(20) DEF Header
<1>9. a.blk = e.blk
  BY <1>1, <1>2, <1>8 DEF Headers
<1>10. QED
  BY <1>1, <1>2, <1>5, <1>6, <1>7, <1>9, Zenon DEF Table

\* The invariant implies that an arena of which nothing is held is as
\* rtl_tlsf_make_arena built it.
LEMMA Fresh ==
  ASSUME Limits, IInv
  PROVE  EmptyArenaIsFresh
<1>1. SUFFICES ASSUME Made, live = <<>>
               PROVE  \E sz \in ArenaSizes :
                        MakeArenaCode(0, sz) = 0 /\ arena = FreshArena(sz)
  BY Zenon DEF EmptyArenaIsFresh
<1>2. PICK sz \in ArenaSizes : /\ MakeArenaCode(0, sz) = 0
                               /\ Good(arena, AlignDown(sz - ARENA_SIZE))
                               /\ DOMAIN live = BusyOf(arena)
  BY <1>1, Zenon DEF IInv, Whole
<1> DEFINE N == AlignDown(sz - ARENA_SIZE)
<1>3. Accepted(sz)
  BY <1>2, TlsfConstants, Zenon DEF Accepted, Limits
<1>4. PoolSize(N)
  BY <1>3, FreshSize, Zenon
<1>5. Good(FreshArena(sz), N) /\ BusyOf(FreshArena(sz)) = {}
  BY <1>3, FreshGood, Zenon
<1>6. BusyOf(arena) = {}
  BY <1>1, <1>2
<1>7. arena = FreshArena(sz)
  BY <1>2, <1>4, <1>5, <1>6, LoneUnique, Zenon
<1>8. QED
  BY <1>2, <1>7, Zenon

Members(L, n) == {L[i] : i \in 0 .. (n - 1)}

\* w visits the n entries of L and ends.
Follows(w, L, n) == \A i \in 0 .. n : w[i] = IF i = n THEN NULL ELSE L[i]

\* A list of length n has n members, the free blocks of its class.
LEMMA ListCounts ==
  ASSUME NEW a, NEW S, NEW c, NEW n \in Nat, NEW L, List(a, S, c, n, L),
         NEW mine, mine = {b \in S : Class(a, b) = c}
  PROVE  mine = Members(L, n) /\ Cardinality(mine) = n
<1> DEFINE f == [k \in 1 .. n |-> L[k - 1]]
<1>1. /\ \A i \in 0 .. (n - 1) : L[i] \in mine
      /\ \A b \in mine : \E i \in 0 .. (n - 1) : L[i] = b
      /\ \A i, j \in 0 .. (n - 1) : L[i] = L[j] => i = j
  BY Zenon DEF List
<1>2. \A k \in 1 .. n : k - 1 \in 0 .. (n - 1) /\ f[k] = L[k - 1]
  OBVIOUS
<1>3. \A i \in 0 .. (n - 1) : i + 1 \in 1 .. n /\ f[i + 1] = L[i]
  OBVIOUS
<1>4. f \in [1 .. n -> mine]
  BY <1>1, <1>2, Zenon
<1> HIDE DEF f
<1>5. \A k, m \in 1 .. n : f[k] = f[m] => k = m
  <2>1. SUFFICES ASSUME NEW k \in 1 .. n, NEW m \in 1 .. n, f[k] = f[m] PROVE k = m
    BY Zenon
  <2>2. k - 1 = m - 1
    BY <1>1, <1>2, <2>1
  <2>3. QED
    BY <2>2
<1>6. \A b \in mine : \E k \in 1 .. n : f[k] = b
  BY <1>1, <1>3, Zenon
<1>7. f \in Bijection(1 .. n, mine)
  BY <1>4, <1>5, <1>6, Zenon DEF Bijection, Injection, Surjection, IsInjective
<1>8. Cardinality(mine) = n
  BY <1>7, FS_CountingElements, Zenon DEF ExistsBijection
<1>9. mine = Members(L, n)
  BY <1>1 DEF Members
<1>10. QED
  BY <1>8, <1>9, Zenon

\* Following next_free from the head visits the list in order.
LEMMA WalkFollows ==
  ASSUME NEW S, NEW c, NEW n \in Nat, NEW L, List(arena, S, c, n, L), S \subseteq Nat,
         Cardinality(Blocks) \in Nat, n <= Cardinality(Blocks)
  PROVE  Follows(Walk(c), L, n)
<1> DEFINE K == Cardinality(Blocks)
           head == arena.free_blocks[c]
           v == [i \in 0 .. K |-> IF i < n THEN L[i] ELSE NULL]
           w == Walk(c)
<1>1. /\ \A i \in 0 .. (n - 1) : L[i] \in S /\ L[i] # NULL
      /\ head = IF n = 0 THEN NULL ELSE L[0]
      /\ \A i \in 0 .. (n - 1) :
           arena.blk[L[i]].next_free = IF i = n - 1 THEN NULL ELSE L[i + 1]
  BY TlsfConstants, Zenon DEF List
<1>2. v = [i \in 0 .. K |-> IF i = 0 THEN head
                            ELSE IF v[i - 1] = NULL THEN NULL
                            ELSE arena.blk[v[i - 1]].next_free]
  <2>1. ASSUME NEW i \in 0 .. K
        PROVE  v[i] = IF i = 0 THEN head
                      ELSE IF v[i - 1] = NULL THEN NULL
                      ELSE arena.blk[v[i - 1]].next_free
    <3>1. v[i] = IF i < n THEN L[i] ELSE NULL
      BY Zenon
    <3>2. i # 0 => v[i - 1] = IF i - 1 < n THEN L[i - 1] ELSE NULL
      OBVIOUS
    <3>3. i # 0 /\ i - 1 < n => i - 1 \in 0 .. (n - 1) /\ (i - 1) + 1 = i
      OBVIOUS
    <3> HIDE DEF v, head
    <3>4. CASE i = 0
      BY <1>1, <3>1, <3>4, SMTT(20)
    <3>5. CASE i # 0 /\ i - 1 < n
      <4>1. /\ v[i - 1] = L[i - 1] /\ L[i - 1] # NULL
            /\ arena.blk[L[i - 1]].next_free = IF i - 1 = n - 1 THEN NULL ELSE L[(i - 1) + 1]
        BY <1>1, <3>2, <3>3, <3>5, Zenon
      <4>2. QED
        BY <3>1, <3>3, <3>5, <4>1, SMTT(20)
    <3>6. CASE i # 0 /\ ~(i - 1 < n)
      BY <3>1, <3>2, <3>6
    <3>7. QED
      BY <3>4, <3>5, <3>6, Zenon
  <2>2. v = [i \in 0 .. K |-> v[i]]
    BY Zenon
  <2> HIDE DEF v
  <2>3. QED
    BY <2>1, <2>2, Zenon
<1>3. w = [i \in 0 .. K |-> IF i = 0 THEN head
                            ELSE IF w[i - 1] = NULL THEN NULL
                            ELSE arena.blk[w[i - 1]].next_free]
  <2> HIDE DEF v
  <2>1. w = CHOOSE u : u = [i \in 0 .. K |-> IF i = 0 THEN head
                            ELSE IF u[i - 1] = NULL THEN NULL
                            ELSE arena.blk[u[i - 1]].next_free]
    BY Zenon DEF Walk
  <2> HIDE DEF w, K, head
  <2>2. QED
    BY <1>2, <2>1, Zenon
<1>4. \A i \in 0 .. K : v[i] = IF i < n THEN L[i] ELSE NULL
  BY Zenon
<1> HIDE DEF v, w, head
<1>5. \A i \in 0 .. K : w[i] = v[i]
  <2> DEFINE T == {i \in 0 .. K : w[i] # v[i]}
  <2>1. SUFFICES ASSUME T # {} PROVE FALSE
    BY Zenon
  <2>2. T \subseteq Nat
    OBVIOUS
  <2>3. PICK x \in T : \A y \in T : x <= y
    BY <2>1, <2>2, LeastElement, Zenon
  <2>4. x \in 0 .. K /\ w[x] # v[x]
    BY <2>3, Zenon
  <2>5. /\ w[x] = IF x = 0 THEN head ELSE IF w[x - 1] = NULL THEN NULL
                  ELSE arena.blk[w[x - 1]].next_free
        /\ v[x] = IF x = 0 THEN head ELSE IF v[x - 1] = NULL THEN NULL
                  ELSE arena.blk[v[x - 1]].next_free
    BY <1>2, <1>3, <2>4, Zenon
  <2>6. x # 0
    BY <2>4, <2>5, Zenon
  <2>7. x - 1 \in 0 .. K /\ x - 1 \notin T
    BY <2>2, <2>3, <2>4, <2>6, SMTT(20)
  <2>8. w[x - 1] = v[x - 1]
    BY <2>7, Zenon
  <2>9. QED
    BY <2>4, <2>5, <2>6, <2>8, Zenon
<1>6. QED
  BY <1>4, <1>5 DEF w, Follows

\* The invariant implies that lists and bitmaps are exact.
LEMMA ListsExact ==
  ASSUME Limits, IInv
  PROVE  FreeListsExact
<1>1. SUFFICES ASSUME Made
               PROVE  FreeListsExact
  BY Zenon DEF FreeListsExact
<1>2. PICK N : /\ PoolSize(N) /\ Shape(arena, FreeBlocks, N)
               /\ Blocks = DOMAIN arena.blk /\ FreeBlocks = FreeOf(arena)
  BY <1>1, MadeFacts, Zenon
<1>3. FreeBlocks \subseteq Blocks /\ Blocks \subseteq Nat
  BY <1>2, Zenon DEF FreeOf, Shape, Headers
<1>4. IsFiniteSet(Blocks) /\ Cardinality(Blocks) \in Nat
  <2>1. \A b \in Blocks : b <= N
    BY <1>2, <1>3 DEF Shape, Headers, Header, Chain, PoolSize
  <2>2. N \in Nat
    BY <1>2, Zenon DEF PoolSize
  <2>3. IsFiniteSet(Blocks)
    BY <1>3, <2>1, <2>2, FS_BoundedSetOfNaturals, Zenon
  <2>4. QED
    BY <2>3, FS_CardinalityType, Zenon
<1>5. /\ \A c \in Classes : \E n \in Nat : \E L : List(arena, FreeBlocks, c, n, L)
      /\ \A c \in Classes : c[2] \in arena.sl_bitmap[c[1]] <=> arena.free_blocks[c] # NULL
      /\ \A r \in Rows : r \in arena.fl_bitmap <=> arena.sl_bitmap[r] # {}
  BY <1>2, Zenon DEF Shape, Lists
<1>6. ASSUME NEW c \in Classes,
             NEW mine, mine = {b \in FreeBlocks : mapping_insert(arena.blk[b].size) = c},
             NEW n, n = Cardinality(mine)
      PROVE  /\ {Walk(c)[i] : i \in 0 .. (n - 1)} = mine
             /\ Walk(c)[n] = NULL
             /\ n > 0 => arena.blk[Walk(c)[0]].prev_free = NULL
             /\ \A i \in 1 .. (n - 1) : arena.blk[Walk(c)[i]].prev_free = Walk(c)[i - 1]
             /\ c[2] \in arena.sl_bitmap[c[1]] <=> n > 0
  <2>0. PICK m \in Nat : \E L : List(arena, FreeBlocks, c, m, L)
    BY <1>5, Zenon
  <2>1. PICK L : List(arena, FreeBlocks, c, m, L)
    BY <2>0, Zenon
  <2>2. mine = {b \in FreeBlocks : Class(arena, b) = c}
    BY <1>6, Zenon DEF Class
  <2>3. mine = Members(L, m) /\ n = m /\ List(arena, FreeBlocks, c, n, L) /\ n \in Nat
    <3>1. mine = Members(L, m) /\ Cardinality(mine) = m
      BY <2>1, <2>2, ListCounts, Zenon
    <3>2. QED
      BY <1>6, <2>1, <3>1, Zenon
  <2>4. n <= Cardinality(Blocks)
    <3>1. mine \in SUBSET Blocks
      BY <1>3, <2>2, Zenon
    <3>2. QED
      BY <1>4, <1>6, <3>1, FS_Subset, Zenon
  <2>5. Follows(Walk(c), L, n)
    <3>1. FreeBlocks \subseteq Nat
      BY <1>3, Zenon
    <3>2. QED
      BY <1>4, <2>3, <2>4, <3>1, WalkFollows, Zenon
  <2> DEFINE w == Walk(c)
  <2> HIDE DEF w
  <2>6. n \in Nat /\ w[n] = NULL /\ \A i \in 0 .. (n - 1) : w[i] = L[i]
    BY <2>3, <2>5 DEF w, Follows
  <2>7. {w[i] : i \in 0 .. (n - 1)} = mine
    BY <2>3, <2>6, Zenon DEF Members
  <2>8. \A i \in 0 .. (n - 1) : arena.blk[L[i]].prev_free = IF i = 0 THEN NULL ELSE L[i - 1]
    BY <2>1, <2>3, Zenon DEF List
  <2>9. n > 0 => arena.blk[w[0]].prev_free = NULL
    BY <2>6, <2>8
  <2>10. ASSUME NEW i \in 1 .. (n - 1) PROVE arena.blk[w[i]].prev_free = w[i - 1]
    <3>1. i \in 0 .. (n - 1) /\ i - 1 \in 0 .. (n - 1) /\ i # 0
      BY <2>6
    <3>2. QED
      BY <2>6, <2>8, <3>1, Zenon
  <2>11. c[2] \in arena.sl_bitmap[c[1]] <=> n > 0
    <3>1. arena.free_blocks[c] = IF n = 0 THEN NULL ELSE L[0]
      BY <2>1, <2>3, Zenon DEF List
    <3>2. n # 0 => L[0] \in Nat
      <4>1. n # 0 => 0 \in 0 .. (n - 1)
        BY <2>6
      <4>2. QED
        BY <1>3, <2>1, <2>3, <4>1, Zenon DEF List
    <3>3. QED
      BY <1>5, <2>6, <3>1, <3>2, TlsfConstants, SMTT(20)
  <2>12. QED
    BY <2>6, <2>7, <2>9, <2>10, <2>11, Zenon DEF w
<1>7. QED
  BY <1>5, <1>6, Zenon DEF FreeListsExact

-----------------------------------------------------------------------------
(* The allocator implements Heap. *)

\* A block size that did not wrap has room for header and request.
LEMMA PaddedEnough ==
  ASSUME NEW sz \in Nat, BlockSizeFor(sz) # 0,
         sz + START_OF_USER_DATA_OFFSET + ALIGNMENT_REQUIREMENT - 1 < UWORD_MOD
  PROVE  BlockSizeFor(sz) \in Nat /\ BlockSizeFor(sz) >= sz + START_OF_USER_DATA_OFFSET
<1> DEFINE x == sz + START_OF_USER_DATA_OFFSET
           y == x + ALIGNMENT_REQUIREMENT - 1
           rval == AlignDown(y)
<1>1. /\ START_OF_USER_DATA_OFFSET \in Nat /\ ALIGNMENT_REQUIREMENT \in Nat \ {0}
      /\ UWORD_MOD \in Nat /\ MINIMUM_BLOCK_SIZE \in Nat
  BY Sizes, ConstantTypes DEF START_OF_USER_DATA_OFFSET
<1>2. x \in Nat /\ y \in Nat /\ x < UWORD_MOD /\ y < UWORD_MOD
  BY <1>1
<1>3. x % UWORD_MOD = x /\ y % UWORD_MOD = y
  BY <1>1, <1>2
<1>4. BlockSizeFor(sz) = adjust_size(x)
  BY <1>3, Zenon DEF BlockSizeFor
<1>5. rval \in Nat /\ y < rval + ALIGNMENT_REQUIREMENT
  BY <1>2, AlignedDown, Zenon
<1>6. rval >= x
  BY <1>1, <1>2, <1>5
<1>7. adjust_size(x) = CASE x = 0 -> 0
                         [] x # 0 /\ rval > MAXIMUM_BLOCK_SIZE -> 0
                         [] x # 0 /\ rval < MINIMUM_BLOCK_SIZE -> MINIMUM_BLOCK_SIZE
                         [] OTHER -> rval
  BY <1>3, Zenon DEF adjust_size
<1> HIDE DEF x, y, rval
<1>8. (adjust_size(x) = MINIMUM_BLOCK_SIZE /\ rval < MINIMUM_BLOCK_SIZE) \/ adjust_size(x) = rval
  BY <1>4, <1>7, Zenon
<1>9. adjust_size(x) \in Nat /\ adjust_size(x) >= x
  BY <1>1, <1>2, <1>5, <1>6, <1>8, SMTT(20)
<1>10. QED
  BY <1>4, <1>9, Zenon DEF x

\* The last block ends where the pool does, so the end never moves.
LEMMA EndOfChain ==
  ASSUME NEW a, NEW N, Good(a, N)
  PROVE  PoolEnd(a) = N
<1>1. \E b \in DOMAIN a.blk : a.blk[b].last
  BY Zenon DEF Good, Shape, Chain
<1> DEFINE b == CHOOSE x \in DOMAIN a.blk : a.blk[x].last
<1>2. b \in DOMAIN a.blk /\ a.blk[b].last
  BY <1>1, Zenon
<1>3. PoolEnd(a) = b + a.blk[b].size
  BY Zenon DEF PoolEnd
<1> HIDE DEF b
<1>4. QED
  BY <1>2, <1>3, Zenon DEF Good, Shape, Chain

\* UserRegions of any arena and table, and UserRequests of any table.
Regions(a, held) ==
  [p \in {b + START_OF_USER_DATA_OFFSET : b \in held} |->
     a.blk[p - START_OF_USER_DATA_OFFSET].size - START_OF_USER_DATA_OFFSET]

PointersOf(l) == {b + START_OF_USER_DATA_OFFSET : b \in DOMAIN l}

RequestsOf(l) == [p \in PointersOf(l) |-> l[p - START_OF_USER_DATA_OFFSET]]

\* The user region of a held block starts behind size and
\* prev_physical_block and ends with the block.
LEMMA RegionAt ==
  ASSUME NEW a, NEW held, held \subseteq Nat, NEW R, R = Regions(a, held)
  PROVE  /\ R = [p \in DOMAIN R |-> R[p]]
         /\ \A p : p \in DOMAIN R <=>
              \E b \in held : p = b + START_OF_USER_DATA_OFFSET
         /\ \A b \in held : /\ b + START_OF_USER_DATA_OFFSET \in DOMAIN R
                            /\ R[b + START_OF_USER_DATA_OFFSET] =
                                 a.blk[b].size - START_OF_USER_DATA_OFFSET
<1>1. START_OF_USER_DATA_OFFSET \in Nat
  BY Sizes DEF START_OF_USER_DATA_OFFSET
<1>2. \A b \in held : (b + START_OF_USER_DATA_OFFSET) - START_OF_USER_DATA_OFFSET = b
  BY <1>1
<1>3. QED
  BY <1>2, Zenon DEF Regions

\* The initial state is one of Heap.
LEMMA InitHeap ==
  ASSUME Init
  PROVE  AbstractHeap!Init
<1>1. ~Made /\ DOMAIN live = {}
  BY DEF Init, Made
<1>2. UserRegions = <<>> /\ UserRequests = <<>>
  BY <1>1 DEF UserRegions, UserRequests, UserPointers
<1>3. QED
  BY <1>1, <1>2, Zenon DEF AbstractHeap!Init

\* Q is R and a region at p of n bytes more, apart from the others and
\* within the first N bytes.
Allotted(R, Q, p, n, N) ==
  /\ p \in DOMAIN Q \ DOMAIN R
  /\ Q = [q \in DOMAIN R \cup {p} |-> IF q = p THEN Q[p] ELSE R[q]]
  /\ Q[p] = n
  /\ p - START_OF_USER_DATA_OFFSET >= 0 /\ p + Q[p] <= N
  /\ \A q \in DOMAIN R :
       AbstractHeap!Disjoint(p - START_OF_USER_DATA_OFFSET, Q[p] + START_OF_USER_DATA_OFFSET,
                             q - START_OF_USER_DATA_OFFSET, R[q] + START_OF_USER_DATA_OFFSET)

\* Q is R without the region at p.
Dropped(R, Q, p) == p \in DOMAIN R /\ Q = [q \in DOMAIN R \ {p} |-> R[q]]

\* One more block in use is one more region, apart from all others and within
\* the pool.
LEMMA AllocRegions ==
  ASSUME NEW a, NEW e, NEW N, PoolSize(N), Good(a, N), Good(e, N), NEW b \in FreeOf(a),
         BusyOf(e) = BusyOf(a) \cup {b},
         \A x \in BusyOf(a) : e.blk[x].size = a.blk[x].size,
         NEW R, R = Regions(a, BusyOf(a)), NEW Q, Q = Regions(e, BusyOf(e)),
         NEW p, p = b + START_OF_USER_DATA_OFFSET
  PROVE  Allotted(R, Q, p, e.blk[b].size - START_OF_USER_DATA_OFFSET, N)
<1> DEFINE S == START_OF_USER_DATA_OFFSET
           H == BusyOf(a)
<1>1. S \in Nat
  BY Sizes DEF START_OF_USER_DATA_OFFSET
<1>2. /\ Headers(a.blk) /\ Headers(e.blk) /\ Chain(e.blk, N)
  BY Zenon DEF Good, Shape
<1>3. /\ H \subseteq Nat /\ BusyOf(e) \subseteq Nat /\ b \in Nat /\ b \notin H
      /\ BusyOf(e) = H \cup {b} /\ BusyOf(e) \subseteq DOMAIN e.blk
  BY <1>2, Zenon DEF Headers, BusyOf, FreeOf
<1> HIDE DEF S, H
<1>4. /\ \A q : q \in DOMAIN R <=> \E x \in H : q = x + S
      /\ \A x \in H : x + S \in DOMAIN R /\ R[x + S] = a.blk[x].size - S
  BY <1>3, RegionAt DEF S, H
<1>5. /\ Q = [q \in DOMAIN Q |-> Q[q]]
      /\ \A q : q \in DOMAIN Q <=> \E x \in BusyOf(e) : q = x + S
      /\ \A x \in BusyOf(e) : x + S \in DOMAIN Q /\ Q[x + S] = e.blk[x].size - S
  <2>1. BusyOf(e) \subseteq Nat
    BY <1>3, Zenon
  <2>2. QED
    BY <2>1, RegionAt DEF S
<1>6. p = b + S
  BY Zenon DEF S
<1>7. p \in DOMAIN Q /\ p \notin DOMAIN R
  <2>1. \A x \in H : x + S # b + S
    BY <1>1, <1>3
  <2>2. QED
    BY <1>3, <1>4, <1>5, <1>6, <2>1, Zenon
<1>8. DOMAIN Q = DOMAIN R \cup {p}
  <2>1. ASSUME NEW q \in DOMAIN Q PROVE q \in DOMAIN R \cup {p}
    <3>1. PICK x \in BusyOf(e) : q = x + S
      BY <1>5, Zenon
    <3>2. CASE x = b
      BY <1>6, <3>1, <3>2, Zenon
    <3>3. CASE x \in H
      BY <1>4, <3>1, <3>3, Zenon
    <3>4. QED
      BY <1>3, <3>2, <3>3, Zenon
  <2>2. ASSUME NEW q \in DOMAIN R PROVE q \in DOMAIN Q
    <3>1. PICK x \in H : q = x + S
      BY <1>4, Zenon
    <3>2. x \in BusyOf(e)
      BY <1>3, Zenon
    <3>3. QED
      BY <1>5, <3>1, <3>2, Zenon
  <2>3. QED
    BY <1>7, <2>1, <2>2, Zenon
<1>9. \A q \in DOMAIN R : Q[q] = R[q]
  <2>1. SUFFICES ASSUME NEW x \in H PROVE Q[x + S] = R[x + S]
    BY <1>4
  <2>2. e.blk[x].size = a.blk[x].size
    BY Zenon DEF H
  <2>3. QED
    BY <1>3, <1>4, <1>5, <2>2, Zenon
<1>10. Q = [q \in DOMAIN R \cup {p} |-> IF q = p THEN Q[p] ELSE R[q]]
  BY <1>5, <1>7, <1>8, <1>9, Zenon
<1>11. Q[p] = e.blk[b].size - S
  BY <1>3, <1>5, <1>6, Zenon
<1>12. \A x \in BusyOf(e) : e.blk[x].size \in Nat /\ x + e.blk[x].size <= N
  BY <1>2, <1>3, Zenon DEF Headers, Header, Chain
<1>13. N \in Nat
  BY Zenon DEF PoolSize
<1>14. p - S = b /\ p - S >= 0 /\ p + Q[p] <= N /\ Q[p] + S = e.blk[b].size
  BY <1>1, <1>3, <1>6, <1>11, <1>12, <1>13, SMTT(20)
<1>15. ASSUME NEW q \in DOMAIN R
       PROVE  AbstractHeap!Disjoint(p - S, Q[p] + S, q - S, R[q] + S)
  <2>1. PICK x \in H : q = x + S
    BY <1>4, Zenon
  <2>2. R[q] = a.blk[x].size - S /\ e.blk[x].size = a.blk[x].size /\ x \in BusyOf(e)
    BY <1>3, <1>4, <2>1, Zenon DEF H
  <2>3. q - S = x /\ R[q] + S = e.blk[x].size
    BY <1>1, <1>3, <1>12, <2>1, <2>2, SMTT(20)
  <2>4. x # b /\ x \in Nat /\ x \in DOMAIN e.blk /\ b \in DOMAIN e.blk
    BY <1>3, <2>2, Zenon
  <2>5. b + e.blk[b].size <= x \/ x + e.blk[x].size <= b
    <3>1. b < x \/ x < b
      BY <1>3, <2>4
    <3>2. \A y, z \in DOMAIN e.blk : y < z => y + e.blk[y].size <= z
      BY <1>2, Zenon DEF Chain
    <3>3. QED
      BY <2>4, <3>1, <3>2, Zenon
  <2>6. QED
    BY <1>14, <2>3, <2>5, Zenon DEF AbstractHeap!Disjoint
<1>16. QED
  BY <1>7, <1>10, <1>11, <1>14, <1>15, Zenon DEF S, Allotted

\* One block in use less is one region less.
LEMMA FreeRegions ==
  ASSUME NEW a, NEW e, NEW N, Good(a, N), Good(e, N), NEW b \in BusyOf(a),
         BusyOf(e) = BusyOf(a) \ {b},
         \A x \in BusyOf(a) \ {b} : e.blk[x].size = a.blk[x].size,
         NEW R, R = Regions(a, BusyOf(a)), NEW Q, Q = Regions(e, BusyOf(e)),
         NEW p, p = b + START_OF_USER_DATA_OFFSET
  PROVE  Dropped(R, Q, p)
<1> DEFINE S == START_OF_USER_DATA_OFFSET
           H == BusyOf(a)
<1>1. S \in Nat
  BY Sizes DEF START_OF_USER_DATA_OFFSET
<1>2. Headers(a.blk) /\ Headers(e.blk)
  BY Zenon DEF Good, Shape
<1>3. H \subseteq Nat /\ BusyOf(e) \subseteq Nat /\ b \in H /\ BusyOf(e) = H \ {b}
  BY <1>2, Zenon DEF Headers, BusyOf
<1> HIDE DEF S, H
<1>4. /\ \A q : q \in DOMAIN R <=> \E x \in H : q = x + S
      /\ \A x \in H : x + S \in DOMAIN R /\ R[x + S] = a.blk[x].size - S
  BY <1>3, RegionAt DEF S, H
<1>5. /\ Q = [q \in DOMAIN Q |-> Q[q]]
      /\ \A q : q \in DOMAIN Q <=> \E x \in BusyOf(e) : q = x + S
      /\ \A x \in BusyOf(e) : x + S \in DOMAIN Q /\ Q[x + S] = e.blk[x].size - S
  BY <1>3, RegionAt DEF S
<1>6. p = b + S
  BY Zenon DEF S
<1>7. \A x \in H : x + S = p => x = b
  BY <1>1, <1>3, <1>6
<1>8. DOMAIN Q = DOMAIN R \ {p}
  <2>1. ASSUME NEW q \in DOMAIN Q PROVE q \in DOMAIN R /\ q # p
    <3>1. PICK x \in BusyOf(e) : q = x + S
      BY <1>5, Zenon
    <3>2. x \in H /\ x # b
      BY <1>3, Zenon
    <3>3. QED
      BY <1>4, <1>7, <3>1, <3>2, Zenon
  <2>2. ASSUME NEW q \in DOMAIN R, q # p PROVE q \in DOMAIN Q
    <3>1. PICK x \in H : q = x + S
      BY <1>4, Zenon
    <3>2. x # b
      BY <1>6, <2>2, <3>1, Zenon
    <3>3. x \in BusyOf(e)
      BY <1>3, <3>2, Zenon
    <3>4. QED
      BY <1>5, <3>1, <3>3, Zenon
  <2>3. QED
    BY <2>1, <2>2, Zenon
<1>9. \A q \in DOMAIN Q : Q[q] = R[q]
  <2>1. ASSUME NEW x \in BusyOf(e) PROVE Q[x + S] = R[x + S]
    <3>1. e.blk[x].size = a.blk[x].size /\ x \in H
      BY <1>3, Zenon DEF H
    <3>2. QED
      BY <1>4, <1>5, <3>1, Zenon
  <2>2. TAKE q \in DOMAIN Q
  <2>3. PICK x \in BusyOf(e) : q = x + S
    BY <1>5, Zenon
  <2>4. QED
    BY <2>1, <2>3, Zenon
<1>10. QED
  BY <1>3, <1>4, <1>5, <1>6, <1>8, <1>9, Zenon DEF Dropped

\* B is A and the request sz at p more, B is A without the one at p; D has the
\* pointers that are out before.
MoreAsked(A, B, D, p, sz) == B = [q \in D \cup {p} |-> IF q = p THEN sz ELSE A[q]]

FewerAsked(A, B, D, p) == B = [q \in D \ {p} |-> A[q]]

\* The request of the block that is handed out comes to the requests of the
\* blocks that are out.
LEMMA AllocRequests ==
  ASSUME NEW l, DOMAIN l \subseteq Nat, NEW b \in Nat, NEW sz,
         NEW D, D = PointersOf(l),
         NEW p, p = b + START_OF_USER_DATA_OFFSET
  PROVE  MoreAsked(RequestsOf(l), RequestsOf(With(l, b, sz)), D, p, sz)
<1> DEFINE S == START_OF_USER_DATA_OFFSET
           m == With(l, b, sz)
<1>1. S \in Nat
  BY Sizes DEF START_OF_USER_DATA_OFFSET
<1>2. DOMAIN m = DOMAIN l \cup {b} /\ \A x \in DOMAIN m : m[x] = IF x = b THEN sz ELSE l[x]
  BY Zenon DEF With
<1> HIDE DEF S, m
<1>3. \A x \in DOMAIN m : (x + S) - S = x /\ (x + S = p <=> x = b)
  BY <1>1, <1>2 DEF S
<1>4. PointersOf(m) = D \cup {p}
  BY <1>2, Zenon DEF PointersOf
<1>5. ASSUME NEW q \in D \cup {p}
      PROVE  m[q - S] = IF q = p THEN sz ELSE RequestsOf(l)[q]
  <2>1. PICK x \in DOMAIN m : q = x + S
    BY <1>4, Zenon DEF PointersOf, S
  <2>2. q - S = x /\ (q = p <=> x = b)
    BY <1>3, <2>1, Zenon
  <2>3. q # p => RequestsOf(l)[q] = l[q - S]
    BY Zenon DEF RequestsOf, S
  <2>4. QED
    BY <1>2, <2>2, <2>3, Zenon
<1>6. RequestsOf(m) = [q \in D \cup {p} |-> m[q - S]]
  BY <1>4, Zenon DEF RequestsOf, S
<1>7. QED
  BY <1>5, <1>6, Zenon DEF m, MoreAsked

\* The request of the block that is freed goes, the others stay.
LEMMA FreeRequests ==
  ASSUME NEW l, DOMAIN l \subseteq Nat, NEW b \in DOMAIN l,
         NEW D, D = PointersOf(l),
         NEW p, p = b + START_OF_USER_DATA_OFFSET
  PROVE  FewerAsked(RequestsOf(l), RequestsOf(Without(l, b)), D, p)
<1> DEFINE S == START_OF_USER_DATA_OFFSET
           m == Without(l, b)
<1>1. S \in Nat
  BY Sizes DEF START_OF_USER_DATA_OFFSET
<1>2. DOMAIN m = DOMAIN l \ {b} /\ \A x \in DOMAIN m : m[x] = l[x]
  BY Zenon DEF Without
<1> HIDE DEF S, m
<1>3. \A x \in DOMAIN l : (x + S) - S = x /\ (x + S = p <=> x = b)
  BY <1>1 DEF S
<1>4. PointersOf(m) = D \ {p}
  <2>1. ASSUME NEW q \in D \ {p} PROVE \E x \in DOMAIN m : q = x + S
    <3>1. PICK x \in DOMAIN l : q = x + S
      BY Zenon DEF PointersOf, S
    <3>2. QED
      BY <1>2, <1>3, <3>1, Zenon
  <2>2. ASSUME NEW x \in DOMAIN m PROVE x + S \in D \ {p}
    BY <1>2, <1>3, Zenon DEF PointersOf, S
  <2>3. \A q : q \in PointersOf(m) <=> q \in D \ {p}
    BY <2>1, <2>2, Zenon DEF PointersOf, S
  <2>4. QED
    BY <2>3, Zenon
<1>5. ASSUME NEW q \in D \ {p} PROVE m[q - S] = RequestsOf(l)[q]
  <2>1. PICK x \in DOMAIN m : q = x + S
    BY <1>4, Zenon DEF PointersOf, S
  <2>2. q - S = x
    BY <1>2, <1>3, <2>1, Zenon
  <2>3. RequestsOf(l)[q] = l[q - S]
    BY Zenon DEF RequestsOf, S
  <2>4. QED
    BY <1>2, <2>2, <2>3, Zenon
<1>6. RequestsOf(m) = [q \in D \ {p} |-> m[q - S]]
  BY <1>4, Zenon DEF RequestsOf, S
<1>7. QED
  BY <1>5, <1>6, Zenon DEF m, FewerAsked

\* rtl_tlsf_make_arena is Make of Heap, or changes nothing.
LEMMA MakeHeap ==
  ASSUME Limits, IInv, NEW m \in {0, 1}, NEW sz \in ArenaSizes, rtl_tlsf_make_arena(m, sz)
  PROVE  AbstractHeap!Make \/ UNCHANGED vars
<1>1. ~Made /\ DOMAIN live = {} /\ live' = live
  BY EmptyFacts, Zenon DEF rtl_tlsf_make_arena
<1>2. CASE MakeArenaCode(m, sz) # 0
  BY <1>1, <1>2, Zenon DEF rtl_tlsf_make_arena, vars
<1>3. CASE MakeArenaCode(m, sz) = 0
  <2>1. Limits /\ IInv' /\ arena' = FreshArena(sz)
    BY <1>3, MakeIInv, Zenon DEF rtl_tlsf_make_arena
  <2>2. MakeArenaCode(0, sz) = 0
    BY <1>3 DEF MakeArenaCode
  <2>3. Accepted(sz)
    BY <2>2, TlsfConstants, Zenon DEF Accepted, Limits
  <2> DEFINE N == AlignDown(sz - ARENA_SIZE)
  <2>4. Good(arena', N) /\ PoolSize(N)
    BY <2>1, <2>3, FreshGood, FreshSize, Zenon
  <2> HIDE DEF N
  <2>5. PoolEnd(arena') = N /\ arena' # EmptyArena /\ N \in Nat
    BY <2>4, EndOfChain, GoodIsMade, Zenon DEF PoolSize
  <2>6. UserRegions' = UserRegions /\ UserRequests' = UserRequests
    BY <1>1, Zenon DEF UserRegions, UserRequests, UserPointers
  <2>7. QED
    BY <1>1, <2>5, <2>6, Zenon DEF AbstractHeap!Make, Made
<1>4. QED
  BY <1>2, <1>3, Zenon

\* rtl_tlsf_alloc is Alloc of Heap, or changes nothing.
LEMMA AllocHeap ==
  ASSUME Limits, NoWrap, IInv, NEW sz \in Requests, rtl_tlsf_alloc(sz)
  PROVE  AbstractHeap!Alloc(sz) \/ UNCHANGED vars
<1> DEFINE size == BlockSizeFor(sz)
           b == FoundBlock(arena, size)
<1>1. CASE b = NULL
  BY <1>1, Zenon DEF rtl_tlsf_alloc
<1>2. CASE b # NULL
  <2>1. PICK t \in ArenaSizes : Served(AlignDown(t - ARENA_SIZE), b, sz)
    BY <1>2, AllocServes, Zenon
  <2> DEFINE N == AlignDown(t - ARENA_SIZE)
             S == START_OF_USER_DATA_OFFSET
             p == b + S
             R == Regions(arena, BusyOf(arena))
             Q == Regions(arena', BusyOf(arena'))
  <2>2. Served(N, b, sz)
    BY <2>1, Zenon
  <2> HIDE DEF N, b
  <2>3. UserRegions = R /\ UserRegions' = Q
    <3>1. DOMAIN live = BusyOf(arena) /\ DOMAIN live' = BusyOf(arena')
      BY <2>2, Zenon DEF Served, With
    <3>2. QED
      BY <3>1, Zenon DEF UserRegions, UserPointers, Regions
  <2>4. /\ PoolSize(N) /\ Good(arena, N) /\ Good(arena', N) /\ b \in FreeOf(arena)
        /\ BusyOf(arena') = BusyOf(arena) \cup {b}
        /\ \A x \in BusyOf(arena) : arena'.blk[x].size = arena.blk[x].size
        /\ size \in Nat \ {0} /\ arena'.blk[b].size >= size
    BY <2>2, Zenon DEF Served
  <2>5. PoolEnd(arena) = N /\ PoolEnd(arena') = N /\ arena # EmptyArena /\ arena' # EmptyArena
    BY <2>4, EndOfChain, GoodIsMade, Zenon
  <2> HIDE DEF R, Q, p
  <2>6. /\ p \in DOMAIN Q \ DOMAIN R
        /\ Q = [q \in DOMAIN R \cup {p} |-> IF q = p THEN Q[p] ELSE R[q]]
        /\ Q[p] = arena'.blk[b].size - S
        /\ p - S >= 0 /\ p + Q[p] <= N
        /\ \A q \in DOMAIN R : AbstractHeap!Disjoint(p - S, Q[p] + S, q - S, R[q] + S)
    <3>1. R = Regions(arena, BusyOf(arena)) /\ Q = Regions(arena', BusyOf(arena')) /\ p = b + S
      BY Zenon DEF R, Q, p
    <3>2. Allotted(R, Q, p, arena'.blk[b].size - S, N)
      BY <2>4, <3>1, AllocRegions, Zenon
    <3>3. QED
      BY <3>2, Zenon DEF Allotted
  <2>7. Q[p] >= sz
    <3>1. sz \in Nat /\ S \in Nat
      BY TlsfConstants, Sizes DEF START_OF_USER_DATA_OFFSET
    <3>2. size >= sz + S
      BY <2>4, <3>1, PaddedEnough, Zenon DEF NoWrap
    <3>3. arena'.blk[b].size \in Nat
      <4>1. b \in DOMAIN arena'.blk
        BY <2>4, Zenon DEF BusyOf
      <4>2. QED
        BY <2>4, <4>1, Zenon DEF Good, Shape, Headers, Header
    <3> HIDE DEF size, S
    <3>4. QED
      BY <2>4, <2>6, <3>1, <3>2, <3>3, SMTT(20)
  <2>8. Made /\ Made' /\ N # NULL
    BY <2>4, <2>5, TlsfConstants, Zenon DEF Made, PoolSize
  <2>9. UserRequests' = [q \in DOMAIN R \cup {p} |-> IF q = p THEN sz ELSE UserRequests[q]]
    <3>1. DOMAIN live = BusyOf(arena) /\ live' = With(live, b, sz)
      BY <2>2, Zenon DEF Served
    <3>2. DOMAIN live \subseteq Nat /\ b \in Nat
      BY <2>4, <3>1, Zenon DEF Good, Shape, Headers, BusyOf, FreeOf
    <3>3. DOMAIN R = PointersOf(live) /\ p = b + START_OF_USER_DATA_OFFSET
      BY <3>1, Zenon DEF R, Regions, PointersOf, p, S
    <3>4. MoreAsked(RequestsOf(live), RequestsOf(With(live, b, sz)), DOMAIN R, p, sz)
      BY <3>2, <3>3, AllocRequests, Zenon
    <3>5. UserRequests = RequestsOf(live) /\ UserRequests' = RequestsOf(live')
      BY Zenon DEF UserRequests, UserPointers, RequestsOf, PointersOf
    <3>6. QED
      BY <3>1, <3>4, <3>5, Zenon DEF MoreAsked
  <2> HIDE DEF S
  <2>10. AbstractHeap!Alloc(sz)
    BY <2>3, <2>5, <2>6, <2>7, <2>8, <2>9, SMTT(20) DEF AbstractHeap!Alloc, S
  <2>11. QED
    BY <2>10, Zenon
<1>3. QED
  BY <1>1, <1>2, Zenon

\* rtl_tlsf_free is Free of Heap, or changes nothing.
LEMMA FreeHeap ==
  ASSUME Limits, IInv, NEW b \in DOMAIN live \cup {NULL}, rtl_tlsf_free(b)
  PROVE  (\E p \in DOMAIN UserRegions : AbstractHeap!Free(p)) \/ UNCHANGED vars
<1>1. CASE b = NULL
  BY <1>1, Zenon DEF rtl_tlsf_free
<1>2. CASE b # NULL
  <2>1. PICK t \in ArenaSizes : Returned(AlignDown(t - ARENA_SIZE), b)
    BY <1>2, FreeReturns, Zenon
  <2> DEFINE N == AlignDown(t - ARENA_SIZE)
             p == b + START_OF_USER_DATA_OFFSET
             R == Regions(arena, BusyOf(arena))
             Q == Regions(arena', BusyOf(arena'))
  <2>2. Returned(N, b)
    BY <2>1, Zenon
  <2> HIDE DEF N
  <2>3. UserRegions = R /\ UserRegions' = Q
    <3>1. DOMAIN live = BusyOf(arena) /\ DOMAIN live' = BusyOf(arena')
      BY <2>2, Zenon DEF Returned, Without
    <3>2. QED
      BY <3>1, Zenon DEF UserRegions, UserPointers, Regions
  <2>4. /\ PoolSize(N) /\ Good(arena, N) /\ Good(arena', N) /\ b \in BusyOf(arena)
        /\ BusyOf(arena') = BusyOf(arena) \ {b}
        /\ \A x \in BusyOf(arena) \ {b} : arena'.blk[x].size = arena.blk[x].size
    BY <2>2, Zenon DEF Returned
  <2>5. PoolEnd(arena) = N /\ PoolEnd(arena') = N /\ arena # EmptyArena /\ arena' # EmptyArena
    BY <2>4, EndOfChain, GoodIsMade, Zenon
  <2> HIDE DEF R, Q, p
  <2>6. p \in DOMAIN R /\ Q = [q \in DOMAIN R \ {p} |-> R[q]]
    <3>1. /\ R = Regions(arena, BusyOf(arena)) /\ Q = Regions(arena', BusyOf(arena'))
          /\ p = b + START_OF_USER_DATA_OFFSET
      BY Zenon DEF R, Q, p
    <3>2. Dropped(R, Q, p)
      BY <2>4, <3>1, FreeRegions, Zenon
    <3>3. QED
      BY <3>2, Zenon DEF Dropped
  <2>7. UserRequests' = [q \in DOMAIN R \ {p} |-> UserRequests[q]]
    <3>1. DOMAIN live = BusyOf(arena) /\ live' = Without(live, b)
      BY <2>2, Zenon DEF Returned
    <3>2. DOMAIN live \subseteq Nat /\ b \in DOMAIN live
      BY <2>4, <3>1, Zenon DEF Good, Shape, Headers, BusyOf
    <3>3. DOMAIN R = PointersOf(live) /\ p = b + START_OF_USER_DATA_OFFSET
      BY <3>1, Zenon DEF R, Regions, PointersOf, p
    <3>4. FewerAsked(RequestsOf(live), RequestsOf(Without(live, b)), DOMAIN R, p)
      BY <3>2, <3>3, FreeRequests, Zenon
    <3>5. UserRequests = RequestsOf(live) /\ UserRequests' = RequestsOf(live')
      BY Zenon DEF UserRequests, UserPointers, RequestsOf, PointersOf
    <3>6. QED
      BY <3>1, <3>4, <3>5, Zenon DEF FewerAsked
  <2>8. AbstractHeap!Free(p)
    BY <2>3, <2>5, <2>6, <2>7, Zenon DEF AbstractHeap!Free, Made
  <2>9. QED
    BY <2>3, <2>6, <2>8, Zenon
<1>3. QED
  BY <1>1, <1>2, Zenon

\* What is held is as large as was asked for.
LEMMA Suffices ==
  ASSUME Limits, NoWrap, IInv
  PROVE  AtLeastRequested
<1>1. SUFFICES ASSUME NEW b \in DOMAIN live
               PROVE  arena.blk[b].size - START_OF_USER_DATA_OFFSET >= live[b]
  BY Zenon DEF AtLeastRequested
<1>2. /\ live[b] \in Requests /\ BlockSizeFor(live[b]) # 0
      /\ arena.blk[b].size >= BlockSizeFor(live[b])
  BY Zenon DEF IInv, Granted
<1>3. live[b] \in Nat /\ START_OF_USER_DATA_OFFSET \in Nat
  <2>1. live[b] \in Nat
    BY <1>2, TlsfConstants, Zenon
  <2>2. START_OF_USER_DATA_OFFSET \in Nat
    BY Sizes DEF START_OF_USER_DATA_OFFSET
  <2>3. QED
    BY <2>1, <2>2
<1>4. /\ BlockSizeFor(live[b]) \in Nat
      /\ BlockSizeFor(live[b]) >= live[b] + START_OF_USER_DATA_OFFSET
  BY <1>2, <1>3, PaddedEnough, Zenon DEF NoWrap
<1>5. Made
  BY EmptyFacts, Zenon
<1>6. PICK N : Good(arena, N) /\ DOMAIN live = BusyOf(arena)
  BY <1>5, WholePool, Zenon DEF IInv
<1>7. arena.blk[b].size \in Nat
  BY <1>6, Zenon DEF Good, Shape, Headers, Header, BusyOf
<1>8. QED
  BY <1>2, <1>3, <1>4, <1>7

\* Every step is a step of Heap, or changes nothing a client can see.
LEMMA StepHeap ==
  ASSUME Limits, NoWrap, IInv, [Next]_vars
  PROVE  [AbstractHeap!Next]_<<IF Made THEN PoolEnd(arena) ELSE NULL, UserRegions,
                               UserRequests>>
<1>1. CASE UNCHANGED vars
  <2>1. arena' = arena /\ live' = live
    BY <1>1, Zenon DEF vars
  <2>2. /\ UserRegions' = UserRegions /\ UserRequests' = UserRequests
        /\ Made' = Made /\ PoolEnd(arena') = PoolEnd(arena)
    BY <2>1, Zenon DEF UserRegions, UserRequests, UserPointers, Made
  <2>3. QED
    BY <2>2, Zenon
<1>2. CASE Next /\ ~UNCHANGED vars
  BY <1>2, MakeHeap, AllocHeap, FreeHeap, Zenon DEF Next, AbstractHeap!Next
<1>3. QED
  BY <1>1, <1>2, Zenon

-----------------------------------------------------------------------------
(* The theorems. *)

\* rtl_tlsf_alloc and rtl_tlsf_free keep the physical chain whatever the
\* order of calls: the blocks tile the region, prev_physical_block is exact
\* and only the final block has the last bit.
THEOREM Tiling ==
  ASSUME Limits
  PROVE  Spec => []BlocksTile
BY Invariance, Tiles, PTL

\* insert_block and remove_block keep lists and bitmaps exact: each free block
\* is in the list of its class once, with exact links in both directions, and
\* the bits say which lists and rows are not empty.
THEOREM ExactLists ==
  ASSUME Limits
  PROVE  Spec => []FreeListsExact
BY Invariance, ListsExact, PTL

\* rtl_tlsf_free leaves no two free blocks side by side.
THEOREM Coalescing ==
  ASSUME Limits
  PROVE  Spec => []Coalesced
BY Invariance, Coalesces, PTL

\* The assertion of rtl_tlsf_alloc: what the bitmaps lead to is a free block
\* that is large enough.
THEOREM SearchIsSafe ==
  ASSUME Limits
  PROVE  Spec => []FoundBlockFits
BY Invariance, Finds, PTL

\* rtl_tlsf_alloc refuses a request only if no free block exceeds the block
\* it needs by one part in SLI_COUNT.
THEOREM SearchIsGood ==
  ASSUME Limits
  PROVE  Spec => []GoodFit
BY Invariance, Fits, PTL

\* The pointers rtl_tlsf_alloc returns are aligned as the region is, where
\* the length of struct rtl_tlsf_arena allows it.
THEOREM Alignment ==
  ASSUME Limits, HeaderAligned
  PROVE  Spec => []UserDataAligned
BY Invariance, Aligns, PTL

\* Once everything is freed the arena is as rtl_tlsf_make_arena built it: no
\* sequence of calls loses memory or leaves a trace in lists and bitmaps.
THEOREM NothingLost ==
  ASSUME Limits
  PROVE  Spec => []EmptyArenaIsFresh
BY Invariance, Fresh, PTL

\* The allocator implements the contract of include/rtl/memory.h: every call
\* is a step of Heap, rtl_tlsf_alloc(sz) one that grants at least this sz, or
\* changes nothing a client can see; and no call of another takes from what a
\* client was granted.
THEOREM Implementation ==
  ASSUME Limits, NoWrap
  PROVE  Spec => ImplementsHeap /\ []AtLeastRequested
<1>1. Init => AbstractHeap!Init
  BY InitHeap
<1>2. QED
  BY <1>1, Invariance, StepHeap, Suffices, PTL DEF ImplementsHeap, AbstractHeap!Spec, Spec

=============================================================================
