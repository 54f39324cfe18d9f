----------------------------- MODULE PoolProofs -----------------------------
(***************************************************************************)
(* rtl::object_pool and rtl::lru, for every number of blocks, pools,       *)
(* caches, keys and values, and whatever allocations fail.                 *)
(***************************************************************************)
EXTENDS ObjectPool, WellFoundedInduction, TLAPS

-----------------------------------------------------------------------------
(* Numbers and sequences. *)

\* The order of the natural numbers.
Less == {p \in Nat \X Nat : p[1] < p[2]}

\* Every non-empty set of natural numbers has a least element: the form in
\* which induction is used below.
LEMMA LeastElement ==
  ASSUME NEW T, T \subseteq Nat, T # {}
  PROVE  \E x \in T : \A y \in T : x <= y
<1>1. IsWellFoundedOn(Less, Nat)
  BY NatLessThanWellFounded DEF OpToRel, Less
<1>2. PICK x \in T : \A y \in T : ~ (<<y, x>> \in Less)
  BY <1>1, WFMin, Zenon
<1>3. ASSUME NEW y \in T PROVE x <= y
  <2>1. <<y, x>> \in Nat \X Nat
    OBVIOUS
  <2>2. QED
    BY <1>2, <2>1 DEF Less
<1>4. QED
  BY <1>3

\* push_back on the sequence of pointers.
LEMMA AppendEffect ==
  ASSUME NEW s \in Seq(Blocks), NEW x \in Blocks
  PROVE  /\ Append(s, x) \in Seq(Blocks) /\ Len(Append(s, x)) = Len(s) + 1
         /\ Range(Append(s, x)) = Range(s) \cup {x}
         /\ IsInjective(s) /\ x \notin Range(s) => IsInjective(Append(s, x))
<1> DEFINE n == Len(s)
           t == Append(s, x)
<1>1. /\ n \in Nat /\ DOMAIN s = 1 .. n /\ t \in Seq(Blocks) /\ Len(t) = n + 1
      /\ DOMAIN t = 1 .. (n + 1) /\ t[n + 1] = x /\ \A i \in 1 .. n : t[i] = s[i]
  OBVIOUS
<1> HIDE DEF n, t
<1>2. /\ n + 1 \in 1 .. (n + 1) /\ \A i \in 1 .. n : i \in 1 .. (n + 1)
      /\ \A i \in 1 .. (n + 1) : i = n + 1 \/ i \in 1 .. n
  BY <1>1
<1>3. Range(t) = Range(s) \cup {x}
  BY <1>1, <1>2, Zenon DEF Range
<1>4. ASSUME IsInjective(s), x \notin Range(s) PROVE IsInjective(t)
  BY <1>1, <1>2, <1>4, Zenon DEF IsInjective, Range
<1>5. QED
  BY <1>1, <1>3, <1>4, Zenon DEF n, t

\* pop_back on the sequence of pointers.
LEMMA PopEffect ==
  ASSUME NEW s \in Seq(Blocks), Len(s) # 0, IsInjective(s),
         NEW t, t = SubSeq(s, 1, Len(s) - 1), NEW x, x = s[Len(s)]
  PROVE  /\ t \in Seq(Blocks) /\ Len(t) = Len(s) - 1 /\ IsInjective(t)
         /\ x \in Range(s) /\ Range(t) = Range(s) \ {x}
<1> DEFINE n == Len(s)
<1>0. n \in Nat \ {0} /\ DOMAIN s = 1 .. n
  OBVIOUS
<1>1. /\ n \in Nat \ {0} /\ DOMAIN s = 1 .. n /\ t \in Seq(Blocks) /\ Len(t) = n - 1
      /\ DOMAIN t = 1 .. (n - 1) /\ \A i \in 1 .. (n - 1) : t[i] = s[i]
  BY <1>0
<1>2. x = s[n]
  BY Zenon
<1> HIDE DEF n
<1>3. /\ n \in 1 .. n /\ \A i \in 1 .. (n - 1) : i \in 1 .. n /\ i # n
      /\ \A i \in 1 .. n : i = n \/ i \in 1 .. (n - 1)
  BY <1>1
<1>4. IsInjective(t)
  BY <1>1, <1>3, Zenon DEF IsInjective
<1>5. x \in Range(s)
  BY <1>1, <1>2, <1>3, Zenon DEF Range
<1>6. Range(t) = Range(s) \ {x}
  <2>1. ASSUME NEW y \in Range(t) PROVE y \in Range(s) /\ y # x
    BY <1>1, <1>2, <1>3 DEF IsInjective, Range
  <2>2. ASSUME NEW y \in Range(s), y # x PROVE y \in Range(t)
    BY <1>1, <1>2, <1>3, <2>2 DEF Range
  <2>3. QED
    BY <2>1, <2>2, Zenon
<1>7. QED
  BY <1>1, <1>4, <1>5, <1>6, Zenon DEF n

-----------------------------------------------------------------------------
(* The allocator and the vector. *)

HeapRecords ==
  [live : SUBSET Blocks, misfreed : BOOLEAN, asked : Nat, fails : SUBSET Failures,
   got : Blocks \cup {NULL}]

\* A heap during a call; nothing has been freed that was not allocated.
Clean(h) == h \in HeapRecords /\ ~h.misfreed

\* The blocks of a vector of pointers: what they point to, and the buffer.
Own(v) == Range(v.items) \cup ({v.m_buf} \ {NULL})

\* The vector points to different objects, its buffer is none of them and has
\* room for the pointers.
IsVector(v) ==
  /\ v \in Vectors /\ IsInjective(v.items) /\ v.m_buf \notin Range(v.items)
  /\ Len(v.items) <= v.m_capacity

\* Somewhere in a call: v owns its blocks and the rest of the program, which R
\* stands for, owns the other ones that are allocated.
Holds(v, h, R) ==
  /\ IsVector(v) /\ Clean(h)
  /\ R \cap Own(v) = {} /\ h.live = R \cup Own(v)

\* The assignments to the fields of a heap that an allocation makes.
Refused(h, n) == [h EXCEPT !.asked = n, !.got = NULL]
Granted(h, n, b, lv) == [h EXCEPT !.asked = n, !.got = b, !.live = lv]

\* The heap after an allocation that failed.
LEMMA HeapRefused ==
  ASSUME NEW h \in HeapRecords, NEW n \in Nat
  PROVE  /\ Refused(h, n) \in HeapRecords /\ Refused(h, n).live = h.live
         /\ Refused(h, n).got = NULL /\ Refused(h, n).misfreed = h.misfreed
  BY DEF HeapRecords, Refused

\* The heap after an allocation of b that left the blocks of lv live.
LEMMA HeapGranted ==
  ASSUME NEW h \in HeapRecords, NEW n \in Nat, NEW b \in Blocks, NEW lv \in SUBSET Blocks
  PROVE  /\ Granted(h, n, b, lv) \in HeapRecords /\ Granted(h, n, b, lv).live = lv
         /\ Granted(h, n, b, lv).got = b /\ Granted(h, n, b, lv).misfreed = h.misfreed
  BY DEF HeapRecords, Granted

\* An allocation returns a block that was free, or fails and changes nothing.
LEMMA AllocateEffect ==
  ASSUME NEW h, Clean(h), NEW a, a = allocate(h)
  PROVE  /\ Clean(a)
         /\ \/ a.got = NULL /\ a.live = h.live
            \/ a.got \in Blocks \ h.live /\ a.live = h.live \cup {a.got}
<1> DEFINE F == Blocks \ h.live
           b == LowestFree(h)
<1>1. CASE h.asked + 1 \in h.fails \/ Blocks \subseteq h.live
  <2>1. a = Refused(h, h.asked + 1)
    BY <1>1, Zenon DEF allocate, Refused
  <2>2. h \in HeapRecords
    BY DEF Clean
  <2>3. /\ a \in HeapRecords /\ a.live = h.live /\ a.got = NULL
        /\ a.misfreed = h.misfreed
    <3>1. h.asked + 1 \in Nat
      BY <2>2 DEF HeapRecords
    <3>2. QED
      BY <2>1, <2>2, <3>1, HeapRefused
  <2>4. QED
    BY <2>3, Zenon DEF Clean
<1>2. CASE ~(h.asked + 1 \in h.fails \/ Blocks \subseteq h.live)
  <2>1. F # {}
    BY <1>2, Zenon
  <2>2. F \subseteq Nat
    BY VectorConstants
  <2>3. \E n \in F : \A m \in F : n <= m
    BY <2>1, <2>2, LeastElement, Zenon
  <2>4. b \in F
    BY <2>3, Zenon DEF LowestFree
  <2>5. a = Granted(h, h.asked + 1, b, h.live \cup {b})
    BY <1>2 DEF allocate, Granted
  <2> HIDE DEF b
  <2>6. h \in HeapRecords
    BY DEF Clean
  <2>7. /\ a \in HeapRecords /\ a.live = h.live \cup {b} /\ a.got = b
        /\ a.misfreed = h.misfreed
    <3>1. h.asked + 1 \in Nat /\ h.live \cup {b} \in SUBSET Blocks
      BY <2>4, <2>6 DEF HeapRecords
    <3>2. b \in Blocks
      BY <2>4
    <3>3. QED
      BY <2>5, <2>6, <3>1, <3>2, HeapGranted
  <2>8. QED
    BY <2>4, <2>7, Zenon DEF Clean
<1>3. QED
  BY <1>1, <1>2, Zenon

\* Deallocating a block that is allocated frees it and nothing else.
LEMMA DeallocateEffect ==
  ASSUME NEW h, Clean(h), NEW p \in h.live, NEW d, d = deallocate(h, p)
  PROVE  Clean(d) /\ d.live = h.live \ {p}
<1>1. p # NULL
  BY VectorConstants DEF Clean, HeapRecords
<1>2. d = [h EXCEPT !.live = h.live \ {p}, !.misfreed = h.misfreed \/ p \notin h.live]
  BY <1>1 DEF deallocate
<1>3. QED
  BY <1>2 DEF Clean, HeapRecords

\* reserve moves the elements to a larger buffer or leaves everything as it is.
LEMMA ReserveEffect ==
  ASSUME NEW v, NEW h, NEW R, Holds(v, h, R), NEW n \in Nat,
         NEW r, r = reserve(v, h, n)
  PROVE  /\ r = [ok |-> r.ok, v |-> r.v, h |-> r.h] /\ r.ok \in BOOLEAN
         /\ Holds(r.v, r.h, R)
         /\ r.v.items = v.items /\ r.v.m_capacity >= v.m_capacity
         /\ IF r.ok THEN r.v.m_capacity >= n ELSE r.v = v
         /\ n <= v.m_capacity => r.ok /\ r.v = v /\ r.h = h
<1> DEFINE a == allocate(h)
<1>1. /\ Clean(a)
      /\ \/ a.got = NULL /\ a.live = h.live
         \/ a.got \in Blocks \ h.live /\ a.live = h.live \cup {a.got}
  BY AllocateEffect, Zenon DEF Holds
<1>2. v.m_capacity \in Nat /\ v \in Vectors
  BY DEF Holds, IsVector, Vectors
<1>3. CASE n <= v.m_capacity
  <2>1. r = [ok |-> TRUE, v |-> v, h |-> h]
    BY <1>2, <1>3 DEF reserve
  <2>2. QED
    BY <1>2, <1>3, <2>1
<1>4. CASE n > v.m_capacity /\ a.got = NULL
  <2>1. r = [ok |-> FALSE, v |-> v, h |-> a]
    BY <1>2, <1>4 DEF reserve
  <2>2. Holds(v, a, R)
    BY <1>1, <1>4, VectorConstants DEF Holds
  <2>3. QED
    BY <1>2, <1>4, <2>1, <2>2
<1>5. CASE n > v.m_capacity /\ a.got # NULL
  <2> DEFINE w == [v EXCEPT !.m_buf = a.got, !.m_capacity = n]
             d == deallocate(a, v.m_buf)
  <2>1. r = [ok |-> TRUE, v |-> w, h |-> d]
    BY <1>2, <1>5 DEF reserve
  <2>2. a.got \in Blocks \ h.live /\ a.live = h.live \cup {a.got}
    BY <1>1, <1>5, Zenon
  <2>3. w \in Vectors /\ w.items = v.items /\ w.m_capacity = n /\ w.m_buf = a.got
    BY <1>2, <2>2 DEF Vectors
  <2>4. Clean(d) /\ d.live = a.live \ {v.m_buf}
    <3>1. CASE v.m_buf = NULL
      <4>1. d = a
        BY <3>1, Zenon DEF deallocate
      <4>2. v.m_buf \notin a.live
        BY <1>1, <3>1, VectorConstants DEF Clean, HeapRecords
      <4>3. QED
        BY <1>1, <4>1, <4>2, Zenon
    <3>2. CASE v.m_buf # NULL
      <4>1. v.m_buf \in a.live
        BY <2>2, <3>2, Zenon DEF Holds, Own
      <4>2. QED
        BY <1>1, <4>1, DeallocateEffect, Zenon
    <3>3. QED
      BY <3>1, <3>2, Zenon
  <2> HIDE DEF w, d, a
  <2>5. a.got # NULL /\ a.got \notin Range(v.items)
    BY <1>5, <2>2, Zenon DEF Holds, Own
  <2>6. IsVector(w)
    BY <1>2, <1>5, <2>3, <2>5 DEF Holds, IsVector, Vectors
  <2>7. Own(w) = Range(v.items) \cup {a.got}
    BY <2>3, <2>5, Zenon DEF Own
  <2>8. R \cap Own(w) = {} /\ d.live = R \cup Own(w)
    <3>1. /\ R \cap Own(v) = {} /\ h.live = R \cup Own(v) /\ v.m_buf \notin Range(v.items)
          /\ Own(v) = Range(v.items) \cup ({v.m_buf} \ {NULL}) /\ h.live \subseteq Blocks
      BY DEF Holds, IsVector, Own, Clean, HeapRecords
    <3>2. v.m_buf \notin R /\ v.m_buf # a.got
      <4>1. CASE v.m_buf = NULL
        BY <3>1, <4>1, <2>5, VectorConstants, Zenon
      <4>2. CASE v.m_buf # NULL
        BY <3>1, <4>2, <2>2, Zenon
      <4>3. QED
        BY <4>1, <4>2, Zenon
    <3>3. d.live = ((R \cup (Range(v.items) \cup ({v.m_buf} \ {NULL}))) \cup {a.got}) \ {v.m_buf}
      BY <2>2, <2>4, <3>1, Zenon
    <3>4. d.live = R \cup Own(w)
      BY <2>7, <3>1, <3>2, <3>3, Zenon
    <3>5. R \cap Own(w) = {}
      BY <2>2, <2>7, <3>1, Zenon
    <3>6. QED
      BY <3>4, <3>5, Zenon
  <2>9. QED
    BY <1>2, <1>5, <2>1, <2>3, <2>4, <2>6, <2>8 DEF Holds
<1>6. QED
  BY <1>2, <1>3, <1>4, <1>5

\* What push_back of x, which was somewhere in the rest R, leads to.
Pushed(v, x, R, r) ==
  /\ r.ok \in BOOLEAN /\ r.v.m_capacity >= v.m_capacity
  /\ r.ok => Holds(r.v, r.h, R \ {x}) /\ r.v.items = Append(v.items, x)
  /\ ~r.ok => Holds(r.v, r.h, R) /\ r.v = v
  /\ Len(v.items) < v.m_capacity => r.ok

\* push_back takes the object over, or leaves the vector as it was.
LEMMA PushBackEffect ==
  ASSUME NEW v, NEW h, NEW R, Holds(v, h, R), NEW x \in R
  PROVE  Pushed(v, x, R, push_back(v, h, x))
<1> DEFINE m == IF v.m_capacity = 0 THEN 1 ELSE 2 * v.m_capacity
           r == IF Len(v.items) < v.m_capacity THEN [ok |-> TRUE, v |-> v, h |-> h]
                ELSE reserve(v, h, m)
           u == Append(r.v.items, x)
           w == [r.v EXCEPT !.items = u]
           z == push_back(v, h, x)
<1>1. /\ v \in Vectors /\ v.m_capacity \in Nat /\ v.items \in Seq(Blocks)
      /\ Len(v.items) \in Nat /\ Len(v.items) <= v.m_capacity
  BY DEF Holds, IsVector, Vectors
<1>2. m \in Nat /\ m > v.m_capacity
  BY <1>1
<1>3. x \in Blocks /\ x # NULL /\ x \notin Own(v)
  BY VectorConstants DEF Holds, Clean, HeapRecords
<1>4. /\ r = [ok |-> r.ok, v |-> r.v, h |-> r.h] /\ r.ok \in BOOLEAN
      /\ Holds(r.v, r.h, R)
      /\ r.v.items = v.items /\ r.v.m_capacity >= v.m_capacity
      /\ IF r.ok THEN r.v.m_capacity > Len(v.items) ELSE r.v = v
      /\ Len(v.items) < v.m_capacity => r.ok
  <2> HIDE DEF m
  <2>1. CASE Len(v.items) < v.m_capacity
    <3>1. r = [ok |-> TRUE, v |-> v, h |-> h]
      BY <2>1, Zenon
    <3> HIDE DEF r
    <3>2. QED
      BY <1>1, <2>1, <3>1
  <2>2. CASE ~(Len(v.items) < v.m_capacity)
    <3>1. r = reserve(v, h, m)
      BY <2>2, Zenon
    <3> HIDE DEF r
    <3>2. /\ r = [ok |-> r.ok, v |-> r.v, h |-> r.h] /\ r.ok \in BOOLEAN
          /\ Holds(r.v, r.h, R)
          /\ r.v.items = v.items /\ r.v.m_capacity >= v.m_capacity
          /\ IF r.ok THEN r.v.m_capacity >= m ELSE r.v = v
      BY <1>2, <3>1, ReserveEffect
    <3>3. r.v.m_capacity \in Nat
      BY <3>2 DEF Holds, IsVector, Vectors
    <3>4. QED
      BY <1>1, <1>2, <2>2, <3>2, <3>3
  <2>3. QED
    BY <2>1, <2>2, Zenon
<1>5. z = IF r.ok THEN [r EXCEPT !.v.items = u] ELSE r
  BY DEF push_back
<1> HIDE DEF r, z, m
<1>6. CASE ~r.ok
  <2>1. z = r
    BY <1>5, <1>6, Zenon
  <2>2. QED
    BY <1>4, <1>6, <2>1, Zenon DEF Pushed, z
<1>7. CASE r.ok
  <2>1. r.v \in Vectors /\ IsVector(r.v) /\ r.v.m_capacity \in Nat
    BY <1>4 DEF Holds, IsVector, Vectors
  <2>2. /\ u \in Seq(Blocks) /\ Len(u) = Len(v.items) + 1
        /\ Range(u) = Range(v.items) \cup {x}
        /\ IsInjective(v.items) /\ x \notin Range(v.items) => IsInjective(u)
    BY <1>1, <1>3, <1>4, AppendEffect, Zenon
  <2> HIDE DEF u
  <2>3. /\ w \in Vectors /\ w.items = u /\ w.m_buf = r.v.m_buf
        /\ w.m_capacity = r.v.m_capacity
    BY <2>1, <2>2 DEF Vectors
  <2>4. z = [ok |-> TRUE, v |-> w, h |-> r.h]
    BY <1>4, <1>5, <1>7
  <2> HIDE DEF w
  <2>5. x \notin Own(r.v)
    BY Zenon, <1>4 DEF Holds
  <2>6. x \notin Range(v.items) /\ x # r.v.m_buf
    BY <1>3, <1>4, <2>5, Zenon DEF Own
  <2>7. IsVector(w)
    <3>1. IsInjective(w.items) /\ w.m_buf \notin Range(w.items)
      BY <1>4, <2>1, <2>2, <2>3, <2>6, Zenon DEF IsVector
    <3>2. Len(w.items) <= w.m_capacity
      BY <1>1, <1>4, <1>7, <2>1, <2>2, <2>3
    <3>3. QED
      BY <2>3, <3>1, <3>2, Zenon DEF IsVector
  <2>8. Own(w) = Own(r.v) \cup {x}
    BY <1>4, <2>2, <2>3, Zenon DEF Own
  <2>9. Holds(w, r.h, R \ {x})
    <3>1. Clean(r.h) /\ R \cap Own(r.v) = {} /\ r.h.live = R \cup Own(r.v)
      BY <1>4, Zenon DEF Holds
    <3>2. (R \ {x}) \cap Own(w) = {} /\ r.h.live = (R \ {x}) \cup Own(w)
      BY <2>8, <3>1
    <3>3. QED
      BY <2>7, <3>1, <3>2, Zenon DEF Holds
  <2>10. z.ok = TRUE /\ z.v = w /\ z.h = r.h
    BY <2>4
  <2>11. w.items = Append(v.items, x)
    BY <1>4, <2>3, Zenon DEF u
  <2>12. Pushed(v, x, R, z)
    BY <1>4, <2>3, <2>9, <2>10, <2>11 DEF Pushed
  <2>13. QED
    BY <2>12, Zenon DEF z
<1>8. QED
  BY <1>4, <1>6, <1>7, Zenon

-----------------------------------------------------------------------------
(* The pool. *)

\* What the operations of a pool return.
Works ==
  [v : Vectors, h : HeapRecords, added : Nat, lost : SUBSET Blocks,
   stopped : BOOLEAN, rval : Blocks \cup {NULL}]

\* After i rounds of add_to_pool on a vector of n objects: those that were
\* added are in the vector, at most one got lost, and an allocation that fails
\* ends the loop.
Filled(n, c, R, i, r) ==
  /\ r \in Works /\ r.rval = NULL /\ r.added <= i
  /\ r.lost \cap R = {} /\ Holds(r.v, r.h, R \cup r.lost)
  /\ Len(r.v.items) = n + r.added /\ r.v.m_capacity >= c
  /\ ~r.stopped => r.added = i /\ r.lost = {}

\* The assignments of a round.
NoObject(r, a) == [r EXCEPT !.h = a, !.stopped = TRUE]
LostObject(r, h, b) == [r EXCEPT !.h = h, !.lost = {b}, !.stopped = TRUE]
OneMore(r, v, h, i) == [r EXCEPT !.v = v, !.h = h, !.added = i]

\* What these assignments leave alone.
LEMMA RoundFields ==
  ASSUME NEW r \in Works, NEW h \in HeapRecords, NEW v \in Vectors, NEW b \in Blocks,
         NEW i \in Nat
  PROVE  /\ LET n == NoObject(r, h)
            IN  /\ n \in Works /\ n.v = r.v /\ n.h = h /\ n.added = r.added
                /\ n.lost = r.lost /\ n.stopped = TRUE /\ n.rval = r.rval
         /\ LET n == LostObject(r, h, b)
            IN  /\ n \in Works /\ n.v = r.v /\ n.h = h /\ n.added = r.added
                /\ n.lost = {b} /\ n.stopped = TRUE /\ n.rval = r.rval
         /\ LET n == OneMore(r, v, h, i)
            IN  /\ n \in Works /\ n.v = v /\ n.h = h /\ n.added = i
                /\ n.lost = r.lost /\ n.stopped = r.stopped /\ n.rval = r.rval
<1>1. LET n == NoObject(r, h)
      IN  /\ n \in Works /\ n.v = r.v /\ n.h = h /\ n.added = r.added
          /\ n.lost = r.lost /\ n.stopped = TRUE /\ n.rval = r.rval
  BY DEF Works, NoObject
<1>2. LET n == LostObject(r, h, b)
      IN  /\ n \in Works /\ n.v = r.v /\ n.h = h /\ n.added = r.added
          /\ n.lost = {b} /\ n.stopped = TRUE /\ n.rval = r.rval
  BY DEF Works, LostObject
<1>3. LET n == OneMore(r, v, h, i)
      IN  /\ n \in Works /\ n.v = v /\ n.h = h /\ n.added = i
          /\ n.lost = r.lost /\ n.stopped = r.stopped /\ n.rval = r.rval
  BY DEF Works, OneMore
<1>4. QED
  BY <1>1, <1>2, <1>3, Zenon

\* A round keeps the account of the objects, whichever allocation fails.
LEMMA AddOneEffect ==
  ASSUME NEW n \in Nat, NEW c \in Nat, NEW R, NEW i \in Nat \ {0}, NEW r,
         Filled(n, c, R, i - 1, r)
  PROVE  Filled(n, c, R, i, AddOne(r, i))
<1> DEFINE a == allocate(r.h)
           b == push_back(r.v, a, a.got)
           z == AddOne(r, i)
<1>1. /\ r \in Works /\ r.added \in Nat /\ r.stopped \in BOOLEAN /\ r.v \in Vectors
      /\ Len(r.v.items) \in Nat /\ r.v.m_capacity \in Nat
  BY DEF Filled, Works, Vectors
<1>2. CASE r.stopped
  <2>1. z = r
    BY <1>2, Zenon DEF AddOne
  <2>2. r.added <= i
    BY <1>1 DEF Filled
  <2>3. QED
    BY <1>2, <2>1, <2>2, Zenon DEF Filled
<1>3. CASE ~r.stopped
  <2>1. /\ r.rval = NULL /\ r.added = i - 1 /\ r.lost = {} /\ Holds(r.v, r.h, R)
        /\ Len(r.v.items) = n + r.added /\ r.v.m_capacity >= c
    <3>1. R \cup {} = R
      BY Zenon
    <3>2. QED
      BY <1>3, <3>1, Zenon DEF Filled
  <2>2. /\ Clean(a)
        /\ \/ a.got = NULL /\ a.live = r.h.live
           \/ a.got \in Blocks \ r.h.live /\ a.live = r.h.live \cup {a.got}
    BY <2>1, AllocateEffect, Zenon DEF Holds
  <2>3. /\ IsVector(r.v) /\ R \cap Own(r.v) = {} /\ r.h.live = R \cup Own(r.v)
    BY <2>1, Zenon DEF Holds
  <2>4. CASE a.got = NULL
    <3>1. z = NoObject(r, a)
      BY <1>3, <2>4, Zenon DEF AddOne, NoObject
    <3> HIDE DEF z, a
    <3>2. a \in HeapRecords /\ a.live = r.h.live
      BY <2>2, <2>4, VectorConstants, Zenon DEF Clean
    <3>3. Holds(r.v, a, R)
      BY <2>2, <2>3, <3>2, Zenon DEF Holds
    <3>4. /\ z \in Works /\ z.v = r.v /\ z.h = a /\ z.added = r.added
          /\ z.lost = {} /\ z.stopped = TRUE /\ z.rval = NULL
      BY <1>1, <2>1, <3>1, <3>2 DEF NoObject, Works
    <3>5. r.added <= i
      BY <1>1, <2>1
    <3>6. R \cup {} = R /\ {} \cap R = {}
      BY Zenon
    <3>7. Filled(n, c, R, i, z)
      BY <2>1, <3>3, <3>4, <3>5, <3>6, Zenon DEF Filled
    <3>8. QED
      BY <3>7, Zenon DEF z
  <2>5. CASE a.got # NULL
    <3>1. a.got \in Blocks /\ a.got \notin r.h.live /\ a.live = r.h.live \cup {a.got}
      BY <2>2, <2>5, Zenon
    <3>2. Holds(r.v, a, R \cup {a.got})
      <4>1. (R \cup {a.got}) \cap Own(r.v) = {} /\ a.live = (R \cup {a.got}) \cup Own(r.v)
        BY <2>3, <3>1, Zenon
      <4>2. QED
        BY <2>2, <2>3, <4>1, Zenon DEF Holds
    <3>3. Pushed(r.v, a.got, R \cup {a.got}, b)
      <4>1. a.got \in R \cup {a.got}
        BY Zenon
      <4>2. QED
        BY <3>2, <4>1, PushBackEffect, Zenon
    <3>4. a.got \notin R
      BY <2>3, <3>1, Zenon
    <3>5. CASE ~b.ok
      <4>1. z = LostObject(r, b.h, a.got)
        BY <1>3, <2>5, <3>5, Zenon DEF AddOne, LostObject
      <4> HIDE DEF z, a, b
      <4>2. Holds(r.v, b.h, R \cup {a.got})
        BY <3>3, <3>5, Zenon DEF Pushed
      <4>3. b.h \in HeapRecords
        BY <4>2, Zenon DEF Holds, Clean
      <4>4. /\ z \in Works /\ z.v = r.v /\ z.h = b.h /\ z.added = r.added
            /\ z.lost = {a.got} /\ z.stopped = TRUE /\ z.rval = NULL
        BY <1>1, <2>1, <3>1, <4>1, <4>3 DEF LostObject, Works
      <4>5. r.added <= i
        BY <1>1, <2>1
      <4>6. {a.got} \cap R = {}
        BY <3>4, Zenon
      <4>7. Filled(n, c, R, i, z)
        BY <2>1, <4>2, <4>4, <4>5, <4>6, Zenon DEF Filled
      <4>8. QED
        BY <4>7, Zenon DEF z
    <3>6. CASE b.ok
      <4>1. z = OneMore(r, b.v, b.h, i)
        BY <1>3, <2>5, <3>6, Zenon DEF AddOne, OneMore
      <4> HIDE DEF z, a, b
      <4>2. /\ Holds(b.v, b.h, (R \cup {a.got}) \ {a.got})
            /\ b.v.items = Append(r.v.items, a.got) /\ b.v.m_capacity >= r.v.m_capacity
        BY <3>3, <3>6, Zenon DEF Pushed
      <4>3. (R \cup {a.got}) \ {a.got} = R
        BY <3>4, Zenon
      <4>4. Holds(b.v, b.h, R)
        BY <4>2, <4>3, Zenon
      <4>5. b.h \in HeapRecords /\ b.v \in Vectors
        BY <4>4, Zenon DEF Holds, Clean, IsVector
      <4>6. /\ z \in Works /\ z.v = b.v /\ z.h = b.h /\ z.added = i
            /\ z.lost = {} /\ z.stopped = r.stopped /\ z.rval = NULL
        BY <1>1, <2>1, <4>1, <4>5 DEF OneMore, Works
      <4>7. Len(b.v.items) = n + i
        BY <1>1, <2>1, <3>1, <4>2 DEF Vectors
      <4>8. b.v.m_capacity >= c
        BY <1>1, <2>1, <4>2, <4>5 DEF Vectors
      <4>9. R \cup {} = R /\ {} \cap R = {} /\ i <= i
        OBVIOUS
      <4>10. Filled(n, c, R, i, z)
        BY <4>4, <4>6, <4>7, <4>8, <4>9, Zenon DEF Filled
      <4>11. QED
        BY <4>10, Zenon DEF z
    <3>7. QED
      BY <3>5, <3>6, Zenon
  <2>6. QED
    BY <2>4, <2>5, Zenon
<1>4. QED
  BY <1>2, <1>3, Zenon

\* f goes through the rounds of the loop from s.
RoundsTo(f, s, num) ==
  f = [i \in 0 .. num |-> IF i = 0 THEN s ELSE AddOne(f[i - 1], i)]

\* Rounds is such a function: there is one for every number of rounds.
LEMMA RoundsDefined ==
  ASSUME NEW s, NEW num \in Nat
  PROVE  RoundsTo(Rounds(s, num), s, num)
<1> DEFINE T == {n \in Nat : ~ \E f : RoundsTo(f, s, n)}
<1>1. T = {}
  <2>1. SUFFICES ASSUME T # {} PROVE FALSE
    BY Zenon
  <2>2. T \subseteq Nat
    BY Zenon
  <2>3. PICK x \in T : \A y \in T : x <= y
    BY <2>1, <2>2, LeastElement, Zenon
  <2>4. x \in Nat /\ ~ \E f : RoundsTo(f, s, x)
    BY <2>3, Zenon
  <2>5. CASE x = 0
    <3> DEFINE f == [j \in 0 .. x |-> s]
    <3>1. \A j \in 0 .. x : j = 0
      BY <2>5
    <3>2. RoundsTo(f, s, x)
      BY <3>1, Zenon DEF RoundsTo
    <3>3. QED
      BY <2>4, <3>2, Zenon
  <2>6. CASE x # 0
    <3>1. x - 1 \in Nat /\ ~(x <= x - 1)
      BY <2>4, <2>6
    <3>2. PICK f : RoundsTo(f, s, x - 1)
      BY <2>3, <3>1, Zenon
    <3> DEFINE g == [j \in 0 .. x |-> IF j = x THEN AddOne(f[x - 1], x) ELSE f[j]]
    <3>3. \A j \in 0 .. (x - 1) : f[j] = IF j = 0 THEN s ELSE AddOne(f[j - 1], j)
      BY <3>2, Zenon DEF RoundsTo
    <3>4. ASSUME NEW j \in 0 .. x
          PROVE  g[j] = IF j = 0 THEN s ELSE AddOne(g[j - 1], j)
      <4>1. CASE j = x
        <5>1. x - 1 \in 0 .. x /\ x - 1 # x
          BY <2>4, <2>6
        <5>2. g[x - 1] = f[x - 1]
          BY <5>1, Zenon
        <5>3. g[j] = AddOne(f[x - 1], x)
          BY <4>1, Zenon
        <5> HIDE DEF g
        <5>4. QED
          BY <2>6, <4>1, <5>2, <5>3, Zenon
      <4>2. CASE j # x
        <5>1. j \in 0 .. (x - 1) /\ (j # 0 => j - 1 \in 0 .. x /\ j - 1 # x)
          BY <2>4, <4>2
        <5>2. j # 0 => g[j - 1] = f[j - 1]
          BY <5>1, Zenon
        <5>3. g[j] = f[j]
          BY <4>2, Zenon
        <5> HIDE DEF g
        <5>4. QED
          BY <3>3, <5>1, <5>2, <5>3, Zenon
      <4>3. QED
        BY <4>1, <4>2, Zenon
    <3>5. g = [j \in 0 .. x |-> g[j]]
      BY Zenon
    <3> HIDE DEF g
    <3>6. RoundsTo(g, s, x)
      BY <3>4, <3>5, Zenon DEF RoundsTo
    <3>7. QED
      BY <2>4, <3>6, Zenon
  <2>7. QED
    BY <2>5, <2>6, Zenon
<1>2. \E f : RoundsTo(f, s, num)
  BY <1>1, Zenon
<1>3. Rounds(s, num) = CHOOSE f : RoundsTo(f, s, num)
  BY Zenon DEF Rounds, RoundsTo
<1>4. QED
  BY <1>2, <1>3, Zenon

\* add_to_pool on a vector of pointers: what is added is in the vector, and
\* the other objects stay where they are.
LEMMA AddEffect ==
  ASSUME NEW v, NEW h, NEW R, Holds(v, h, R), NEW num \in Nat
  PROVE  Filled(Len(v.items), v.m_capacity, R, num, AddToPool(v, h, num))
<1> DEFINE n == Len(v.items) + num
           r == reserve(v, h, n)
           s == Start(r.v, r.h)
           f == Rounds(s, num)
           T == {i \in 0 .. num : ~Filled(Len(v.items), v.m_capacity, R, i, f[i])}
<1>1. v.m_capacity \in Nat /\ Len(v.items) \in Nat /\ n \in Nat
  BY DEF Holds, IsVector, Vectors
<1>2. /\ Holds(r.v, r.h, R) /\ r.v.items = v.items /\ r.v.m_capacity >= v.m_capacity
  <2> HIDE DEF r, n
  <2>1. r = reserve(v, h, n)
    BY Zenon DEF r
  <2>2. QED
    BY <1>1, <2>1, ReserveEffect
<1>3. RoundsTo(f, s, num)
  BY RoundsDefined, Zenon
<1>4. AddToPool(v, h, num) = f[num]
  BY Zenon DEF AddToPool
<1> HIDE DEF r
<1>5. r.v \in Vectors /\ r.h \in HeapRecords
  BY <1>2, Zenon DEF Holds, IsVector, Clean
<1>6. /\ s \in Works /\ s.v = r.v /\ s.h = r.h /\ s.added = 0 /\ s.lost = {}
      /\ s.stopped = FALSE /\ s.rval = NULL
  BY <1>5 DEF Start, Works
<1> HIDE DEF s
<1>7. Filled(Len(v.items), v.m_capacity, R, 0, s)
  <2>1. R \cup {} = R /\ {} \cap R = {} /\ 0 <= 0 /\ Len(v.items) + 0 = Len(v.items)
    BY <1>1
  <2>2. QED
    BY <1>2, <1>6, <2>1, Zenon DEF Filled
<1> HIDE DEF f
<1>8. T = {}
  <2>1. SUFFICES ASSUME T # {} PROVE FALSE
    BY Zenon
  <2>2. T \subseteq Nat
    OBVIOUS
  <2>3. PICK x \in T : \A y \in T : x <= y
    BY <2>1, <2>2, LeastElement, Zenon
  <2>4. x \in 0 .. num /\ ~Filled(Len(v.items), v.m_capacity, R, x, f[x])
    BY <2>3, Zenon
  <2>5. f[x] = IF x = 0 THEN s ELSE AddOne(f[x - 1], x)
    BY <1>3, <2>4, Zenon DEF RoundsTo
  <2>6. x # 0
    BY <1>7, <2>4, <2>5, Zenon
  <2>7. x \in Nat \ {0} /\ x - 1 \in 0 .. num /\ ~(x <= x - 1)
    BY <2>4, <2>6
  <2>8. Filled(Len(v.items), v.m_capacity, R, x - 1, f[x - 1])
    BY <2>3, <2>7, Zenon
  <2>9. Filled(Len(v.items), v.m_capacity, R, x, AddOne(f[x - 1], x))
    BY <1>1, <2>7, <2>8, AddOneEffect, Zenon
  <2>10. QED
    BY <2>4, <2>5, <2>6, <2>9, Zenon
<1>9. num \in 0 .. num
  OBVIOUS
<1>10. QED
  BY <1>4, <1>8, <1>9, Zenon

\* A sequence without elements is the empty one.
LEMMA EmptySequence ==
  ASSUME NEW s \in Seq(Blocks)
  PROVE  s = <<>> <=> Len(s) = 0
  OBVIOUS

\* pop_back hands the last object over to the rest of the program.
LEMMA PopBackEffect ==
  ASSUME NEW v, NEW h, NEW R, Holds(v, h, R), Len(v.items) # 0
  PROVE  /\ back(v) \in Blocks /\ back(v) \notin R
         /\ Holds(pop_back(v), h, R \cup {back(v)})
         /\ Len(pop_back(v).items) = Len(v.items) - 1
         /\ pop_back(v).m_capacity = v.m_capacity
<1> DEFINE s == v.items
           t == SubSeq(s, 1, Len(s) - 1)
           x == s[Len(s)]
           w == [v EXCEPT !.items = t]
<1>1. /\ v \in Vectors /\ s \in Seq(Blocks) /\ Len(s) \in Nat /\ v.m_capacity \in Nat
      /\ IsInjective(s) /\ v.m_buf \notin Range(s) /\ Len(s) <= v.m_capacity
  BY DEF Holds, IsVector, Vectors
<1>2. /\ t \in Seq(Blocks) /\ Len(t) = Len(s) - 1 /\ IsInjective(t)
      /\ x \in Range(s) /\ Range(t) = Range(s) \ {x}
  <2> HIDE DEF s, t, x
  <2>1. Len(s) # 0 /\ t = SubSeq(s, 1, Len(s) - 1) /\ x = s[Len(s)]
    BY Zenon DEF s, t, x
  <2>2. QED
    BY <1>1, <2>1, PopEffect, Zenon
<1>3. back(v) = x /\ pop_back(v) = w
  <2>1. s # <<>>
    BY <1>1, EmptySequence, Zenon
  <2>2. QED
    BY <2>1 DEF back, pop_back
<1> HIDE DEF x, t
<1>4. /\ w \in Vectors /\ w.items = t /\ w.m_buf = v.m_buf /\ w.m_capacity = v.m_capacity
  BY <1>1, <1>2 DEF Vectors
<1> HIDE DEF w
<1>5. x \in Blocks
  BY <1>1, <1>2 DEF Range
<1>6. /\ R \cap Own(v) = {} /\ h.live = R \cup Own(v) /\ Clean(h)
      /\ Own(v) = Range(s) \cup ({v.m_buf} \ {NULL})
  BY Zenon DEF Holds, Own
<1>7. Own(w) = Range(t) \cup ({v.m_buf} \ {NULL})
  BY <1>4, Zenon DEF Own
<1>8. x # v.m_buf
  BY <1>1, <1>2, Zenon
<1>9. x \notin R
  BY <1>2, <1>6, Zenon
<1> HIDE DEF s
<1>10. (R \cup {x}) \cap Own(w) = {} /\ h.live = (R \cup {x}) \cup Own(w)
  BY <1>2, <1>6, <1>7, <1>8
<1>11. IsVector(w)
  <2>1. Len(t) <= w.m_capacity
    BY <1>1, <1>2, <1>4
  <2>2. QED
    BY <1>1, <1>2, <1>4, <2>1, Zenon DEF IsVector
<1>12. Holds(w, h, R \cup {x})
  BY <1>6, <1>10, <1>11, Zenon DEF Holds
<1>13. QED
  BY <1>2, <1>3, <1>4, <1>5, <1>9, <1>12, Zenon DEF s

\* What get leads to: an object that was nobody's, or none and nothing changed
\* but for what got lost.  Objects at hand are given out without an allocation.
Got(v, R, r) ==
  /\ r \in Works /\ r.lost \cap R = {} /\ r.v.m_capacity >= v.m_capacity
  /\ r.rval = NULL => Holds(r.v, r.h, R \cup r.lost)
  /\ r.rval # NULL => /\ r.rval \notin R \cup r.lost
                      /\ Holds(r.v, r.h, (R \cup r.lost) \cup {r.rval})
  /\ Len(v.items) # 0 => /\ r.rval # NULL /\ r.lost = {}
                         /\ Len(r.v.items) = Len(v.items) - 1

\* The assignments of get when there is an object.
HandOut(q, w, x) == [q EXCEPT !.v = w, !.rval = x]

\* get returns an object that nobody else has.
LEMMA GetEffect ==
  ASSUME NEW v, NEW h, NEW R, Holds(v, h, R), NEW e \in Nat
  PROVE  Got(v, R, Get(v, h, e))
<1> DEFINE q == IF v.items = <<>> THEN AddToPool(v, h, e) ELSE Start(v, h)
           r == Get(v, h, e)
           w == pop_back(q.v)
           x == back(q.v)
<1>1. /\ v \in Vectors /\ v.items \in Seq(Blocks) /\ Len(v.items) \in Nat
      /\ v.m_capacity \in Nat /\ h \in HeapRecords
  BY DEF Holds, IsVector, Vectors, Clean
<1>2. /\ q \in Works /\ q.rval = NULL /\ q.lost \cap R = {} /\ Holds(q.v, q.h, R \cup q.lost)
      /\ q.v.m_capacity >= v.m_capacity
      /\ v.items = <<>> => Len(q.v.items) = q.added
      /\ v.items # <<>> => q.v.items = v.items /\ q.lost = {}
  <2>1. CASE v.items = <<>>
    <3>1. q = AddToPool(v, h, e)
      BY <2>1, Zenon
    <3>2. Filled(Len(v.items), v.m_capacity, R, e, q)
      BY <3>1, AddEffect, Zenon
    <3> HIDE DEF q
    <3>3. Len(v.items) = 0 /\ q.added \in Nat
      BY <1>1, <2>1, <3>2 DEF Filled, Works
    <3>4. 0 + q.added = q.added
      BY <3>3
    <3>5. QED
      BY <2>1, <3>2, <3>3, <3>4, Zenon DEF Filled
  <2>2. CASE v.items # <<>>
    <3>1. q = Start(v, h)
      BY <2>2, Zenon
    <3> HIDE DEF q
    <3>2. q \in Works /\ q.v = v /\ q.h = h /\ q.lost = {} /\ q.rval = NULL
      BY <1>1, <3>1 DEF Start, Works
    <3>3. R \cup {} = R /\ {} \cap R = {} /\ v.m_capacity >= v.m_capacity
      BY <1>1
    <3>4. QED
      BY <2>2, <3>2, <3>3, Zenon
  <2>3. QED
    BY <2>1, <2>2, Zenon
<1>3. r = IF v.items = <<>> /\ q.added < 1 THEN q ELSE HandOut(q, w, x)
  BY DEF Get, HandOut
<1> HIDE DEF q, r
<1>4. q.v \in Vectors /\ q.added \in Nat /\ q.v.m_capacity \in Nat /\ Len(q.v.items) \in Nat
  BY <1>2 DEF Works, Vectors
<1>5. CASE v.items = <<>> /\ q.added < 1
  <2>1. r = q /\ ~(Len(v.items) # 0)
    BY <1>1, <1>3, <1>5, EmptySequence, Zenon
  <2>2. QED
    BY <1>2, <2>1, Zenon DEF Got, r
<1>6. CASE ~(v.items = <<>> /\ q.added < 1)
  <2>1. r = HandOut(q, w, x)
    BY <1>3, <1>6, Zenon
  <2>2. Len(q.v.items) # 0
    <3>1. CASE v.items = <<>>
      BY <1>2, <1>4, <1>6, <3>1
    <3>2. CASE v.items # <<>>
      BY <1>1, <1>2, <3>2, EmptySequence, Zenon
    <3>3. QED
      BY <3>1, <3>2, Zenon
  <2>3. /\ x \in Blocks /\ x \notin R \cup q.lost
        /\ Holds(w, q.h, (R \cup q.lost) \cup {x})
        /\ Len(w.items) = Len(q.v.items) - 1 /\ w.m_capacity = q.v.m_capacity
    BY <1>2, <2>2, PopBackEffect, Zenon
  <2> HIDE DEF w, x
  <2>4. w \in Vectors
    BY <2>3, Zenon DEF Holds, IsVector
  <2>5. r \in Works /\ r.v = w /\ r.h = q.h /\ r.lost = q.lost /\ r.rval = x
    BY <1>2, <2>1, <2>3, <2>4 DEF HandOut, Works
  <2>6. x # NULL
    BY <2>3, VectorConstants, Zenon
  <2>7. Len(v.items) # 0 => q.lost = {} /\ Len(w.items) = Len(v.items) - 1
    BY <1>1, <1>2, <2>3, EmptySequence, Zenon
  <2>8. Got(v, R, r)
    BY <1>2, <2>3, <2>5, <2>6, <2>7, Zenon DEF Got
  <2>9. QED
    BY <2>8, Zenon DEF r
<1>7. QED
  BY <1>5, <1>6, Zenon

\* What put of in leads to: it is in the vector, or lost for lack of memory.
GaveBack(v, R, in, r) ==
  /\ r \in Works /\ r.rval = NULL /\ r.lost \subseteq {in}
  /\ r.v.m_capacity >= v.m_capacity /\ Holds(r.v, r.h, (R \ {in}) \cup r.lost)
  /\ Len(v.items) < v.m_capacity => /\ r.lost = {}
                                    /\ Len(r.v.items) = Len(v.items) + 1

\* put takes an object that was somewhere in the rest of the program.
LEMMA PutEffect ==
  ASSUME NEW v, NEW h, NEW R, Holds(v, h, R), NEW in \in R
  PROVE  GaveBack(v, R, in, Put(v, h, in))
<1> DEFINE b == push_back(v, h, in)
           s == Start(b.v, b.h)
           r == Put(v, h, in)
<1>1. Pushed(v, in, R, b)
  BY PushBackEffect, Zenon
<1>2. /\ in \in Blocks /\ in # NULL /\ v.items \in Seq(Blocks)
  BY VectorConstants DEF Holds, Clean, HeapRecords, IsVector, Vectors
<1>3. r = IF b.ok THEN s ELSE [s EXCEPT !.lost = {in}]
  BY <1>2 DEF Put
<1> HIDE DEF b, r
<1>4. b.v \in Vectors /\ b.h \in HeapRecords
  BY <1>1, Zenon DEF Pushed, Holds, IsVector, Clean
<1>5. s \in Works /\ s.v = b.v /\ s.h = b.h /\ s.lost = {} /\ s.rval = NULL
  BY <1>4 DEF Start, Works
<1> HIDE DEF s
<1>6. CASE b.ok
  <2>1. r = s
    BY <1>3, <1>6, Zenon
  <2>2. /\ Holds(b.v, b.h, R \ {in}) /\ b.v.m_capacity >= v.m_capacity
        /\ b.v.items = Append(v.items, in)
    BY <1>1, <1>6, Zenon DEF Pushed
  <2>3. (R \ {in}) \cup {} = R \ {in} /\ {} \subseteq {in}
    BY Zenon
  <2>4. Len(b.v.items) = Len(v.items) + 1
    BY <1>2, <2>2
  <2>5. QED
    BY <1>5, <2>1, <2>2, <2>3, <2>4, Zenon DEF GaveBack, r
<1>7. CASE ~b.ok
  <2>1. r = [s EXCEPT !.lost = {in}]
    BY <1>3, <1>7, Zenon
  <2>2. /\ Holds(b.v, b.h, R) /\ b.v.m_capacity >= v.m_capacity
        /\ ~(Len(v.items) < v.m_capacity)
    BY <1>1, <1>7, Zenon DEF Pushed
  <2>3. (R \ {in}) \cup {in} = R /\ {in} \subseteq {in}
    BY Zenon
  <2>4. r \in Works /\ r.v = b.v /\ r.h = b.h /\ r.lost = {in} /\ r.rval = NULL
    BY <1>2, <1>5, <2>1 DEF Works
  <2>5. QED
    BY <2>2, <2>3, <2>4, Zenon DEF GaveBack, r
<1>8. QED
  BY <1>6, <1>7, Zenon

\* The heap after the first i objects of s have been deallocated.
Freed(h, s, i) == [h EXCEPT !.live = h.live \ {s[j] : j \in 1 .. i}]

\* The loop of ~object_pool frees the objects at hand, each of them once.
LEMMA FreeingEffect ==
  ASSUME NEW h, Clean(h), NEW s \in Seq(Blocks), IsInjective(s),
         Range(s) \subseteq h.live
  PROVE  /\ Clean(Freeing(s, h)[Len(s)])
         /\ Freeing(s, h)[Len(s)].live = h.live \ Range(s)
<1> DEFINE n == Len(s)
           Is(f) == f = [i \in 0 .. n |-> IF i = 0 THEN h
                                          ELSE deallocate(f[i - 1], s[i])]
           w == [i \in 0 .. n |-> Freed(h, s, i)]
           g == Freeing(s, h)
<1>1. /\ n \in Nat /\ DOMAIN s = 1 .. n /\ h \in HeapRecords /\ h.live \subseteq Blocks
      /\ \A i \in 1 .. n : s[i] \in Blocks /\ s[i] # NULL
  BY VectorConstants DEF Clean, HeapRecords
<1>2. \A i \in 0 .. n : /\ Freed(h, s, i) \in HeapRecords /\ ~Freed(h, s, i).misfreed
                        /\ Freed(h, s, i).live = h.live \ {s[j] : j \in 1 .. i}
  BY <1>1 DEF Freed, HeapRecords, Clean
<1>3. Freed(h, s, 0) = h
  <2>1. {s[j] : j \in 1 .. 0} = {}
    OBVIOUS
  <2>2. h.live \ {} = h.live
    BY Zenon
  <2>3. Freed(h, s, 0) = [h EXCEPT !.live = h.live]
    BY <2>1, <2>2, Zenon DEF Freed
  <2>4. QED
    BY <1>1, <2>3 DEF HeapRecords
<1>4. ASSUME NEW i \in 1 .. n
      PROVE  deallocate(Freed(h, s, i - 1), s[i]) = Freed(h, s, i)
  <2> DEFINE a == Freed(h, s, i - 1)
             L == h.live \ {s[j] : j \in 1 .. (i - 1)}
             M == h.live \ {s[j] : j \in 1 .. i}
  <2>1. i - 1 \in 0 .. n /\ i \in 1 .. i
    BY <1>1
  <2>2. a \in HeapRecords /\ ~a.misfreed /\ a.live = L
    BY <1>2, <2>1, Zenon
  <2>3. s[i] \in L
    <3>1. s[i] \in h.live
      BY <1>1, Zenon DEF Range
    <3>2. \A j \in 1 .. (i - 1) : j \in 1 .. n /\ j # i
      BY <1>1
    <3>3. \A j \in 1 .. (i - 1) : s[j] # s[i]
      BY <1>1, <3>2, Zenon DEF IsInjective
    <3>4. QED
      BY <3>1, <3>3, Zenon
  <2>4. L \ {s[i]} = M
    <3>1. \A j \in 1 .. i : j = i \/ j \in 1 .. (i - 1)
      OBVIOUS
    <3>2. \A j \in 1 .. (i - 1) : j \in 1 .. i
      OBVIOUS
    <3>3. QED
      BY <2>1, <3>1, <3>2, Zenon
  <2>5. a = [h EXCEPT !.live = L]
    BY Zenon DEF Freed
  <2>6. deallocate(a, s[i]) = [a EXCEPT !.live = a.live \ {s[i]},
                                        !.misfreed = a.misfreed \/ s[i] \notin a.live]
    BY <1>1, Zenon DEF deallocate
  <2> HIDE DEF a, L, M
  <2>7. deallocate(a, s[i]) = [a EXCEPT !.live = M, !.misfreed = FALSE]
    BY <2>2, <2>3, <2>4, <2>6, Zenon
  <2>8. [a EXCEPT !.live = M, !.misfreed = FALSE] = [h EXCEPT !.live = M]
    BY <1>1, <2>2, <2>5 DEF HeapRecords, Clean
  <2>9. QED
    BY <2>7, <2>8, Zenon DEF Freed, a, M
<1> HIDE DEF n
<1>5. Is(w)
  <2>1. ASSUME NEW i \in 0 .. n
        PROVE  Freed(h, s, i) = IF i = 0 THEN h ELSE deallocate(w[i - 1], s[i])
    <3>1. CASE i = 0
      BY <1>3, <3>1, Zenon
    <3>2. CASE i # 0
      <4>1. i \in 1 .. n /\ i - 1 \in 0 .. n
        BY <1>1, <3>2
      <4>2. w[i - 1] = Freed(h, s, i - 1)
        BY <4>1, Zenon
      <4>3. QED
        BY <1>4, <3>2, <4>1, <4>2, Zenon
    <3>3. QED
      BY <3>1, <3>2, Zenon
  <2>2. QED
    BY <2>1, Zenon
<1>6. g = CHOOSE f : Is(f)
  BY Zenon DEF Freeing, n
<1>7. Is(g)
  BY <1>5, <1>6, Zenon
<1> DEFINE T == {i \in 0 .. n : g[i] # Freed(h, s, i)}
<1>8. \A i \in 0 .. n : g[i] = IF i = 0 THEN h ELSE deallocate(g[i - 1], s[i])
  <2> HIDE DEF g
  <2>1. QED
    BY <1>7, Zenon
<1> HIDE DEF g, Is
<1>9. T = {}
  <2>1. SUFFICES ASSUME T # {} PROVE FALSE
    BY Zenon
  <2>2. T \subseteq Nat
    BY <1>1
  <2>3. PICK x \in T : \A y \in T : x <= y
    BY <2>1, <2>2, LeastElement, Zenon
  <2>4. x \in 0 .. n /\ g[x] # Freed(h, s, x)
    BY <2>3, Zenon
  <2>5. x # 0
    BY <1>3, <1>8, <2>4, Zenon
  <2>6. x \in 1 .. n /\ x - 1 \in 0 .. n /\ ~(x <= x - 1)
    BY <1>1, <2>4, <2>5
  <2>7. g[x - 1] = Freed(h, s, x - 1)
    BY <2>3, <2>6, Zenon
  <2>8. QED
    BY <1>4, <1>8, <2>4, <2>5, <2>6, <2>7, Zenon
<1>10. n \in 0 .. n
  BY <1>1
<1>11. {s[j] : j \in 1 .. n} = Range(s)
  BY <1>1, Zenon DEF Range
<1>12. Clean(g[n]) /\ g[n].live = h.live \ Range(s)
  BY <1>2, <1>9, <1>10, <1>11, Zenon DEF Clean
<1>13. QED
  BY <1>12, Zenon DEF g, n

\* The vector gives its buffer back, not what its elements point to.
LEMMA DestroyVectorEffect ==
  ASSUME NEW v \in Vectors, NEW h, Clean(h), v.m_buf = NULL \/ v.m_buf \in h.live
  PROVE  /\ Clean(destroy_vector(v, h))
         /\ destroy_vector(v, h).live = h.live \ {v.m_buf}
<1>1. CASE v.m_buf = NULL
  <2>1. destroy_vector(v, h) = h
    BY <1>1, Zenon DEF destroy_vector, deallocate
  <2>2. v.m_buf \notin h.live
    BY <1>1, VectorConstants DEF Clean, HeapRecords
  <2>3. QED
    BY <2>1, <2>2, Zenon
<1>2. CASE v.m_buf # NULL
  BY <1>2, DeallocateEffect, Zenon DEF destroy_vector
<1>3. QED
  BY <1>1, <1>2, Zenon

\* ~object_pool frees exactly what the pool owns.
LEMMA DestroyPoolEffect ==
  ASSUME NEW v, NEW h, NEW R, Holds(v, h, R)
  PROVE  Clean(destroy_pool(v, h)) /\ destroy_pool(v, h).live = R
<1> DEFINE g == Freeing(v.items, h)[Len(v.items)]
<1>1. /\ v \in Vectors /\ v.items \in Seq(Blocks) /\ IsInjective(v.items)
      /\ v.m_buf \notin Range(v.items) /\ Clean(h) /\ R \cap Own(v) = {}
      /\ h.live = R \cup Own(v) /\ Own(v) = Range(v.items) \cup ({v.m_buf} \ {NULL})
      /\ NULL \notin h.live
  BY VectorConstants DEF Holds, IsVector, Vectors, Own, Clean, HeapRecords
<1>2. Range(v.items) \subseteq h.live
  BY <1>1, Zenon
<1>3. Clean(g) /\ g.live = h.live \ Range(v.items)
  BY <1>1, <1>2, FreeingEffect, Zenon
<1>4. destroy_pool(v, h) = destroy_vector(v, g)
  BY Zenon DEF destroy_pool
<1> HIDE DEF g
<1>5. v.m_buf = NULL \/ v.m_buf \in g.live
  BY <1>1, <1>3, Zenon
<1>6. /\ Clean(destroy_vector(v, g)) /\ destroy_vector(v, g).live = g.live \ {v.m_buf}
  BY <1>1, <1>3, <1>5, DestroyVectorEffect, Zenon
<1>7. g.live \ {v.m_buf} = R
  BY <1>1, <1>3
<1>8. QED
  BY <1>4, <1>6, <1>7, Zenon

-----------------------------------------------------------------------------
(* rtl::object_pool: who has which block. *)

\* The blocks of the pool p, the pools being pl, and those of the other ones.
OwnIn(pl, p) == IF pl[p] = NULL THEN {} ELSE Own(pl[p].m_vector)
OthersIn(pl, p) == UNION {OwnIn(pl, q) : q \in Pools \ {p}}

PoolsOK(pl) ==
  /\ pl \in [Pools -> ObjectPools \cup {NULL}]
  /\ \A p \in Pools : pl[p] # NULL => IsVector(pl[p].m_vector)

\* Every Obj has an object of its own, and its pool is there.
AutosOK(pl, at) ==
  /\ at \subseteq Pools \X Blocks
  /\ \A o, a \in at : o[2] = a[2] => o = a
  /\ \A o \in at : pl[o[1]] # NULL

ObjectsOf(at) == {o[2] : o \in at}

\* The blocks lv that are allocated belong to the client, to the Obj, to nobody
\* or to one of the pools.
Shared(pl, hd, ob, dr, lv) ==
  /\ hd \cap ob = {} /\ hd \cap dr = {} /\ ob \cap dr = {}
  /\ \A p \in Pools : OwnIn(pl, p) \cap (hd \cup ob \cup dr) = {}
  /\ \A p, q \in Pools : p # q => OwnIn(pl, p) \cap OwnIn(pl, q) = {}
  /\ lv = hd \cup ob \cup dr \cup UNION {OwnIn(pl, p) : p \in Pools}

PoolInv ==
  /\ PoolsOK(pool) /\ AutosOK(pool, autos)
  /\ live \subseteq Blocks /\ misfreed = FALSE
  /\ Shared(pool, held, ObjectsOf(autos), dropped, live)

\* The same seen from one pool: a, b and c are the parts outside the pools, d
\* is what the other pools have and e what this one has.
Five(a, b, c, d, e, lv) ==
  /\ a \cap b = {} /\ a \cap c = {} /\ a \cap d = {} /\ a \cap e = {}
  /\ b \cap c = {} /\ b \cap d = {} /\ b \cap e = {}
  /\ c \cap d = {} /\ c \cap e = {} /\ d \cap e = {}
  /\ lv = a \cup b \cup c \cup d \cup e

\* What Shared says about one of the pools.
LEMMA SeenFromOne ==
  ASSUME NEW pl, NEW hd, NEW ob, NEW dr, NEW lv, Shared(pl, hd, ob, dr, lv),
         NEW p \in Pools
  PROVE  Five(hd, ob, dr, OthersIn(pl, p), OwnIn(pl, p), lv)
<1>1. UNION {OwnIn(pl, q) : q \in Pools} = OthersIn(pl, p) \cup OwnIn(pl, p)
  BY Zenon DEF OthersIn
<1>2. OthersIn(pl, p) \cap OwnIn(pl, p) = {}
  BY Zenon DEF OthersIn, Shared
<1>3. OthersIn(pl, p) \cap (hd \cup ob \cup dr) = {}
  BY Zenon DEF OthersIn, Shared
<1>4. /\ hd \cap ob = {} /\ hd \cap dr = {} /\ ob \cap dr = {}
      /\ OwnIn(pl, p) \cap (hd \cup ob \cup dr) = {}
      /\ lv = hd \cup ob \cup dr \cup (OthersIn(pl, p) \cup OwnIn(pl, p))
  BY <1>1, Zenon DEF Shared
<1> HIDE DEF OthersIn, OwnIn
<1>5. QED
  BY <1>2, <1>3, <1>4 DEF Five

\* A step that changes what one pool has.
LEMMA OneChanged ==
  ASSUME NEW pl, NEW hd, NEW ob, NEW dr, NEW lv, Shared(pl, hd, ob, dr, lv),
         NEW p \in Pools, NEW pl2, NEW hd2, NEW ob2, NEW dr2, NEW lv2,
         \A q \in Pools \ {p} : OwnIn(pl2, q) = OwnIn(pl, q),
         Five(hd2, ob2, dr2, OthersIn(pl, p), OwnIn(pl2, p), lv2)
  PROVE  Shared(pl2, hd2, ob2, dr2, lv2)
<1>1. \A q \in Pools \ {p} : OwnIn(pl2, q) \subseteq OthersIn(pl, p)
  BY Zenon DEF OthersIn
<1>2. UNION {OwnIn(pl2, q) : q \in Pools} = OthersIn(pl, p) \cup OwnIn(pl2, p)
  BY Zenon DEF OthersIn
<1>3. \A q, r \in Pools : q # r => OwnIn(pl2, q) \cap OwnIn(pl2, r) = {}
  <2>1. ASSUME NEW q \in Pools, NEW r \in Pools, q # r
        PROVE  OwnIn(pl2, q) \cap OwnIn(pl2, r) = {}
    <3>1. CASE q = p
      BY <1>1, <2>1, <3>1, Zenon DEF Five
    <3>2. CASE r = p
      BY <1>1, <2>1, <3>2, Zenon DEF Five
    <3>3. CASE q # p /\ r # p
      BY <2>1, <3>3, Zenon DEF Shared
    <3>4. QED
      BY <3>1, <3>2, <3>3, Zenon
  <2>2. QED
    BY <2>1, Zenon
<1> HIDE DEF OwnIn, OthersIn
<1>4. \A q \in Pools : OwnIn(pl2, q) \cap (hd2 \cup ob2 \cup dr2) = {}
  <2>1. ASSUME NEW q \in Pools PROVE OwnIn(pl2, q) \cap (hd2 \cup ob2 \cup dr2) = {}
    <3>1. CASE q = p
      BY <3>1 DEF Five
    <3>2. CASE q # p
      <4>1. OwnIn(pl2, q) \subseteq OthersIn(pl, p)
        BY <1>1, <3>2, Zenon
      <4>2. QED
        BY <4>1 DEF Five
    <3>3. QED
      BY <3>1, <3>2, Zenon
  <2>2. QED
    BY <2>1, Zenon
<1>5. hd2 \cap ob2 = {} /\ hd2 \cap dr2 = {} /\ ob2 \cap dr2 = {}
  BY Zenon DEF Five
<1>6. lv2 = hd2 \cup ob2 \cup dr2 \cup UNION {OwnIn(pl2, q) : q \in Pools}
  <2>1. lv2 = hd2 \cup ob2 \cup dr2 \cup (OthersIn(pl, p) \cup OwnIn(pl2, p))
    BY DEF Five
  <2>2. QED
    BY <1>2, <2>1, Zenon
<1>7. QED
  BY <1>3, <1>4, <1>5, <1>6, Zenon DEF Shared

\* A pool that has nothing takes over what another one has.
LEMMA TakenOver ==
  ASSUME NEW pl, NEW hd, NEW ob, NEW dr, NEW lv, Shared(pl, hd, ob, dr, lv),
         NEW p \in Pools, NEW o \in Pools, p # o, OwnIn(pl, p) = {}, NEW pl2,
         OwnIn(pl2, p) = OwnIn(pl, o), OwnIn(pl2, o) = {},
         \A q \in Pools \ {p, o} : OwnIn(pl2, q) = OwnIn(pl, q)
  PROVE  Shared(pl2, hd, ob, dr, lv)
<1> HIDE DEF OwnIn
<1>1. UNION {OwnIn(pl2, q) : q \in Pools} = UNION {OwnIn(pl, q) : q \in Pools}
  <2>1. ASSUME NEW x \in UNION {OwnIn(pl2, q) : q \in Pools}
        PROVE  x \in UNION {OwnIn(pl, q) : q \in Pools}
    BY Zenon
  <2>2. ASSUME NEW x \in UNION {OwnIn(pl, q) : q \in Pools}
        PROVE  x \in UNION {OwnIn(pl2, q) : q \in Pools}
    BY Zenon
  <2>3. QED
    BY <2>1, <2>2, Zenon
<1>2. \A q \in Pools : OwnIn(pl2, q) \cap (hd \cup ob \cup dr) = {}
  BY Zenon DEF Shared
<1>3. \A q, r \in Pools : q # r => OwnIn(pl2, q) \cap OwnIn(pl2, r) = {}
  <2>1. ASSUME NEW q \in Pools, NEW r \in Pools, q # r
        PROVE  OwnIn(pl2, q) \cap OwnIn(pl2, r) = {}
    BY <2>1, Zenon DEF Shared
  <2>2. QED
    BY <2>1, Zenon
<1>4. QED
  BY <1>1, <1>2, <1>3, Zenon DEF Shared

\* At the beginning of a call on p: the other blocks are the rest.
LEMMA PoolBegins ==
  ASSUME PoolInv, NEW p \in Pools, pool[p] # NULL, NEW h \in Heaps
  PROVE  /\ Holds(pool[p].m_vector, h, live \ OwnIn(pool, p))
         /\ OwnIn(pool, p) = Own(pool[p].m_vector)
         /\ pool[p] \in ObjectPools /\ pool[p].m_vector \in Vectors
<1>1. PICK fails \in SUBSET Failures : h = Heap(live, misfreed, fails)
  BY Zenon DEF Heaps
<1>2. live \in SUBSET Blocks /\ misfreed = FALSE
  BY Zenon DEF PoolInv
<1>3. h \in HeapRecords /\ h.live = live /\ h.misfreed = FALSE
  BY <1>1, <1>2 DEF Heap, HeapRecords
<1>4. OwnIn(pool, p) = Own(pool[p].m_vector)
  BY Zenon DEF OwnIn
<1>5. OwnIn(pool, p) \subseteq live
  BY Zenon DEF PoolInv, Shared
<1>6. (live \ OwnIn(pool, p)) \cap OwnIn(pool, p) = {}
  BY Zenon
<1>7. live = (live \ OwnIn(pool, p)) \cup OwnIn(pool, p)
  BY <1>5, Zenon
<1>8. IsVector(pool[p].m_vector) /\ pool[p] \in ObjectPools
  BY Zenon DEF PoolInv, PoolsOK
<1>9. QED
  BY <1>3, <1>4, <1>6, <1>7, <1>8, Zenon DEF Holds, Clean, IsVector

\* A pool with a vector of pointers comes into a place, or stays there with
\* another one.
LEMMA SetPool ==
  ASSUME NEW pl, PoolsOK(pl), NEW p \in Pools,
         NEW pl2 \in [Pools -> ObjectPools \cup {NULL}],
         pl2[p] # NULL, IsVector(pl2[p].m_vector),
         \A q \in Pools \ {p} : pl2[q] = pl[q]
  PROVE  /\ PoolsOK(pl2)
         /\ \A q \in Pools \ {p} : OwnIn(pl2, q) = OwnIn(pl, q)
         /\ \A q \in Pools : pl[q] # NULL => pl2[q] # NULL
  BY Zenon DEF PoolsOK, OwnIn

\* The assignments of an operation of a pool and of a move.
WithVector(pl, p, v) == [pl EXCEPT ![p].m_vector = v]
WithMove(pl, p, o) == [pl EXCEPT ![p] = pl[o], ![o] = MovedFromPool(@)]

\* What they lead to.
HasVector(pl, p, v, pl2) ==
  /\ PoolsOK(pl2) /\ OwnIn(pl2, p) = Own(v)
  /\ \A q \in Pools \ {p} : OwnIn(pl2, q) = OwnIn(pl, q)
  /\ \A q \in Pools : pl[q] # NULL => pl2[q] # NULL
HasMoved(pl, p, o, pl2) ==
  /\ PoolsOK(pl2) /\ OwnIn(pl2, p) = OwnIn(pl, o) /\ OwnIn(pl2, o) = {}
  /\ \A q \in Pools \ {p, o} : OwnIn(pl2, q) = OwnIn(pl, q)
  /\ \A q \in Pools : pl[q] # NULL => pl2[q] # NULL

\* The same for an assignment to the vector only.
LEMMA SetVector ==
  ASSUME NEW pl, PoolsOK(pl), NEW p \in Pools, pl[p] # NULL, NEW v, IsVector(v)
  PROVE  HasVector(pl, p, v, WithVector(pl, p, v))
<1> DEFINE o == [pl[p] EXCEPT !.m_vector = v]
           pl2 == WithVector(pl, p, v)
<1>1. pl \in [Pools -> ObjectPools \cup {NULL}] /\ pl[p] \in ObjectPools
  BY Zenon DEF PoolsOK
<1>2. v \in Vectors
  BY Zenon DEF IsVector
<1>3. o \in ObjectPools /\ o.m_vector = v
  BY <1>1, <1>2 DEF ObjectPools
<1>4. pl2 = [pl EXCEPT ![p] = o]
  BY DEF WithVector
<1> HIDE DEF o, pl2
<1>5. /\ pl2 \in [Pools -> ObjectPools \cup {NULL}]
      /\ pl2[p] = o /\ \A q \in Pools \ {p} : pl2[q] = pl[q]
  BY <1>1, <1>3, <1>4
<1>6. pl2[p] # NULL /\ IsVector(pl2[p].m_vector)
  BY <1>3, <1>5, PoolConstants, Zenon
<1>7. /\ PoolsOK(pl2)
      /\ \A q \in Pools \ {p} : OwnIn(pl2, q) = OwnIn(pl, q)
      /\ \A q \in Pools : pl[q] # NULL => pl2[q] # NULL
  <2>1. PoolsOK(pl2)
    BY <1>5, <1>6, Zenon DEF PoolsOK
  <2>2. QED
    BY <1>5, <1>6, <2>1, Zenon DEF OwnIn
<1>8. OwnIn(pl2, p) = Own(v)
  BY <1>3, <1>5, <1>6 DEF OwnIn
<1>9. QED
  BY <1>7, <1>8, Zenon DEF pl2, HasVector

\* A vector that was just constructed has nothing.
LEMMA EmptyVector ==
  /\ IsVector(vector) /\ Own(vector) = {} /\ Len(vector.items) = 0
  /\ vector.m_capacity = 0
<1>1. vector \in Vectors /\ vector.items = <<>> /\ vector.m_buf = NULL /\ vector.m_capacity = 0
  BY DEF vector, Vectors
<1>2. Range(<<>>) = {} /\ IsInjective(<<>>) /\ Len(<<>>) = 0
  BY DEF Range, IsInjective
<1>3. QED
  BY <1>1, <1>2 DEF IsVector, Own

\* The Obj keep their pools as long as no pool goes away.
LEMMA AutosStay ==
  ASSUME NEW pl, NEW at, AutosOK(pl, at), NEW pl2,
         \A q \in Pools : pl[q] # NULL => pl2[q] # NULL
  PROVE  AutosOK(pl2, at)
<1>1. \A o \in at : o[1] \in Pools
  BY DEF AutosOK
<1>2. QED
  BY <1>1, Zenon DEF AutosOK

\* The heap at the beginning of a call, without a pool.
LEMMA HeapsClean ==
  ASSUME live \subseteq Blocks, misfreed = FALSE, NEW h \in Heaps
  PROVE  Clean(h) /\ h.live = live
<1>1. PICK fails \in SUBSET Failures : h = Heap(live, misfreed, fails)
  BY Zenon DEF Heaps
<1>2. live \in SUBSET Blocks
  BY Zenon
<1>3. h \in HeapRecords /\ h.live = live /\ h.misfreed = FALSE
  BY <1>1, <1>2 DEF Heap, HeapRecords
<1>4. QED
  BY <1>3, Zenon DEF Clean

\* The constructor.
LEMMA ConstructPool ==
  ASSUME PoolInv, NEW p \in Pools, NEW num \in Amounts, NEW e \in Elasticities,
         object_pool(p, num, e)
  PROVE  PoolInv'
<1>1. PICK h \in Heaps :
        LET r == AddToPool(vector, h, num)
        IN  /\ pool' = [pool EXCEPT ![p] =
                 [m_vector |-> r.v, m_alloc |-> TRUE,
                  m_elasticity |-> IF e < 1 THEN 1 ELSE e]]
            /\ live' = r.h.live /\ misfreed' = r.h.misfreed
            /\ dropped' = dropped \cup r.lost
  BY Zenon DEF object_pool
<1> DEFINE r == AddToPool(vector, h, num)
           o == [m_vector |-> r.v, m_alloc |-> TRUE,
                 m_elasticity |-> IF e < 1 THEN 1 ELSE e]
<1>2. /\ pool[p] = NULL /\ held' = held /\ autos' = autos /\ pool' = [pool EXCEPT ![p] = o]
      /\ live' = r.h.live /\ misfreed' = r.h.misfreed /\ dropped' = dropped \cup r.lost
  BY <1>1, Zenon DEF object_pool
<1>3. Holds(vector, h, live)
  <2>1. Clean(h) /\ h.live = live
    BY HeapsClean, Zenon DEF PoolInv
  <2>2. live \cap {} = {} /\ live = live \cup {}
    BY Zenon
  <2>3. QED
    BY <2>1, <2>2, EmptyVector, Zenon DEF Holds
<1>4. num \in Nat /\ e \in Nat
  BY PoolConstants
<1>5. Filled(Len(vector.items), vector.m_capacity, live, num, r)
  BY <1>3, <1>4, AddEffect, Zenon
<1> HIDE DEF r
<1>6. /\ r.v \in Vectors /\ IsVector(r.v) /\ r.lost \cap live = {} /\ Clean(r.h)
      /\ (live \cup r.lost) \cap Own(r.v) = {} /\ r.h.live = (live \cup r.lost) \cup Own(r.v)
  BY <1>5, Zenon DEF Filled, Holds, IsVector
<1>7. o \in ObjectPools /\ o.m_vector = r.v
  BY <1>4, <1>6 DEF ObjectPools
<1> HIDE DEF o
<1>8. /\ PoolsOK(pool') /\ OwnIn(pool', p) = Own(r.v)
      /\ \A q \in Pools \ {p} : OwnIn(pool', q) = OwnIn(pool, q)
      /\ \A q \in Pools : pool[q] # NULL => pool'[q] # NULL
  <2>1. PoolsOK(pool) /\ IsVector(o.m_vector)
    BY <1>6, <1>7, Zenon DEF PoolInv
  <2>2. pool \in [Pools -> ObjectPools \cup {NULL}]
    BY <2>1, Zenon DEF PoolsOK
  <2>3. /\ pool' \in [Pools -> ObjectPools \cup {NULL}]
        /\ pool'[p] = o /\ \A q \in Pools \ {p} : pool'[q] = pool[q]
    BY <1>2, <1>7, <2>2
  <2>4. pool'[p] # NULL /\ IsVector(pool'[p].m_vector)
    BY <1>7, <2>1, <2>3, PoolConstants, Zenon
  <2>5. /\ PoolsOK(pool')
        /\ \A q \in Pools \ {p} : OwnIn(pool', q) = OwnIn(pool, q)
        /\ \A q \in Pools : pool[q] # NULL => pool'[q] # NULL
    BY <2>1, <2>3, <2>4, SetPool
  <2>6. OwnIn(pool', p) = Own(r.v)
    BY <1>7, <2>3, <2>4 DEF OwnIn
  <2>7. QED
    BY <2>5, <2>6
<1>9. AutosOK(pool', autos)
  BY <1>8, AutosStay, Zenon DEF PoolInv
<1>10. Five(held, ObjectsOf(autos), dropped \cup r.lost, OthersIn(pool, p), Own(r.v), r.h.live)
  <2>1. Five(held, ObjectsOf(autos), dropped, OthersIn(pool, p), OwnIn(pool, p), live)
    BY SeenFromOne, Zenon DEF PoolInv
  <2>2. OwnIn(pool, p) = {}
    BY <1>2, Zenon DEF OwnIn
  <2> HIDE DEF OwnIn
  <2>3. QED
    BY <1>6, <2>1, <2>2 DEF Five
<1>11. Shared(pool', held, ObjectsOf(autos), dropped \cup r.lost, r.h.live)
  <2>1. Shared(pool, held, ObjectsOf(autos), dropped, live)
    BY Zenon DEF PoolInv
  <2>2. QED
    BY <1>8, <1>10, <2>1, OneChanged, Zenon
<1>12. r.h.live \subseteq Blocks /\ r.h.misfreed = FALSE
  BY <1>6 DEF Clean, HeapRecords
<1>13. QED
  BY <1>2, <1>8, <1>9, <1>11, <1>12, Zenon DEF PoolInv

\* The destructor.
LEMMA DestroyPool ==
  ASSUME PoolInv, NEW p \in Pools, destroy_object_pool(p)
  PROVE  PoolInv'
<1> DEFINE h == Heap(live, misfreed, {})
           g == destroy_pool(pool[p].m_vector, h)
<1>1. /\ pool[p] # NULL /\ (\A o \in autos : o[1] # p)
      /\ live' = g.live /\ misfreed' = g.misfreed /\ pool' = [pool EXCEPT ![p] = NULL]
      /\ held' = held /\ autos' = autos /\ dropped' = dropped
  BY Zenon DEF destroy_object_pool
<1>2. h \in Heaps
  BY Zenon DEF Heaps
<1> HIDE DEF h
<1>3. Holds(pool[p].m_vector, h, live \ OwnIn(pool, p))
  BY <1>1, <1>2, PoolBegins, Zenon
<1>4. Clean(g) /\ g.live = live \ OwnIn(pool, p)
  BY <1>3, DestroyPoolEffect, Zenon
<1> HIDE DEF g
<1>5. pool \in [Pools -> ObjectPools \cup {NULL}] /\ PoolsOK(pool)
  BY Zenon DEF PoolInv, PoolsOK
<1>6. /\ pool' \in [Pools -> ObjectPools \cup {NULL}] /\ pool'[p] = NULL
      /\ \A q \in Pools \ {p} : pool'[q] = pool[q]
  BY <1>1, <1>5
<1>7. PoolsOK(pool')
  BY <1>5, <1>6, Zenon DEF PoolsOK
<1>8. AutosOK(pool', autos)
  <2>1. AutosOK(pool, autos) /\ \A o \in autos : o[1] \in Pools
    BY DEF PoolInv, AutosOK
  <2>2. QED
    BY <1>1, <1>6, <2>1, Zenon DEF AutosOK
<1>9. OwnIn(pool', p) = {} /\ \A q \in Pools \ {p} : OwnIn(pool', q) = OwnIn(pool, q)
  BY <1>6, Zenon DEF OwnIn
<1>10. Five(held, ObjectsOf(autos), dropped, OthersIn(pool, p), {}, g.live)
  <2>1. Five(held, ObjectsOf(autos), dropped, OthersIn(pool, p), OwnIn(pool, p), live)
    BY SeenFromOne, Zenon DEF PoolInv
  <2>2. QED
    BY <1>4, <2>1 DEF Five
<1>11. Shared(pool', held, ObjectsOf(autos), dropped, g.live)
  <2>1. Shared(pool, held, ObjectsOf(autos), dropped, live)
    BY Zenon DEF PoolInv
  <2>2. QED
    BY <1>9, <1>10, <2>1, OneChanged, Zenon
<1>12. g.live \subseteq Blocks /\ g.misfreed = FALSE
  BY <1>4 DEF Clean, HeapRecords
<1>13. QED
  BY <1>1, <1>7, <1>8, <1>11, <1>12, Zenon DEF PoolInv

\* A pool that was moved from has nothing.
LEMMA LeftBehind ==
  ASSUME NEW o \in ObjectPools
  PROVE  MovedFromPool(o) \in ObjectPools /\ MovedFromPool(o).m_vector = vector
<1>1. vector \in Vectors
  BY EmptyVector, Zenon DEF IsVector
<1>2. QED
  BY <1>1 DEF MovedFromPool, ObjectPools

\* p takes over the pool of o: what becomes of the functions.
LEMMA MovePools ==
  ASSUME NEW pl, PoolsOK(pl), NEW p \in Pools, NEW o \in Pools, p # o, pl[o] # NULL
  PROVE  HasMoved(pl, p, o, WithMove(pl, p, o))
<1> DEFINE pl2 == WithMove(pl, p, o)
<1>1. pl \in [Pools -> ObjectPools \cup {NULL}] /\ pl[o] \in ObjectPools
  BY Zenon DEF PoolsOK
<1>2. MovedFromPool(pl[o]) \in ObjectPools /\ MovedFromPool(pl[o]).m_vector = vector
  BY <1>1, LeftBehind, Zenon
<1>3. MovedFromPool(pl[o]) # NULL
  BY <1>2, PoolConstants, Zenon
<1>4. /\ pl2 \in [Pools -> ObjectPools \cup {NULL}] /\ pl2[p] = pl[o]
      /\ pl2[o] = MovedFromPool(pl[o]) /\ \A q \in Pools \ {p, o} : pl2[q] = pl[q]
  BY <1>1, <1>2 DEF WithMove
<1> HIDE DEF pl2
<1>5. PoolsOK(pl2)
  BY <1>2, <1>4, EmptyVector DEF PoolsOK
<1>6. OwnIn(pl2, o) = {}
  BY <1>2, <1>3, <1>4, EmptyVector DEF OwnIn
<1>7. OwnIn(pl2, p) = OwnIn(pl, o)
  BY <1>4 DEF OwnIn
<1>8. \A q \in Pools \ {p, o} : OwnIn(pl2, q) = OwnIn(pl, q)
  BY <1>4 DEF OwnIn
<1>9. \A q \in Pools : pl[q] # NULL => pl2[q] # NULL
  BY <1>3, <1>4
<1>10. QED
  BY <1>5, <1>6, <1>7, <1>8, <1>9, Zenon DEF pl2, HasMoved

\* The move constructor.
LEMMA MoveConstructPool ==
  ASSUME PoolInv, NEW p \in Pools, NEW o \in Pools, pool_move_construct(p, o)
  PROVE  PoolInv'
<1>1. /\ pool[p] = NULL /\ pool[o] # NULL
      /\ pool' = WithMove(pool, p, o)
      /\ live' = live /\ misfreed' = misfreed /\ held' = held /\ autos' = autos
      /\ dropped' = dropped
  BY Zenon DEF pool_move_construct, UsablePool, WithMove
<1>2. p # o /\ PoolsOK(pool) /\ OwnIn(pool, p) = {}
  BY <1>1, Zenon DEF PoolInv, OwnIn
<1>3. /\ PoolsOK(pool') /\ OwnIn(pool', p) = OwnIn(pool, o) /\ OwnIn(pool', o) = {}
      /\ \A q \in Pools \ {p, o} : OwnIn(pool', q) = OwnIn(pool, q)
      /\ \A q \in Pools : pool[q] # NULL => pool'[q] # NULL
  <2>1. HasMoved(pool, p, o, pool')
    BY <1>1, <1>2, MovePools, Zenon
  <2>2. QED
    BY <2>1, Zenon DEF HasMoved
<1>4. AutosOK(pool', autos)
  BY <1>3, AutosStay, Zenon DEF PoolInv
<1>5. Shared(pool', held, ObjectsOf(autos), dropped, live)
  BY <1>2, <1>3, TakenOver, Zenon DEF PoolInv
<1>6. QED
  BY <1>1, <1>3, <1>4, <1>5, Zenon DEF PoolInv

\* The move assignment: the objects of p are dropped, its buffer is freed.
LEMMA MoveAssignPool ==
  ASSUME PoolInv, NEW p \in Pools, NEW o \in Pools, pool_move_assign(p, o)
  PROVE  PoolInv'
<1> DEFINE h == Heap(live, misfreed, {})
           v == pool[p].m_vector
           g == destroy_vector(v, h)
           mid == [pool EXCEPT ![p] = NULL]
<1>1. /\ p # o /\ pool[p] # NULL /\ pool[o] # NULL
      /\ pool' = WithMove(pool, p, o)
      /\ live' = g.live /\ misfreed' = g.misfreed /\ held' = held /\ autos' = autos
      /\ dropped' = dropped \cup Range(v.items)
  BY Zenon DEF pool_move_assign, WithMove
<1>2. h \in Heaps
  BY Zenon DEF Heaps
<1> HIDE DEF h
<1>3. /\ Holds(v, h, live \ OwnIn(pool, p)) /\ OwnIn(pool, p) = Own(v) /\ v \in Vectors
  BY <1>1, <1>2, PoolBegins, Zenon
<1>4. /\ Clean(h) /\ v.m_buf \notin Range(v.items) /\ h.live = (live \ Own(v)) \cup Own(v)
      /\ Own(v) = Range(v.items) \cup ({v.m_buf} \ {NULL}) /\ NULL \notin h.live
      /\ h.live = live
  <2>1. Clean(h) /\ h.live = live
    BY <1>2, HeapsClean, Zenon DEF PoolInv
  <2>2. NULL \notin h.live
    BY <2>1, VectorConstants DEF Clean, HeapRecords
  <2>3. QED
    BY <1>3, <2>1, <2>2, Zenon DEF Holds, IsVector, Own
<1>5. v.m_buf = NULL \/ v.m_buf \in h.live
  BY <1>4, Zenon
<1>6. Clean(g) /\ g.live = live \ {v.m_buf}
  BY <1>3, <1>4, <1>5, DestroyVectorEffect, Zenon
<1> HIDE DEF g, v
<1>7. PoolsOK(pool) /\ pool \in [Pools -> ObjectPools \cup {NULL}]
  BY Zenon DEF PoolInv, PoolsOK
<1>8. mid[p] = NULL /\ \A q \in Pools \ {p} : mid[q] = pool[q]
  BY <1>7
<1> HIDE DEF mid
<1>9. OwnIn(mid, p) = {} /\ \A q \in Pools \ {p} : OwnIn(mid, q) = OwnIn(pool, q)
  BY <1>8, Zenon DEF OwnIn
<1>10. Five(held, ObjectsOf(autos), dropped \cup Range(v.items), OthersIn(pool, p), {}, g.live)
  <2>1. Five(held, ObjectsOf(autos), dropped, OthersIn(pool, p), OwnIn(pool, p), live)
    BY SeenFromOne, Zenon DEF PoolInv
  <2>2. /\ OwnIn(pool, p) = Range(v.items) \cup ({v.m_buf} \ {NULL}) /\ NULL \notin live
        /\ v.m_buf \notin Range(v.items)
    BY <1>3, <1>4, Zenon
  <2> HIDE DEF OwnIn
  <2>3. QED
    BY <1>6, <2>1, <2>2 DEF Five
<1>11. Shared(mid, held, ObjectsOf(autos), dropped \cup Range(v.items), g.live)
  <2>1. Shared(pool, held, ObjectsOf(autos), dropped, live)
    BY Zenon DEF PoolInv
  <2>2. QED
    BY <1>9, <1>10, <2>1, OneChanged, Zenon
<1>12. /\ PoolsOK(pool') /\ OwnIn(pool', p) = OwnIn(pool, o) /\ OwnIn(pool', o) = {}
       /\ \A q \in Pools \ {p, o} : OwnIn(pool', q) = OwnIn(pool, q)
       /\ \A q \in Pools : pool[q] # NULL => pool'[q] # NULL
  <2>1. HasMoved(pool, p, o, pool')
    BY <1>1, <1>7, MovePools, Zenon
  <2>2. QED
    BY <2>1, Zenon DEF HasMoved
<1>13. AutosOK(pool', autos)
  BY <1>12, AutosStay, Zenon DEF PoolInv
<1>14. Shared(pool', held, ObjectsOf(autos), dropped \cup Range(v.items), g.live)
  <2>1. OwnIn(pool', p) = OwnIn(mid, o)
    BY <1>1, <1>9, <1>12, Zenon
  <2>2. \A q \in Pools \ {p, o} : OwnIn(pool', q) = OwnIn(mid, q)
    BY <1>9, <1>12, Zenon
  <2>3. p # o /\ OwnIn(mid, p) = {} /\ OwnIn(pool', o) = {}
    BY <1>1, <1>9, <1>12, Zenon
  <2>4. QED
    BY <1>11, <2>1, <2>2, <2>3, TakenOver
<1>15. g.live \subseteq Blocks /\ g.misfreed = FALSE
  BY <1>6 DEF Clean, HeapRecords
<1>16. QED
  BY <1>1, <1>12, <1>13, <1>14, <1>15, Zenon DEF PoolInv

\* The part of the invariant that an operation of p establishes, whatever it is.
LEMMA Updated ==
  ASSUME PoolInv, NEW p \in Pools, pool[p] # NULL, NEW r, IsVector(r.v), Clean(r.h),
         Update(p, r), held' \in SUBSET Blocks, AutosOK(pool, autos'),
         Five(held', ObjectsOf(autos'), dropped \cup r.lost, OthersIn(pool, p), Own(r.v),
              r.h.live)
  PROVE  PoolInv'
<1>1. /\ pool' = WithVector(pool, p, r.v) /\ live' = r.h.live
      /\ misfreed' = r.h.misfreed /\ dropped' = dropped \cup r.lost
  BY Zenon DEF Update, WithVector
<1>2. PoolsOK(pool) /\ Shared(pool, held, ObjectsOf(autos), dropped, live)
  BY Zenon DEF PoolInv
<1>3. /\ PoolsOK(pool') /\ OwnIn(pool', p) = Own(r.v)
      /\ \A q \in Pools \ {p} : OwnIn(pool', q) = OwnIn(pool, q)
      /\ \A q \in Pools : pool[q] # NULL => pool'[q] # NULL
  <2>1. HasVector(pool, p, r.v, pool')
    BY <1>1, <1>2, SetVector, Zenon
  <2>2. QED
    BY <2>1, Zenon DEF HasVector
<1>4. AutosOK(pool', autos')
  BY <1>3, AutosStay, Zenon
<1>5. Shared(pool', held', ObjectsOf(autos'), dropped \cup r.lost, r.h.live)
  <2>1. Five(held', ObjectsOf(autos'), dropped \cup r.lost, OthersIn(pool, p),
             OwnIn(pool', p), r.h.live)
    BY <1>3, Zenon
  <2>2. QED
    BY <1>2, <1>3, <2>1, OneChanged, Zenon
<1>6. r.h.live \subseteq Blocks /\ r.h.misfreed = FALSE
  BY DEF Clean, HeapRecords
<1>7. QED
  BY <1>1, <1>3, <1>4, <1>5, <1>6, Zenon DEF PoolInv

\* add_to_pool.
LEMMA AddToThePool ==
  ASSUME PoolInv, NEW p \in Pools, NEW num \in Amounts, add_to_pool(p, num)
  PROVE  PoolInv'
<1> DEFINE v == pool[p].m_vector
           R == live \ OwnIn(pool, p)
<1>1. PICK h \in Heaps : Update(p, AddToPool(v, h, num))
  BY Zenon DEF add_to_pool
<1> DEFINE r == AddToPool(v, h, num)
<1>2. pool[p] # NULL /\ held' = held /\ autos' = autos /\ Update(p, r)
  BY <1>1, Zenon DEF add_to_pool, UsablePool
<1>3. Holds(v, h, R)
  BY <1>2, PoolBegins, Zenon
<1>4. Filled(Len(v.items), v.m_capacity, R, num, r)
  <2>1. num \in Nat
    BY PoolConstants
  <2>2. QED
    BY <1>3, <2>1, AddEffect, Zenon
<1> HIDE DEF r, v
<1>5. /\ IsVector(r.v) /\ r.lost \cap R = {} /\ Clean(r.h)
      /\ (R \cup r.lost) \cap Own(r.v) = {} /\ r.h.live = (R \cup r.lost) \cup Own(r.v)
  BY <1>4, Zenon DEF Filled, Holds
<1>6. Five(held, ObjectsOf(autos), dropped, OthersIn(pool, p), OwnIn(pool, p), live)
  BY SeenFromOne, Zenon DEF PoolInv
<1>7. Five(held, ObjectsOf(autos), dropped \cup r.lost, OthersIn(pool, p), Own(r.v), r.h.live)
  BY <1>5, <1>6 DEF Five
<1>8. held \in SUBSET Blocks
  BY <1>6 DEF Five, PoolInv
<1>9. AutosOK(pool, autos)
  BY Zenon DEF PoolInv
<1>10. QED
  BY <1>2, <1>5, <1>7, <1>8, <1>9, Updated

\* get: the object is the client's.
LEMMA GetFromPool ==
  ASSUME PoolInv, NEW p \in Pools, pool_get(p)
  PROVE  PoolInv'
<1> DEFINE v == pool[p].m_vector
           R == live \ OwnIn(pool, p)
           e == pool[p].m_elasticity
<1>1. PICK h \in Heaps :
        LET r == Get(v, h, e) IN Update(p, r) /\ held' = held \cup ({r.rval} \ {NULL})
  BY Zenon DEF pool_get
<1> DEFINE r == Get(v, h, e)
<1>2. /\ pool[p] # NULL /\ held' = held \cup ({r.rval} \ {NULL}) /\ autos' = autos
      /\ Update(p, r)
  BY <1>1, Zenon DEF pool_get, UsablePool
<1>3. Holds(v, h, R) /\ e \in Nat
  <2>1. Holds(v, h, R) /\ pool[p] \in ObjectPools
    BY <1>2, PoolBegins, Zenon
  <2>2. QED
    BY <2>1 DEF ObjectPools
<1>4. Got(v, R, r)
  BY <1>3, GetEffect, Zenon
<1> HIDE DEF r, v, e
<1> DEFINE new == {r.rval} \ {NULL}
<1>5. /\ IsVector(r.v) /\ Clean(r.h) /\ r.lost \cap R = {} /\ new \cap (R \cup r.lost) = {}
      /\ ((R \cup r.lost) \cup new) \cap Own(r.v) = {}
      /\ r.h.live = ((R \cup r.lost) \cup new) \cup Own(r.v)
      /\ new \subseteq Blocks
  <2>1. r \in Works /\ r.rval \in Blocks \cup {NULL}
    BY <1>4 DEF Got, Works
  <2>2. CASE r.rval = NULL
    <3>1. new = {} /\ Holds(r.v, r.h, R \cup r.lost)
      BY <1>4, <2>2, Zenon DEF Got
    <3>2. QED
      BY <1>4, <3>1, Zenon DEF Got, Holds
  <2>3. CASE r.rval # NULL
    <3>1. /\ new = {r.rval} /\ r.rval \notin R \cup r.lost
          /\ Holds(r.v, r.h, (R \cup r.lost) \cup {r.rval})
      BY <1>4, <2>3, Zenon DEF Got
    <3> HIDE DEF new
    <3>2. QED
      BY <1>4, <2>1, <2>3, <3>1 DEF Got, Holds
  <2>4. QED
    BY <2>2, <2>3, Zenon
<1>6. Five(held, ObjectsOf(autos), dropped, OthersIn(pool, p), OwnIn(pool, p), live)
  BY SeenFromOne, Zenon DEF PoolInv
<1> HIDE DEF new
<1>7. Five(held \cup new, ObjectsOf(autos), dropped \cup r.lost, OthersIn(pool, p),
           Own(r.v), r.h.live)
  BY <1>5, <1>6 DEF Five
<1>8. held \cup new \in SUBSET Blocks
  BY <1>5, <1>6 DEF Five, PoolInv
<1>9. AutosOK(pool, autos) /\ held' = held \cup new
  BY <1>2, Zenon DEF PoolInv, new
<1>10. QED
  BY <1>2, <1>5, <1>7, <1>8, <1>9, Updated

\* get_auto: the object is that of a new Obj.
LEMMA GetAuto ==
  ASSUME PoolInv, NEW p \in Pools, get_auto(p)
  PROVE  PoolInv'
<1> DEFINE v == pool[p].m_vector
           R == live \ OwnIn(pool, p)
           e == pool[p].m_elasticity
<1>1. PICK h \in Heaps :
        LET r == Get(v, h, e)
        IN  Update(p, r) /\ autos' = autos \cup ({<<p, r.rval>>} \ {<<p, NULL>>})
  BY Zenon DEF get_auto
<1> DEFINE r == Get(v, h, e)
           new == {r.rval} \ {NULL}
<1>2. /\ pool[p] # NULL /\ autos' = autos \cup ({<<p, r.rval>>} \ {<<p, NULL>>})
      /\ held' = held /\ Update(p, r)
  BY <1>1, Zenon DEF get_auto, UsablePool
<1>3. Holds(v, h, R) /\ e \in Nat
  <2>1. Holds(v, h, R) /\ pool[p] \in ObjectPools
    BY <1>2, PoolBegins, Zenon
  <2>2. QED
    BY <2>1 DEF ObjectPools
<1>4. Got(v, R, r)
  BY <1>3, GetEffect, Zenon
<1> HIDE DEF r, v, e
<1>5. /\ IsVector(r.v) /\ Clean(r.h) /\ r.lost \cap R = {} /\ new \cap (R \cup r.lost) = {}
      /\ ((R \cup r.lost) \cup new) \cap Own(r.v) = {}
      /\ r.h.live = ((R \cup r.lost) \cup new) \cup Own(r.v)
      /\ new \subseteq Blocks
  <2>1. r \in Works /\ r.rval \in Blocks \cup {NULL}
    BY <1>4 DEF Got, Works
  <2>2. CASE r.rval = NULL
    <3>1. new = {} /\ Holds(r.v, r.h, R \cup r.lost)
      BY <1>4, <2>2, Zenon DEF Got
    <3>2. QED
      BY <1>4, <3>1, Zenon DEF Got, Holds
  <2>3. CASE r.rval # NULL
    <3>1. /\ new = {r.rval} /\ r.rval \notin R \cup r.lost
          /\ Holds(r.v, r.h, (R \cup r.lost) \cup {r.rval})
      BY <1>4, <2>3, Zenon DEF Got
    <3> HIDE DEF new
    <3>2. QED
      BY <1>4, <2>1, <2>3, <3>1 DEF Got, Holds
  <2>4. QED
    BY <2>2, <2>3, Zenon
<1>6. Five(held, ObjectsOf(autos), dropped, OthersIn(pool, p), OwnIn(pool, p), live)
  BY SeenFromOne, Zenon DEF PoolInv
<1>7. autos' = autos \cup {<<p, b>> : b \in new}
  <2>1. {<<p, r.rval>>} \ {<<p, NULL>>} = {<<p, b>> : b \in new}
    <3>1. CASE r.rval = NULL
      BY <3>1
    <3>2. CASE r.rval # NULL
      BY <3>2
    <3>3. QED
      BY <3>1, <3>2, Zenon
  <2>2. QED
    BY <1>2, <2>1, Zenon
<1> HIDE DEF new
<1>8. ObjectsOf(autos') = ObjectsOf(autos) \cup new
  <2>1. \A b \in new : <<p, b>>[2] = b
    OBVIOUS
  <2>2. ObjectsOf(autos') = ObjectsOf(autos) \cup {o[2] : o \in {<<p, b>> : b \in new}}
    BY <1>7, Zenon DEF ObjectsOf
  <2>3. {o[2] : o \in {<<p, b>> : b \in new}} = new
    BY <2>1, Zenon
  <2>4. QED
    BY <2>2, <2>3, Zenon
<1>9. AutosOK(pool, autos')
  <2>1. AutosOK(pool, autos) /\ new \cap ObjectsOf(autos) = {}
    BY <1>5, <1>6 DEF PoolInv, Five
  <2>2. autos' \subseteq Pools \X Blocks
    BY <1>5, <1>7, <2>1 DEF AutosOK
  <2>3. \A o, a \in autos' : o[2] = a[2] => o = a
    <3>1. ASSUME NEW o \in autos', NEW a \in autos', o[2] = a[2] PROVE o = a
      <4>1. o \in autos => o[2] \in ObjectsOf(autos)
        BY DEF ObjectsOf
      <4>2. a \in autos => a[2] \in ObjectsOf(autos)
        BY DEF ObjectsOf
      <4>3. o \in autos \/ (o = <<p, o[2]>> /\ o[2] \in new)
        BY <1>7
      <4>4. a \in autos \/ (a = <<p, a[2]>> /\ a[2] \in new)
        BY <1>7
      <4>5. QED
        BY <2>1, <3>1, <4>1, <4>2, <4>3, <4>4, Zenon DEF AutosOK
    <3>2. QED
      BY <3>1, Zenon
  <2>4. \A o \in autos' : pool[o[1]] # NULL
    <3>1. ASSUME NEW o \in autos' PROVE pool[o[1]] # NULL
      <4>1. o \in autos \/ o[1] = p
        BY <1>7
      <4>2. QED
        BY <1>2, <2>1, <4>1, Zenon DEF AutosOK
    <3>2. QED
      BY <3>1, Zenon
  <2>5. QED
    BY <2>2, <2>3, <2>4, Zenon DEF AutosOK
<1>10. Five(held, ObjectsOf(autos) \cup new, dropped \cup r.lost, OthersIn(pool, p),
            Own(r.v), r.h.live)
  BY <1>5, <1>6 DEF Five
<1>11. held \in SUBSET Blocks
  BY <1>6 DEF Five, PoolInv
<1>12. QED
  BY <1>2, <1>5, <1>8, <1>9, <1>10, <1>11, Updated

\* put: the pool has the object again, or there was no room for its pointer.
LEMMA PutToPool ==
  ASSUME PoolInv, NEW p \in Pools, NEW in \in held, pool_put(p, in)
  PROVE  PoolInv'
<1> DEFINE v == pool[p].m_vector
           R == live \ OwnIn(pool, p)
<1>1. PICK h \in Heaps : Update(p, Put(v, h, in))
  BY Zenon DEF pool_put
<1> DEFINE r == Put(v, h, in)
<1>2. pool[p] # NULL /\ held' = held \ {in} /\ autos' = autos /\ Update(p, r)
  BY <1>1, Zenon DEF pool_put, UsablePool
<1>3. Holds(v, h, R)
  BY <1>2, PoolBegins, Zenon
<1>4. Five(held, ObjectsOf(autos), dropped, OthersIn(pool, p), OwnIn(pool, p), live)
  BY SeenFromOne, Zenon DEF PoolInv
<1>5. in \in R
  BY <1>4 DEF Five
<1>6. GaveBack(v, R, in, r)
  BY <1>3, <1>5, PutEffect, Zenon
<1> HIDE DEF r, v
<1>7. /\ IsVector(r.v) /\ r.lost \subseteq {in} /\ Clean(r.h)
      /\ ((R \ {in}) \cup r.lost) \cap Own(r.v) = {}
      /\ r.h.live = ((R \ {in}) \cup r.lost) \cup Own(r.v)
  BY <1>6, Zenon DEF GaveBack, Holds
<1>8. Five(held \ {in}, ObjectsOf(autos), dropped \cup r.lost, OthersIn(pool, p),
           Own(r.v), r.h.live)
  BY <1>4, <1>7 DEF Five
<1>9. held \ {in} \in SUBSET Blocks
  BY <1>4 DEF Five, PoolInv
<1>10. AutosOK(pool, autos)
  BY Zenon DEF PoolInv
<1>11. QED
  BY <1>2, <1>7, <1>8, <1>9, <1>10, Updated

\* The destructor of an Obj puts its object back.
LEMMA DestroyObj ==
  ASSUME PoolInv, NEW o \in autos, destroy_Obj(o)
  PROVE  PoolInv'
<1> DEFINE p == o[1]
           in == o[2]
           v == pool[p].m_vector
           R == live \ OwnIn(pool, p)
<1>1. PICK h \in Heaps : Update(p, Put(v, h, in))
  BY Zenon DEF destroy_Obj
<1> DEFINE r == Put(v, h, in)
<1>2. held' = held /\ autos' = autos \ {o} /\ Update(p, r)
  BY <1>1, Zenon DEF destroy_Obj
<1>3. AutosOK(pool, autos) /\ p \in Pools /\ pool[p] # NULL
  BY DEF PoolInv, AutosOK
<1> HIDE DEF p
<1>4. Holds(v, h, R)
  BY <1>3, PoolBegins, Zenon
<1>5. Five(held, ObjectsOf(autos), dropped, OthersIn(pool, p), OwnIn(pool, p), live)
  BY <1>3, SeenFromOne, Zenon DEF PoolInv
<1>6. in \in ObjectsOf(autos)
  BY Zenon DEF ObjectsOf
<1>7. in \in R
  BY <1>5, <1>6 DEF Five
<1>8. GaveBack(v, R, in, r)
  BY <1>4, <1>7, PutEffect, Zenon
<1> HIDE DEF r, v
<1>9. /\ IsVector(r.v) /\ r.lost \subseteq {in} /\ Clean(r.h)
      /\ ((R \ {in}) \cup r.lost) \cap Own(r.v) = {}
      /\ r.h.live = ((R \ {in}) \cup r.lost) \cup Own(r.v)
  BY <1>8, Zenon DEF GaveBack, Holds
<1>10. ObjectsOf(autos') = ObjectsOf(autos) \ {in}
  BY <1>2, <1>3, Zenon DEF ObjectsOf, AutosOK
<1>11. AutosOK(pool, autos')
  BY <1>2, <1>3, Zenon DEF AutosOK
<1> HIDE DEF in
<1>12. Five(held, ObjectsOf(autos) \ {in}, dropped \cup r.lost, OthersIn(pool, p),
           Own(r.v), r.h.live)
  BY <1>5, <1>6, <1>9 DEF Five
<1>13. held \in SUBSET Blocks
  BY <1>5 DEF Five, PoolInv
<1>14. QED
  BY <1>2, <1>3, <1>9, <1>10, <1>11, <1>12, <1>13, Updated

\* set_elasticity leaves the objects alone.
LEMMA SetElasticity ==
  ASSUME PoolInv, NEW p \in Pools, NEW e \in Elasticities, set_elasticity(p, e)
  PROVE  PoolInv'
<1> DEFINE o == [pool[p] EXCEPT !.m_elasticity = e]
<1>1. /\ pool[p] # NULL /\ pool' = [pool EXCEPT ![p].m_elasticity = e]
      /\ live' = live /\ misfreed' = misfreed /\ held' = held /\ autos' = autos
      /\ dropped' = dropped
  BY Zenon DEF set_elasticity, UsablePool
<1>2. PoolsOK(pool) /\ pool \in [Pools -> ObjectPools \cup {NULL}] /\ pool[p] \in ObjectPools
  BY <1>1, Zenon DEF PoolInv, PoolsOK
<1>3. e \in Nat
  BY PoolConstants
<1>4. o \in ObjectPools /\ o.m_vector = pool[p].m_vector
  BY <1>2, <1>3 DEF ObjectPools
<1>5. pool' = [pool EXCEPT ![p] = o]
  BY <1>1
<1> HIDE DEF o
<1>6. /\ pool' \in [Pools -> ObjectPools \cup {NULL}]
      /\ pool'[p] = o /\ \A q \in Pools \ {p} : pool'[q] = pool[q]
  BY <1>2, <1>4, <1>5
<1>7. o # NULL /\ IsVector(o.m_vector)
  BY <1>1, <1>2, <1>4, PoolConstants, Zenon DEF PoolsOK
<1>8. \A q \in Pools : OwnIn(pool', q) = OwnIn(pool, q)
  <2>1. OwnIn(pool', p) = OwnIn(pool, p)
    BY <1>1, <1>4, <1>6, <1>7 DEF OwnIn
  <2>2. \A q \in Pools \ {p} : OwnIn(pool', q) = OwnIn(pool, q)
    BY <1>6, Zenon DEF OwnIn
  <2>3. QED
    BY <2>1, <2>2, Zenon
<1>9. PoolsOK(pool')
  BY <1>2, <1>6, <1>7, Zenon DEF PoolsOK
<1>10. \A q \in Pools : pool[q] # NULL => pool'[q] # NULL
  BY <1>6, <1>7, Zenon
<1>11. AutosOK(pool', autos)
  BY <1>10, AutosStay, Zenon DEF PoolInv
<1>12. Shared(pool', held, ObjectsOf(autos), dropped, live)
  <2>1. UNION {OwnIn(pool', q) : q \in Pools} = UNION {OwnIn(pool, q) : q \in Pools}
    BY <1>8, Zenon
  <2>2. QED
    BY <1>8, <2>1, Zenon DEF PoolInv, Shared
<1>13. QED
  BY <1>1, <1>9, <1>11, <1>12, Zenon DEF PoolInv

\* A place is of one of five kinds.
LEMMA PlaceKinds ==
  ASSUME NEW x
  PROVE  x \in Places <=>
         \/ \E b \in held : x = <<"held", b, b>>
         \/ \E o \in autos : x = <<"obj", o, o[2]>>
         \/ \E p \in TherePools : \E i \in DOMAIN Items(p) :
              x = <<"slot", <<p, i>>, Items(p)[i]>>
         \/ \E p \in TherePools : /\ pool[p].m_vector.m_buf # NULL
                                  /\ x = <<"buffer", p, pool[p].m_vector.m_buf>>
         \/ \E b \in dropped : x = <<"dropped", b, b>>
<1>1. x \in Hands <=> \E b \in held : x = <<"held", b, b>>
  BY Zenon DEF Hands
<1>2. x \in Objs <=> \E o \in autos : x = <<"obj", o, o[2]>>
  BY Zenon DEF Objs
<1>3. \A p : x \in Slots(p) <=> \E i \in DOMAIN Items(p) :
                                  x = <<"slot", <<p, i>>, Items(p)[i]>>
  BY Zenon DEF Slots
<1>4. x \in Buffers <=> \E p \in TherePools :
                         /\ pool[p].m_vector.m_buf # NULL
                         /\ x = <<"buffer", p, pool[p].m_vector.m_buf>>
  BY Zenon DEF Buffers
<1>5. x \in Drops <=> \E b \in dropped : x = <<"dropped", b, b>>
  BY Zenon DEF Drops
<1>6. x \in Places <=> \/ x \in Hands \/ x \in Objs
                       \/ \E p \in TherePools : x \in Slots(p)
                       \/ x \in Buffers \/ x \in Drops
  BY Zenon DEF Places
<1>7. QED
  BY <1>1, <1>2, <1>3, <1>4, <1>5, <1>6, Zenon

\* What a pool that is there has.
LEMMA OwnOfThere ==
  ASSUME PoolInv, NEW p \in TherePools
  PROVE  /\ p \in Pools /\ IsInjective(Items(p))
         /\ \A i \in DOMAIN Items(p) : /\ Items(p)[i] \in OwnIn(pool, p)
                                       /\ Items(p)[i] # pool[p].m_vector.m_buf
         /\ pool[p].m_vector.m_buf # NULL => pool[p].m_vector.m_buf \in OwnIn(pool, p)
         /\ \A b \in OwnIn(pool, p) : \/ \E i \in DOMAIN Items(p) : b = Items(p)[i]
                                      \/ b = pool[p].m_vector.m_buf /\ b # NULL
<1>1. p \in Pools /\ pool[p] # NULL
  BY Zenon DEF TherePools
<1>2. IsVector(pool[p].m_vector) /\ OwnIn(pool, p) = Own(pool[p].m_vector)
  BY <1>1, Zenon DEF PoolInv, PoolsOK, OwnIn
<1>3. QED
  BY <1>1, <1>2, Zenon DEF IsVector, Own, Range, Items

\* Every allocated block has exactly one place: the invariant says so.
LEMMA PlacesApart ==
  ASSUME PoolInv
  PROVE  OnePlace
<1> DEFINE ob == ObjectsOf(autos)
<1>1. /\ held \cap ob = {} /\ held \cap dropped = {} /\ ob \cap dropped = {}
      /\ \A p \in Pools : OwnIn(pool, p) \cap (held \cup ob \cup dropped) = {}
      /\ \A p, q \in Pools : p # q => OwnIn(pool, p) \cap OwnIn(pool, q) = {}
      /\ live = held \cup ob \cup dropped \cup UNION {OwnIn(pool, p) : p \in Pools}
  BY Zenon DEF PoolInv, Shared
<1>2. \A o \in autos : o[2] \in ob
  BY Zenon DEF ObjectsOf
<1>0. \A b \in ob : \E o \in autos : b = o[2]
  BY Zenon DEF ObjectsOf
<1> HIDE DEF ob
<1>11. ASSUME NEW b, NEW p \in Pools, b \in OwnIn(pool, p)
       PROVE  /\ b \notin held /\ b \notin ob /\ b \notin dropped /\ b \in live
              /\ \A q \in Pools : b \in OwnIn(pool, q) => q = p
  BY <1>1, <1>11, Zenon
<1>3. \A p \in TherePools :
        /\ p \in Pools /\ IsInjective(Items(p))
        /\ \A i \in DOMAIN Items(p) : /\ Items(p)[i] \in OwnIn(pool, p)
                                      /\ Items(p)[i] # pool[p].m_vector.m_buf
        /\ pool[p].m_vector.m_buf # NULL => pool[p].m_vector.m_buf \in OwnIn(pool, p)
        /\ \A b \in OwnIn(pool, p) : \/ \E i \in DOMAIN Items(p) : b = Items(p)[i]
                                     \/ b = pool[p].m_vector.m_buf /\ b # NULL
  BY OwnOfThere, Zenon
<1>4. \A p \in Pools : OwnIn(pool, p) # {} => p \in TherePools
  BY Zenon DEF OwnIn, TherePools
<1>5. \A x \in Places : x[3] \in live
  <2>1. ASSUME NEW x \in Places PROVE x[3] \in live
    <3>1. CASE \E b \in held : x = <<"held", b, b>>
      BY <1>1, <3>1
    <3>2. CASE \E o \in autos : x = <<"obj", o, o[2]>>
      BY <1>1, <1>2, <3>2
    <3>3. CASE \E p \in TherePools : \E i \in DOMAIN Items(p) :
                 x = <<"slot", <<p, i>>, Items(p)[i]>>
      <4>1. PICK p \in TherePools : \E i \in DOMAIN Items(p) :
              x = <<"slot", <<p, i>>, Items(p)[i]>>
        BY <3>3, Zenon
      <4>2. PICK i \in DOMAIN Items(p) : x = <<"slot", <<p, i>>, Items(p)[i]>>
        BY <4>1, Zenon
      <4>3. x[3] = Items(p)[i]
        BY <4>2
      <4>4. QED
        BY <1>3, <1>11, <4>3, Zenon
    <3>4. CASE \E p \in TherePools : /\ pool[p].m_vector.m_buf # NULL
                                     /\ x = <<"buffer", p, pool[p].m_vector.m_buf>>
      <4>1. PICK p \in TherePools : /\ pool[p].m_vector.m_buf # NULL
                                    /\ x = <<"buffer", p, pool[p].m_vector.m_buf>>
        BY <3>4, Zenon
      <4>2. x[3] = pool[p].m_vector.m_buf
        BY <4>1
      <4>3. QED
        BY <1>3, <1>11, <4>1, <4>2, Zenon
    <3>5. CASE \E b \in dropped : x = <<"dropped", b, b>>
      BY <1>1, <3>5
    <3>6. QED
      BY <3>1, <3>2, <3>3, <3>4, <3>5, PlaceKinds, Zenon
  <2>2. QED
    BY <2>1, Zenon
<1>6. \A b \in live : \E x \in Places : x[3] = b
  <2>1. ASSUME NEW b \in live PROVE \E x \in Places : x[3] = b
    <3>1. CASE b \in held
      <4>1. <<"held", b, b>> \in Places /\ <<"held", b, b>>[3] = b
        BY <3>1, PlaceKinds
      <4>2. QED
        BY <4>1, Zenon
    <3>2. CASE b \in ob
      <4>1. PICK o \in autos : b = o[2]
        BY <1>0, <3>2, Zenon
      <4>2. <<"obj", o, o[2]>> \in Places
        BY PlaceKinds, Zenon
      <4>3. <<"obj", o, o[2]>>[3] = b
        BY <4>1
      <4>4. QED
        BY <4>2, <4>3, Zenon
    <3>3. CASE b \in dropped
      <4>1. <<"dropped", b, b>> \in Places
        BY <3>3, PlaceKinds, Zenon
      <4>2. <<"dropped", b, b>>[3] = b
        OBVIOUS
      <4>3. QED
        BY <4>1, <4>2, Zenon
    <3>4. ASSUME NEW p \in Pools, b \in OwnIn(pool, p) PROVE \E x \in Places : x[3] = b
      <4>1. p \in TherePools
        BY <1>4, <3>4, Zenon
      <4>2. CASE \E i \in DOMAIN Items(p) : b = Items(p)[i]
        <5>1. PICK i \in DOMAIN Items(p) : b = Items(p)[i]
          BY <4>2, Zenon
        <5>2. <<"slot", <<p, i>>, Items(p)[i]>> \in Places
          BY <4>1, PlaceKinds, Zenon
        <5>3. <<"slot", <<p, i>>, Items(p)[i]>>[3] = b
          BY <5>1
        <5>4. QED
          BY <5>2, <5>3, Zenon
      <4>3. CASE b = pool[p].m_vector.m_buf /\ b # NULL
        <5>1. <<"buffer", p, pool[p].m_vector.m_buf>> \in Places
          BY <4>1, <4>3, PlaceKinds, Zenon
        <5>2. <<"buffer", p, pool[p].m_vector.m_buf>>[3] = b
          BY <4>3
        <5>3. QED
          BY <5>1, <5>2, Zenon
      <4>4. QED
        BY <1>3, <3>4, <4>1, <4>2, <4>3, Zenon
    <3>5. QED
      BY <1>1, <3>1, <3>2, <3>3, <3>4, Zenon
  <2>2. QED
    BY <2>1, Zenon
<1> DEFINE Slot(p, z) == \/ \E i \in DOMAIN Items(p) : z = <<"slot", <<p, i>>, Items(p)[i]>>
                         \/ z = <<"buffer", p, pool[p].m_vector.m_buf>>
           InHand(z) == z[3] \in held /\ z = <<"held", z[3], z[3]>>
           InObj(z) == z[3] \in ob /\ \E o \in autos : z = <<"obj", o, o[2]>> /\ z[3] = o[2]
           InPool(z) == \E p \in TherePools : z[3] \in OwnIn(pool, p) /\ Slot(p, z)
           Nowhere(z) == z[3] \in dropped /\ z = <<"dropped", z[3], z[3]>>
<1>7. ASSUME NEW z \in Places PROVE InHand(z) \/ InObj(z) \/ InPool(z) \/ Nowhere(z)
  <2>1. CASE \E b \in held : z = <<"held", b, b>>
    BY <2>1
  <2>2. CASE \E o \in autos : z = <<"obj", o, o[2]>>
    <3>1. PICK o \in autos : z = <<"obj", o, o[2]>>
      BY <2>2, Zenon
    <3>2. z[3] = o[2]
      BY <3>1
    <3>3. QED
      BY <1>2, <3>1, <3>2, Zenon
  <2>3. CASE \E p \in TherePools : \E i \in DOMAIN Items(p) :
               z = <<"slot", <<p, i>>, Items(p)[i]>>
    <3>1. PICK p \in TherePools : \E i \in DOMAIN Items(p) :
            z = <<"slot", <<p, i>>, Items(p)[i]>>
      BY <2>3, Zenon
    <3>2. PICK i \in DOMAIN Items(p) : z = <<"slot", <<p, i>>, Items(p)[i]>>
      BY <3>1, Zenon
    <3>3. z[3] = Items(p)[i]
      BY <3>2
    <3>4. QED
      BY <1>3, <3>2, <3>3, Zenon
  <2>4. CASE \E p \in TherePools : /\ pool[p].m_vector.m_buf # NULL
                                   /\ z = <<"buffer", p, pool[p].m_vector.m_buf>>
    <3>1. PICK p \in TherePools : /\ pool[p].m_vector.m_buf # NULL
                                  /\ z = <<"buffer", p, pool[p].m_vector.m_buf>>
      BY <2>4, Zenon
    <3>2. z[3] = pool[p].m_vector.m_buf
      BY <3>1
    <3>3. QED
      BY <1>3, <3>1, <3>2, Zenon
  <2>5. CASE \E b \in dropped : z = <<"dropped", b, b>>
    BY <2>5
  <2>6. QED
    BY <2>1, <2>2, <2>3, <2>4, <2>5, PlaceKinds, Zenon
<1>8. ASSUME NEW x \in Places, NEW y \in Places, x[3] = y[3] PROVE x = y
  <2>1. CASE x[3] \in held
    <3>1. \A z \in Places : z[3] = x[3] => InHand(z)
      <4>1. ASSUME NEW z \in Places, z[3] = x[3] PROVE InHand(z)
        <5>1. z[3] \notin ob /\ z[3] \notin dropped /\ ~InPool(z)
          BY <1>1, <1>3, <1>11, <2>1, <4>1
        <5>2. QED
          BY <1>7, <5>1, Zenon
      <4>2. QED
        BY <4>1, Zenon
    <3>2. x = <<"held", x[3], x[3]>> /\ y = <<"held", y[3], y[3]>>
      BY <1>8, <3>1, Zenon
    <3>3. QED
      BY <1>8, <3>2, Zenon
  <2>2. CASE x[3] \in ob
    <3>1. \A z \in Places : z[3] = x[3] => InObj(z)
      <4>1. ASSUME NEW z \in Places, z[3] = x[3] PROVE InObj(z)
        <5>1. z[3] \notin held /\ z[3] \notin dropped /\ ~InPool(z)
          BY <1>1, <1>3, <1>11, <2>2, <4>1
        <5>2. QED
          BY <1>7, <5>1, Zenon
      <4>2. QED
        BY <4>1, Zenon
    <3>2. PICK o \in autos : x = <<"obj", o, o[2]>> /\ x[3] = o[2]
      BY <3>1, Zenon
    <3>3. PICK a \in autos : y = <<"obj", a, a[2]>> /\ y[3] = a[2]
      BY <1>8, <3>1, Zenon
    <3>4. o[2] = a[2]
      BY <1>8, <3>2, <3>3, Zenon
    <3>5. o = a
      BY <3>4, Zenon DEF PoolInv, AutosOK
    <3>6. QED
      BY <3>2, <3>3, <3>5, Zenon
  <2>3. CASE x[3] \in dropped
    <3>1. \A z \in Places : z[3] = x[3] => Nowhere(z)
      <4>1. ASSUME NEW z \in Places, z[3] = x[3] PROVE Nowhere(z)
        <5>1. z[3] \notin held /\ z[3] \notin ob /\ ~InPool(z)
          BY <1>1, <1>3, <1>11, <2>3, <4>1
        <5>2. QED
          BY <1>7, <5>1, Zenon
      <4>2. QED
        BY <4>1, Zenon
    <3>2. x = <<"dropped", x[3], x[3]>> /\ y = <<"dropped", y[3], y[3]>>
      BY <1>8, <3>1, Zenon
    <3>3. QED
      BY <1>8, <3>2, Zenon
  <2>4. ASSUME NEW p \in TherePools, x[3] \in OwnIn(pool, p) PROVE x = y
    <3>1. \A z \in Places : z[3] = x[3] => Slot(p, z)
      <4>1. ASSUME NEW z \in Places, z[3] = x[3] PROVE Slot(p, z)
        <5>1. z[3] \notin held /\ z[3] \notin ob /\ z[3] \notin dropped
          BY <1>3, <1>11, <2>4, <4>1, Zenon
        <5>2. PICK q \in TherePools : z[3] \in OwnIn(pool, q) /\ Slot(q, z)
          BY <1>7, <5>1, Zenon
        <5>3. x[3] \in OwnIn(pool, q) /\ p \in Pools /\ q \in Pools
          BY <1>3, <4>1, <5>2, Zenon
        <5>4. q = p
          BY <1>11, <2>4, <5>3, Zenon
        <5>5. QED
          BY <5>2, <5>4, Zenon
      <4>2. QED
        BY <4>1, Zenon
    <3>2. Slot(p, x) /\ Slot(p, y)
      BY <1>8, <3>1, Zenon
    <3>3. ASSUME NEW z, Slot(p, z)
          PROVE  \/ \E i \in DOMAIN Items(p) :
                      z = <<"slot", <<p, i>>, Items(p)[i]>> /\ z[3] = Items(p)[i]
                 \/ /\ z = <<"buffer", p, pool[p].m_vector.m_buf>>
                    /\ z[3] = pool[p].m_vector.m_buf
      BY <3>3
    <3> HIDE DEF Slot
    <3>4. CASE \E i \in DOMAIN Items(p) :
                 x = <<"slot", <<p, i>>, Items(p)[i]>> /\ x[3] = Items(p)[i]
      <4>1. PICK i \in DOMAIN Items(p) :
                 x = <<"slot", <<p, i>>, Items(p)[i]>> /\ x[3] = Items(p)[i]
        BY <3>4, Zenon
      <4>2. y[3] # pool[p].m_vector.m_buf
        BY <1>3, <1>8, <4>1, Zenon
      <4>3. PICK j \in DOMAIN Items(p) :
                 y = <<"slot", <<p, j>>, Items(p)[j]>> /\ y[3] = Items(p)[j]
        BY <3>2, <3>3, <4>2, Zenon
      <4>4. Items(p)[i] = Items(p)[j]
        BY <1>8, <4>1, <4>3, Zenon
      <4>5. i = j
        BY <1>3, <4>4, Zenon DEF IsInjective
      <4>6. QED
        BY <4>1, <4>3, <4>5, Zenon
    <3>5. CASE /\ x = <<"buffer", p, pool[p].m_vector.m_buf>>
               /\ x[3] = pool[p].m_vector.m_buf
      <4>1. \A j \in DOMAIN Items(p) : y[3] # Items(p)[j]
        BY <1>3, <1>8, <3>5, Zenon
      <4>2. y = <<"buffer", p, pool[p].m_vector.m_buf>>
        BY <3>2, <3>3, <4>1, Zenon
      <4>3. QED
        BY <3>5, <4>2, Zenon
    <3>6. QED
      BY <3>2, <3>3, <3>4, <3>5, Zenon
  <2>5. QED
    BY <1>7, <2>1, <2>2, <2>3, <2>4, Zenon
<1>9. {x[3] : x \in Places} = live
  BY <1>5, <1>6, Zenon
<1>10. QED
  BY <1>8, <1>9, Zenon DEF OnePlace, PoolInv

\* A pool never loses track of an object: every block that is allocated has
\* exactly one place, whatever allocations fail (get, put, add_to_pool, ~Obj,
\* the moves and the destructor of rtl::object_pool).
THEOREM EveryBlockHasOnePlace == PoolSpec => []OnePlace
<1>1. PoolInit => PoolInv
  <2>1. SUFFICES ASSUME PoolInit PROVE PoolInv
    OBVIOUS
  <2>2. /\ pool = [p \in Pools |-> NULL] /\ live = {} /\ misfreed = FALSE /\ dropped = {}
        /\ held = {} /\ autos = {}
    BY <2>1, Zenon DEF PoolInit
  <2>3. PoolsOK(pool) /\ \A p \in Pools : OwnIn(pool, p) = {}
    BY <2>2 DEF PoolsOK, OwnIn
  <2>4. ObjectsOf(autos) = {}
    BY <2>2, Zenon DEF ObjectsOf
  <2>5. AutosOK(pool, autos)
    BY <2>2 DEF AutosOK
  <2>6. Shared(pool, {}, {}, {}, {})
    BY <2>3, Zenon DEF Shared
  <2>7. QED
    BY <2>2, <2>3, <2>4, <2>5, <2>6, Zenon DEF PoolInv
<1>2. PoolInv /\ [PoolNext]_poolVars => PoolInv'
  <2>1. SUFFICES ASSUME PoolInv, [PoolNext]_poolVars PROVE PoolInv'
    OBVIOUS
  <2>2. ASSUME NEW p \in Pools, NEW num \in Amounts, NEW e \in Elasticities,
               object_pool(p, num, e)
        PROVE  PoolInv'
    BY <2>1, <2>2, ConstructPool, Zenon
  <2>3. ASSUME NEW p \in Pools, destroy_object_pool(p) PROVE PoolInv'
    BY <2>1, <2>3, DestroyPool, Zenon
  <2>4. ASSUME NEW p \in Pools, NEW o \in Pools,
               pool_move_construct(p, o) \/ pool_move_assign(p, o)
        PROVE  PoolInv'
    BY <2>1, <2>4, MoveConstructPool, MoveAssignPool, Zenon
  <2>5. ASSUME NEW p \in Pools, NEW num \in Amounts, add_to_pool(p, num) PROVE PoolInv'
    BY <2>1, <2>5, AddToThePool, Zenon
  <2>6. ASSUME NEW p \in Pools, pool_get(p) \/ get_auto(p) PROVE PoolInv'
    BY <2>1, <2>6, GetFromPool, GetAuto, Zenon
  <2>7. ASSUME NEW p \in Pools, NEW in \in held, pool_put(p, in) PROVE PoolInv'
    BY <2>1, <2>7, PutToPool, Zenon
  <2>8. ASSUME NEW p \in Pools, NEW e \in Elasticities, set_elasticity(p, e) PROVE PoolInv'
    BY <2>1, <2>8, SetElasticity, Zenon
  <2>9. ASSUME NEW o \in autos, destroy_Obj(o) PROVE PoolInv'
    BY <2>1, <2>9, DestroyObj, Zenon
  <2>10. CASE UNCHANGED poolVars
    BY <2>1, <2>10, Zenon DEF poolVars, PoolInv
  <2>11. QED
    BY <2>1, <2>2, <2>3, <2>4, <2>5, <2>6, <2>7, <2>8, <2>9, <2>10, Zenon DEF PoolNext
<1>3. PoolInv => OnePlace
  BY PlacesApart
<1>4. QED
  BY <1>1, <1>2, <1>3, PTL DEF PoolSpec

=============================================================================
