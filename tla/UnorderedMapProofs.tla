------------------------- MODULE UnorderedMapProofs -------------------------
(***************************************************************************)
(* Proofs about UnorderedMap, for any keys, hash, table sizes and limits:  *)
(* buckets, tables, the moves of a resize, the operations, and the         *)
(* theorems at the end.                                                    *)
(*                                                                         *)
(* A table is reduced to what a lookup sees of it: Has(t), its keys,       *)
(* TableGet, their values, and the counter.  Each operation on a bucket    *)
(* and on a table has a lemma that says what it does to these; the lemmas  *)
(* about the map use nothing else.  A leaf without arithmetic names Zenon, *)
(* which is the quicker prover for it.                                     *)
(***************************************************************************)
EXTENDS UnorderedMap, FiniteSetTheorems, WellFoundedInduction, TLAPS

Less == {p \in Nat \X Nat : p[1] < p[2]}

\* Every non-empty set of natural numbers has a least element: the form in
\* which induction is used below.
LEMMA LeastElement ==
  ASSUME NEW T, T \subseteq Nat, T # {}
  PROVE  \E x \in T : \A y \in T : x <= y
<1>1. IsWellFoundedOn(Less, Nat)
  BY NatLessThanWellFounded DEF OpToRel, Less
<1>2. PICK x \in T : \A y \in T : ~ (<<y, x>> \in Less)
  BY <1>1, WFMin, Zenon
<1>3. ASSUME NEW y \in T PROVE x <= y
  <2>1. <<y, x>> \in Nat \X Nat
    OBVIOUS
  <2>2. QED
    BY <1>2, <2>1 DEF Less
<1>4. QED
  BY <1>3

-----------------------------------------------------------------------------
(* The entries of one bucket. *)

Item == [key : Keys, val : Values \cup {NULL}]

\* A key has one entry.
Distinct(es) ==
  /\ es \in Seq(Item)
  /\ \A i, j \in 1 .. Len(es) : es[i].key = es[j].key => i = j

\* Whether there is an entry of k, and its value.
In(es, k) == Position(es, k) # 0
At(es, k) == IF In(es, k) THEN es[Position(es, k)].val ELSE NULL

\* Position finds the entry of a key.
LEMMA PositionFinds ==
  ASSUME NEW es, Distinct(es), NEW i \in 1 .. Len(es)
  PROVE  /\ Position(es, es[i].key) = i
         /\ In(es, es[i].key) /\ At(es, es[i].key) = es[i].val
<1> DEFINE k == es[i].key
<1>1. DOMAIN es = 1 .. Len(es) /\ Len(es) \in Nat
  BY DEF Distinct
<1>2. i # 0 /\ \A j \in 1 .. (i - 1) : j \in 1 .. Len(es) /\ j # i
  BY <1>1
<1>3. \E j \in DOMAIN es : es[j].key = k
  BY <1>1, Zenon
<1>4. i \in DOMAIN es /\ es[i].key = k /\ \A j \in 1 .. (i - 1) : es[j].key # k
  BY <1>1, <1>2, Zenon DEF Distinct
<1>5. \A j \in DOMAIN es : es[j].key = k => j = i
  BY <1>1, Zenon DEF Distinct
<1> HIDE DEF k
<1>6. Position(es, k) = i
  BY <1>3, <1>4, <1>5, Zenon DEF Position
<1>7. QED
  BY <1>2, <1>6, Zenon DEF In, At, k

\* The positions are those of entries, and 0.
LEMMA PositionOf ==
  ASSUME NEW es, Distinct(es), NEW k
  PROVE  /\ In(es, k) => Position(es, k) \in 1 .. Len(es) /\ es[Position(es, k)].key = k
         /\ In(es, k) <=> \E i \in 1 .. Len(es) : es[i].key = k
<1>1. DOMAIN es = 1 .. Len(es)
  BY DEF Distinct
<1>2. CASE \E i \in 1 .. Len(es) : es[i].key = k
  <2>1. PICK i \in 1 .. Len(es) : es[i].key = k
    BY <1>2, Zenon
  <2>2. QED
    BY <2>1, PositionFinds, Zenon
<1>3. CASE ~\E i \in 1 .. Len(es) : es[i].key = k
  BY <1>1, <1>3, Zenon DEF Position, In
<1>4. QED
  BY <1>2, <1>3, Zenon

\* fs is es and an entry of k without a value.
Gains(es, fs, k) ==
  /\ Distinct(fs) /\ Len(fs) = Len(es) + 1
  /\ \A q : In(fs, q) <=> q = k \/ In(es, q)
  /\ \A q : At(fs, q) = IF q = k THEN NULL ELSE At(es, q)

\* fs is es with v as the value of k.
Assigns(es, fs, k, v) ==
  /\ Distinct(fs) /\ Len(fs) = Len(es)
  /\ \A q : In(fs, q) <=> In(es, q)
  /\ \A q : At(fs, q) = IF q = k THEN v ELSE At(es, q)

\* fs is es without the entry of k.
Loses(es, fs, k) ==
  /\ Distinct(fs) /\ Len(fs) = Len(es) - 1
  /\ \A q : In(fs, q) <=> q # k /\ In(es, q)
  /\ \A q : At(fs, q) = IF q = k THEN NULL ELSE At(es, q)

\* push_back adds an entry without a value.
LEMMA AppendEffect ==
  ASSUME NEW es, Distinct(es), NEW k \in Keys, ~In(es, k)
  PROVE  Gains(es, Append(es, [key |-> k, val |-> NULL]), k)
<1> SUFFICES ASSUME NEW fs, fs = Append(es, [key |-> k, val |-> NULL])
             PROVE  Gains(es, fs, k)
  BY Zenon
<1> DEFINE e == [key |-> k, val |-> NULL]
           n == Len(es)
<1>1. e \in Item /\ e.key = k /\ e.val = NULL
  BY Zenon DEF Item
<1>2. es \in Seq(Item) /\ n \in Nat
  BY DEF Distinct
<1> HIDE DEF e
<1>3. /\ fs \in Seq(Item) /\ Len(fs) = n + 1 /\ fs[n + 1] = e
      /\ \A i \in 1 .. n : fs[i] = es[i]
  BY <1>1, <1>2 DEF e
<1>4. /\ n + 1 \in 1 .. (n + 1) /\ \A i \in 1 .. n : i \in 1 .. (n + 1)
      /\ \A i \in 1 .. (n + 1) : i = n + 1 \/ i \in 1 .. n
  BY <1>2
<1> HIDE DEF n
<1>5. 1 .. Len(fs) = 1 .. (n + 1) /\ \A i \in 1 .. n : es[i].key # k
  BY <1>3, PositionOf, Zenon DEF n
<1>6. Distinct(fs)
  <2>1. SUFFICES ASSUME NEW i \in 1 .. (n + 1), NEW j \in 1 .. (n + 1), fs[i].key = fs[j].key
                 PROVE  i = j
    BY <1>3, Zenon DEF Distinct
  <2>2. QED
    BY <1>1, <1>3, <1>4, <1>5, <2>1, Zenon DEF Distinct, n
<1>7. ASSUME NEW q
      PROVE  /\ In(fs, q) <=> q = k \/ In(es, q)
             /\ At(fs, q) = IF q = k THEN NULL ELSE At(es, q)
  <2>1. CASE q = k
    <3>1. n + 1 \in 1 .. Len(fs) /\ fs[n + 1].key = k /\ fs[n + 1].val = NULL
      BY <1>1, <1>3, <1>4, <1>5, Zenon
    <3>2. QED
      BY <1>6, <2>1, <3>1, PositionFinds, Zenon
  <2>2. CASE q # k /\ In(es, q)
    <3>1. PICK i \in 1 .. n : es[i].key = q
      BY <2>2, PositionOf, Zenon DEF n
    <3>2. In(es, q) /\ At(es, q) = es[i].val
      BY <3>1, PositionFinds, Zenon DEF n
    <3>3. In(fs, q) /\ At(fs, q) = fs[i].val
      BY <1>3, <1>4, <1>6, <3>1, PositionFinds, Zenon
    <3>4. QED
      BY <1>3, <2>2, <3>1, <3>2, <3>3, Zenon
  <2>3. CASE q # k /\ ~In(es, q)
    <3>1. ~In(fs, q)
      <4>1. SUFFICES ASSUME In(fs, q) PROVE FALSE
        BY Zenon
      <4>2. PICK i \in 1 .. Len(fs) : fs[i].key = q
        BY <1>6, <4>1, PositionOf
      <4>3. i \in 1 .. n
        BY <1>1, <1>3, <1>4, <1>5, <2>3, <4>2, Zenon
      <4>4. QED
        BY <1>3, <2>3, <4>2, <4>3, PositionOf, Zenon DEF n
    <3>2. QED
      BY <2>3, <3>1, Zenon DEF At
  <2>4. QED
    BY <2>1, <2>2, <2>3, Zenon
<1>8. QED
  BY <1>3, <1>6, <1>7, Zenon DEF n, Gains

\* Assigning the value of an entry.
LEMMA SetEffect ==
  ASSUME NEW es, Distinct(es), NEW k \in Keys, In(es, k), NEW v \in Values \cup {NULL}
  PROVE  Assigns(es, [es EXCEPT ![Position(es, k)].val = v], k, v)
<1> SUFFICES ASSUME NEW fs, fs = [es EXCEPT ![Position(es, k)].val = v]
             PROVE  Assigns(es, fs, k, v)
  BY Zenon
<1> DEFINE p == Position(es, k)
           n == Len(es)
           e == [es[p] EXCEPT !.val = v]
<1>1. es \in Seq(Item) /\ n \in Nat /\ DOMAIN es = 1 .. n /\ es \in [1 .. n -> Item]
  BY DEF Distinct
<1>2. p \in 1 .. n /\ es[p].key = k
  BY PositionOf, Zenon
<1>3. es[p] \in [key : Keys, val : Values \cup {NULL}]
  BY <1>1, <1>2, Zenon DEF Item
<1>4. e \in Item /\ e.key = k /\ e.val = v
  BY <1>2, <1>3, Zenon DEF Item
<1>5. fs = [es EXCEPT ![p] = e]
  BY Zenon
<1> HIDE DEF p, e
<1>6. fs \in [1 .. n -> Item] /\ \A i \in 1 .. n : fs[i] = IF i = p THEN e ELSE es[i]
  BY <1>1, <1>2, <1>4, <1>5, Zenon
<1>7. fs \in Seq(Item) /\ Len(fs) = n /\ 1 .. Len(fs) = 1 .. n
  BY <1>1, <1>6
<1>8. \A i \in 1 .. n : fs[i].key = es[i].key
  BY <1>2, <1>4, <1>6, Zenon
<1> HIDE DEF n
<1>9. Distinct(fs)
  BY <1>7, <1>8, Zenon DEF Distinct, n
<1>10. ASSUME NEW q
       PROVE  /\ In(fs, q) <=> In(es, q)
              /\ At(fs, q) = IF q = k THEN v ELSE At(es, q)
  <2>1. In(fs, q) <=> In(es, q)
    <3>1. In(fs, q) <=> \E i \in 1 .. Len(fs) : fs[i].key = q
      BY <1>9, PositionOf
    <3>2. In(es, q) <=> \E i \in 1 .. n : es[i].key = q
      BY PositionOf, Zenon DEF n
    <3>3. QED
      BY <1>7, <1>8, <3>1, <3>2
  <2>2. CASE q = k
    <3>1. p \in 1 .. Len(fs) /\ fs[p].key = k /\ fs[p].val = v
      BY <1>2, <1>4, <1>6, <1>7, Zenon
    <3>2. QED
      BY <1>9, <2>1, <2>2, <3>1, PositionFinds, Zenon
  <2>3. CASE q # k /\ In(es, q)
    <3>1. PICK i \in 1 .. n : es[i].key = q
      BY <2>3, PositionOf, Zenon DEF n
    <3>2. fs[i].key = q /\ fs[i] = es[i]
      BY <1>2, <1>6, <1>8, <2>3, <3>1, Zenon
    <3>3. At(es, q) = es[i].val /\ At(fs, q) = fs[i].val
      BY <1>7, <1>9, <3>1, <3>2, PositionFinds, Zenon DEF n
    <3>4. QED
      BY <2>1, <2>3, <3>2, <3>3, Zenon
  <2>4. CASE q # k /\ ~In(es, q)
    BY <2>1, <2>4, Zenon DEF At
  <2>5. QED
    BY <2>2, <2>3, <2>4, <2>1, Zenon
<1>11. QED
  BY <1>7, <1>9, <1>10, Zenon DEF n, Assigns

\* vector::remove_fast takes one entry out and keeps the others.
LEMMA RemoveEffect ==
  ASSUME NEW es, Distinct(es), NEW k, In(es, k)
  PROVE  /\ Loses(es, remove_fast(es, Position(es, k)), k)
         /\ Position(es, k) = Len(es) => remove_fast(es, Position(es, k)) = Pop(es)
<1> SUFFICES ASSUME NEW fs, fs = remove_fast(es, Position(es, k))
             PROVE  Loses(es, fs, k) /\ (Position(es, k) = Len(es) => fs = Pop(es))
  BY Zenon
<1> DEFINE p == Position(es, k)
           n == Len(es)
           gs == [es EXCEPT ![p] = Last(es), ![n] = es[p]]
<1>1. es \in Seq(Item) /\ n \in Nat /\ DOMAIN es = 1 .. n /\ es \in [1 .. n -> Item]
  BY DEF Distinct
<1>2. p \in 1 .. n /\ es[p].key = k
  BY PositionOf, Zenon
<1>3. n \in 1 .. n
  BY <1>1, <1>2
<1> HIDE DEF p
<1>4. /\ gs \in [1 .. n -> Item]
      /\ \A i \in 1 .. n : gs[i] = IF i = n THEN es[p] ELSE IF i = p THEN es[n] ELSE es[i]
  BY <1>1, <1>2, <1>3 DEF Last
<1>5. fs = SubSeq(gs, 1, Len(gs) - 1)
  BY Zenon DEF remove_fast, Pop, p
<1> HIDE DEF gs
<1>6. gs \in Seq(Item) /\ Len(gs) = n
  BY <1>1, <1>4
<1>7. fs \in Seq(Item) /\ Len(fs) = n - 1 /\ \A i \in 1 .. (n - 1) : fs[i] = gs[i]
  BY <1>3, <1>5, <1>6
<1> HIDE DEF n
<1>8. \A i \in 1 .. (n - 1) : i \in 1 .. n /\ i # n
  BY <1>1
<1>9. \A i \in 1 .. n : i # n => i \in 1 .. (n - 1)
  BY <1>1
<1>10. \A i \in 1 .. (n - 1) : fs[i] = es[IF i = p THEN n ELSE i]
  BY <1>4, <1>7, <1>8, Zenon
<1>11. 1 .. Len(fs) = 1 .. (n - 1) /\ 1 .. Len(es) = 1 .. n
  BY <1>7, Zenon DEF n
<1>12. \A i, j \in 1 .. n : es[i].key = es[j].key => i = j
  BY <1>11, Zenon DEF Distinct
<1>13. Distinct(fs)
  <2>1. SUFFICES ASSUME NEW i \in 1 .. (n - 1), NEW j \in 1 .. (n - 1), fs[i].key = fs[j].key
                 PROVE  i = j
    BY <1>7, <1>11, Zenon DEF Distinct
  <2>2. (IF i = p THEN n ELSE i) = (IF j = p THEN n ELSE j)
    BY <1>3, <1>8, <1>10, <1>12, <2>1, Zenon
  <2>3. QED
    BY <1>8, <2>2, Zenon
<1>14. ASSUME NEW q
       PROVE  /\ In(fs, q) <=> q # k /\ In(es, q)
              /\ At(fs, q) = IF q = k THEN NULL ELSE At(es, q)
  <2>1. ASSUME In(fs, q) PROVE q # k /\ In(es, q)
    <3>0. PICK i \in 1 .. Len(fs) : fs[i].key = q
      BY <1>13, <2>1, PositionOf, Zenon
    <3>1. i \in 1 .. (n - 1) /\ fs[i].key = q
      BY <1>11, <3>0, Zenon
    <3> DEFINE j == IF i = p THEN n ELSE i
    <3>2. j \in 1 .. n /\ j # p /\ es[j].key = q
      BY <1>3, <1>8, <1>10, <3>1, Zenon
    <3>3. q # k
      BY <1>2, <1>12, <3>2, Zenon
    <3>4. QED
      BY <1>11, <3>2, <3>3, PositionOf, Zenon
  <2>2. ASSUME q # k, In(es, q) PROVE In(fs, q) /\ At(fs, q) = At(es, q)
    <3>1. PICK j \in 1 .. n : es[j].key = q
      BY <1>11, <2>2, PositionOf
    <3> DEFINE i == IF j = n THEN p ELSE j
    <3>2. j # p
      BY <1>2, <2>2, <3>1, Zenon
    <3>3. i \in 1 .. (n - 1) /\ fs[i] = es[j]
      BY <1>2, <1>9, <1>10, <3>2, Zenon
    <3>4. In(fs, fs[i].key) /\ At(fs, fs[i].key) = fs[i].val
      BY <1>11, <1>13, <3>3, PositionFinds, Zenon
    <3>5. At(es, es[j].key) = es[j].val
      BY <1>11, PositionFinds, Zenon
    <3>6. QED
      BY <3>1, <3>3, <3>4, <3>5, Zenon
  <2>3. QED
    BY <2>1, <2>2, Zenon DEF At
<1>15. p = n => fs = Pop(es)
  <2>1. SUFFICES ASSUME p = n PROVE fs = Pop(es)
    BY Zenon
  <2>2. gs = [es EXCEPT ![n] = es[n], ![n] = es[n]]
    BY <2>1, Zenon DEF gs, Last, n
  <2>3. gs = es
    BY <1>1, <1>3, <1>4, <2>1
  <2>4. QED
    BY <1>5, <2>3, Zenon DEF Pop
<1>16. QED
  BY <1>7, <1>13, <1>14, <1>15, Zenon DEF n, p, Loses

-----------------------------------------------------------------------------
(* Tables. *)

\* Every entry is in the bucket of its hash, and alone with its key.
Placed(t) ==
  \A i \in DOMAIN t.buckets :
    /\ Distinct(t.buckets[i].entries)
    /\ \A j \in 1 .. Len(t.buckets[i].entries) :
         Hash[t.buckets[i].entries[j].key] % t.num_buckets = i

Sound(t) == IsTable(t) /\ Placed(t)

\* The keys of a table.
Has(t) == {k \in Keys : HasEntry(t, k)}

\* t with another bucket i and another counter.
WithBucket(t, i, b, c) ==
  [power |-> t.power, num_buckets |-> t.num_buckets, total_entries |-> c,
   buckets |-> [t.buckets EXCEPT ![i] = b]]

\* The types of a table and of the index of a key.
LEMMA TableTypes ==
  ASSUME NEW t, IsTable(t)
  PROVE  /\ t = [power |-> t.power, num_buckets |-> t.num_buckets,
                 total_entries |-> t.total_entries, buckets |-> t.buckets]
         /\ t.power \in MIN_POWER .. MAX_POWER /\ t.num_buckets \in 0 .. Primes[t.power]
         /\ t.num_buckets \in Nat /\ t.total_entries \in Nat
         /\ DOMAIN t.buckets = 0 .. (t.num_buckets - 1)
         /\ t.buckets \in [0 .. (t.num_buckets - 1) -> Bucket]
         /\ \A k \in Keys : t.num_buckets # 0 =>
              get_bucket_index(t, k) \in 0 .. (t.num_buckets - 1)
<1>1. t \in [power : {t.power}, num_buckets : {t.num_buckets}, total_entries : Nat,
             buckets : [0 .. (t.num_buckets - 1) -> Bucket]]
  BY Zenon DEF IsTable, TablesOf
<1>2. /\ t = [power |-> t.power, num_buckets |-> t.num_buckets,
              total_entries |-> t.total_entries, buckets |-> t.buckets]
      /\ t.total_entries \in Nat
      /\ t.buckets \in [0 .. (t.num_buckets - 1) -> Bucket]
  BY <1>1
<1>3. t.power \in MIN_POWER .. MAX_POWER /\ t.num_buckets \in 0 .. Primes[t.power]
  BY Zenon DEF IsTable
<1>4. Primes[t.power] \in Nat
  BY <1>3, MapConstants
<1>5. t.num_buckets \in Nat
  BY <1>3, <1>4
<1>6. ASSUME NEW k \in Keys, t.num_buckets # 0
      PROVE  get_bucket_index(t, k) \in 0 .. (t.num_buckets - 1)
  <2>1. Hash[k] \in Nat
    BY MapConstants, Zenon
  <2>2. QED
    BY <1>5, <1>6, <2>1 DEF get_bucket_index
<1>7. QED
  BY <1>2, <1>3, <1>5, <1>6, Zenon

\* A lookup goes to one bucket.
LEMMA TableView ==
  ASSUME NEW t, NEW k
  PROVE  /\ HasEntry(t, k) <=> t.num_buckets # 0 /\ In(BucketOf(t, k), k)
         /\ TableGet(t, k) = IF t.num_buckets # 0 THEN At(BucketOf(t, k), k) ELSE NULL
BY Zenon DEF HasEntry, TableGet, In, At

\* Replacing a bucket affects the keys of this bucket only.
LEMMA BucketChange ==
  ASSUME NEW t, Sound(t), NEW i \in 0 .. (t.num_buckets - 1), t.num_buckets # 0,
         NEW b \in Bucket, Distinct(b.entries), Len(b.entries) <= b.capacity,
         \A q \in Keys : In(b.entries, q) => get_bucket_index(t, q) = i,
         NEW c \in Nat, NEW u, u = WithBucket(t, i, b, c)
  PROVE  /\ Sound(u)
         /\ u.power = t.power /\ u.num_buckets = t.num_buckets /\ u.total_entries = c
         /\ \A q \in Keys :
              /\ get_bucket_index(u, q) = get_bucket_index(t, q)
              /\ get_bucket_index(t, q) = i =>
                   /\ HasEntry(u, q) <=> In(b.entries, q)
                   /\ TableGet(u, q) = At(b.entries, q)
              /\ get_bucket_index(t, q) # i =>
                   /\ HasEntry(u, q) <=> HasEntry(t, q)
                   /\ TableGet(u, q) = TableGet(t, q)
<1> DEFINE n == t.num_buckets
<1>1. /\ u.power = t.power /\ u.num_buckets = n /\ u.total_entries = c
      /\ u.buckets = [t.buckets EXCEPT ![i] = b]
      /\ u = [power |-> t.power, num_buckets |-> n, total_entries |-> c,
              buckets |-> u.buckets]
  BY Zenon DEF WithBucket
<1>2. /\ t.power \in MIN_POWER .. MAX_POWER /\ n \in 0 .. Primes[t.power]
      /\ t.buckets \in [0 .. (n - 1) -> Bucket] /\ DOMAIN t.buckets = 0 .. (n - 1)
  BY TableTypes, Zenon DEF Sound
<1>3. /\ u.buckets \in [0 .. (n - 1) -> Bucket] /\ DOMAIN u.buckets = 0 .. (n - 1)
      /\ \A j \in 0 .. (n - 1) : u.buckets[j] = IF j = i THEN b ELSE t.buckets[j]
  BY <1>1, <1>2, Zenon
<1>4. IsTable(u)
  <2>1. u \in TablesOf(t.power, n)
    BY <1>1, <1>3, Zenon DEF TablesOf
  <2>2. \A j \in 0 .. (n - 1) : Len(u.buckets[j].entries) <= u.buckets[j].capacity
    BY <1>2, <1>3, Zenon DEF Sound, IsTable
  <2>3. QED
    BY <1>1, <1>2, <1>3, <2>1, <2>2, Zenon DEF IsTable
<1>5. Placed(u)
  <2>1. SUFFICES ASSUME NEW j \in 0 .. (n - 1)
                 PROVE  /\ Distinct(u.buckets[j].entries)
                        /\ \A a \in 1 .. Len(u.buckets[j].entries) :
                             Hash[u.buckets[j].entries[a].key] % u.num_buckets = j
    BY <1>3, Zenon DEF Placed
  <2>2. CASE j = i
    <3>1. SUFFICES ASSUME NEW a \in 1 .. Len(b.entries)
                   PROVE  Hash[b.entries[a].key] % n = i
      BY <1>1, <1>3, <2>2
    <3>2. b.entries[a].key \in Keys
      <4>1. b.entries \in Seq(Item)
        BY Zenon DEF Distinct
      <4>2. b.entries[a] \in Item
        BY <4>1
      <4>3. QED
        BY <4>2, Zenon DEF Item
    <3>3. In(b.entries, b.entries[a].key)
      BY PositionFinds, Zenon
    <3>4. QED
      BY <3>2, <3>3, Zenon DEF get_bucket_index
  <2>3. CASE j # i
    <3>1. /\ Distinct(t.buckets[j].entries)
          /\ \A a \in 1 .. Len(t.buckets[j].entries) :
               Hash[t.buckets[j].entries[a].key] % t.num_buckets = j
      BY <1>2, Zenon DEF Sound, Placed
    <3>2. u.buckets[j] = t.buckets[j] /\ u.num_buckets = t.num_buckets
      BY <1>1, <1>3, <2>3, Zenon
    <3>3. QED
      BY <3>1, <3>2, Zenon
  <2>4. QED
    BY <2>2, <2>3, Zenon
<1>6. ASSUME NEW q \in Keys
      PROVE  /\ get_bucket_index(u, q) = get_bucket_index(t, q)
             /\ get_bucket_index(t, q) = i =>
                  /\ HasEntry(u, q) <=> In(b.entries, q)
                  /\ TableGet(u, q) = At(b.entries, q)
             /\ get_bucket_index(t, q) # i =>
                  /\ HasEntry(u, q) <=> HasEntry(t, q)
                  /\ TableGet(u, q) = TableGet(t, q)
  <2>1. get_bucket_index(u, q) = get_bucket_index(t, q)
    BY <1>1, Zenon DEF get_bucket_index
  <2>2. get_bucket_index(t, q) \in 0 .. (n - 1)
    BY TableTypes, Zenon DEF Sound
  <2>3. BucketOf(u, q) = IF get_bucket_index(t, q) = i THEN b.entries ELSE BucketOf(t, q)
    BY <1>3, <2>1, <2>2, Zenon DEF BucketOf
  <2>4. /\ HasEntry(u, q) <=> In(BucketOf(u, q), q)
        /\ TableGet(u, q) = At(BucketOf(u, q), q)
        /\ HasEntry(t, q) <=> In(BucketOf(t, q), q)
        /\ TableGet(t, q) = At(BucketOf(t, q), q)
    BY <1>1, TableView, Zenon
  <2>5. QED
    BY <2>1, <2>3, <2>4, Zenon
<1>7. QED
  BY <1>1, <1>4, <1>5, <1>6, Zenon DEF Sound

\* The buckets of a table, and the keys they may hold.
LEMMA BucketTypes ==
  ASSUME NEW t, Sound(t), NEW i \in 0 .. (t.num_buckets - 1),
         NEW b, b = t.buckets[i]
  PROVE  /\ b = [capacity |-> b.capacity, entries |-> b.entries]
         /\ b.capacity \in Nat /\ b.entries \in Seq(Item)
         /\ Distinct(b.entries) /\ Len(b.entries) <= b.capacity
         /\ \A q : In(b.entries, q) => q \in Keys /\ get_bucket_index(t, q) = i
<1>1. DOMAIN t.buckets = 0 .. (t.num_buckets - 1) /\ b \in Bucket
  BY TableTypes, Zenon DEF Sound
<1>2. /\ b = [capacity |-> b.capacity, entries |-> b.entries]
      /\ b.capacity \in Nat /\ b.entries \in Seq(Item)
  BY <1>1 DEF Bucket, Item
<1>3. Distinct(b.entries) /\ Len(b.entries) <= b.capacity
  BY <1>1, Zenon DEF Sound, IsTable, Placed
<1>4. ASSUME NEW q, In(b.entries, q) PROVE q \in Keys /\ get_bucket_index(t, q) = i
  <2>1. PICK j \in 1 .. Len(b.entries) : b.entries[j].key = q
    BY <1>3, <1>4, PositionOf, Zenon
  <2>2. b.entries[j] \in Item
    BY <1>2
  <2>3. q \in Keys
    BY <2>1, <2>2, Zenon DEF Item
  <2>4. Hash[b.entries[j].key] % t.num_buckets = i
    BY <1>1, Zenon DEF Sound, Placed
  <2>5. QED
    BY <2>1, <2>3, <2>4, Zenon DEF get_bucket_index
<1>5. QED
  BY <1>2, <1>3, <1>4, Zenon

\* table_get_or_create_entry: a new entry without a value.
Created(t, k) ==
  [t EXCEPT !.buckets[get_bucket_index(t, k)] = push_back(@, k),
            !.total_entries = @ + 1]

\* u is as large as t.
SameSize(t, u) == Sound(u) /\ u.power = t.power /\ u.num_buckets = t.num_buckets

\* u is t and an entry of k without a value.
Adds(t, u, k) ==
  /\ SameSize(t, u) /\ u.total_entries = t.total_entries + 1 /\ Has(u) = Has(t) \cup {k}
  /\ \A q \in Keys : TableGet(u, q) = IF q = k THEN NULL ELSE TableGet(t, q)

\* u is t with v as the value of k.
Writes(t, u, k, v) ==
  /\ SameSize(t, u) /\ u.total_entries = t.total_entries /\ Has(u) = Has(t)
  /\ \A q \in Keys : TableGet(u, q) = IF q = k THEN v ELSE TableGet(t, q)

\* u is t without the entry of k.
Drops(t, u, k) ==
  /\ SameSize(t, u) /\ Has(u) = Has(t) \ {k}
  /\ \A q \in Keys : TableGet(u, q) = IF q = k THEN NULL ELSE TableGet(t, q)

\* Creating an entry.
LEMMA CreateEffect ==
  ASSUME NEW t, Sound(t), NEW k \in Keys, t.num_buckets # 0, ~HasEntry(t, k)
  PROVE  Adds(t, Created(t, k), k)
<1> SUFFICES ASSUME NEW u, u = Created(t, k) PROVE Adds(t, u, k)
  BY Zenon
<1> DEFINE i == get_bucket_index(t, k)
           b == t.buckets[i]
           c == push_back(b, k)
<1>1. /\ i \in 0 .. (t.num_buckets - 1) /\ t.total_entries \in Nat
      /\ t = [power |-> t.power, num_buckets |-> t.num_buckets,
              total_entries |-> t.total_entries, buckets |-> t.buckets]
      /\ DOMAIN t.buckets = 0 .. (t.num_buckets - 1)
  BY TableTypes, Zenon DEF Sound
<1>2. u = WithBucket(t, i, c, t.total_entries + 1)
  <2> HIDE DEF c
  <2>1. u = [[t EXCEPT !.buckets = [t.buckets EXCEPT ![i] = c]]
                EXCEPT !.total_entries = t.total_entries + 1]
    BY <1>1 DEF Created, c
  <2>2. QED
    BY <1>1, <2>1, Zenon DEF WithBucket
<1> HIDE DEF i
<1>3. /\ b.capacity \in Nat /\ b.entries \in Seq(Item) /\ Distinct(b.entries)
      /\ Len(b.entries) <= b.capacity /\ Len(b.entries) \in Nat
      /\ \A q : In(b.entries, q) => q \in Keys /\ get_bucket_index(t, q) = i
  BY <1>1, BucketTypes
<1>4. ~In(b.entries, k)
  BY TableView, Zenon DEF BucketOf, i
<1> HIDE DEF b
<1>5. /\ c.entries = Append(b.entries, [key |-> k, val |-> NULL])
      /\ c.capacity = IF Len(b.entries) < b.capacity THEN b.capacity
                      ELSE IF b.capacity = 0 THEN 1 ELSE 2 * b.capacity
      /\ c = [capacity |-> c.capacity, entries |-> c.entries]
  BY Zenon DEF push_back, Room
<1> HIDE DEF c
<1>6. /\ Distinct(c.entries) /\ Len(c.entries) = Len(b.entries) + 1
      /\ \A q : In(c.entries, q) <=> q = k \/ In(b.entries, q)
      /\ \A q : At(c.entries, q) = IF q = k THEN NULL ELSE At(b.entries, q)
  <2>1. Gains(b.entries, Append(b.entries, [key |-> k, val |-> NULL]), k)
    BY <1>3, <1>4, AppendEffect, Zenon
  <2>2. QED
    BY <1>5, <2>1, Zenon DEF Gains
<1>7. c.capacity \in Nat /\ Len(c.entries) <= c.capacity
  BY <1>3, <1>5, <1>6
<1>8. c.entries \in Seq(Item)
  BY <1>6, Zenon DEF Distinct
<1>9. c \in Bucket
  BY <1>5, <1>7, <1>8, Zenon DEF Bucket, Item
<1>10. \A q \in Keys : In(c.entries, q) => get_bucket_index(t, q) = i
  BY <1>3, <1>6, Zenon DEF i
<1>11. t.total_entries + 1 \in Nat
  BY <1>1
<1>12. /\ Sound(u) /\ u.power = t.power /\ u.num_buckets = t.num_buckets
       /\ u.total_entries = t.total_entries + 1
       /\ \A q \in Keys :
            /\ get_bucket_index(t, q) = i =>
                 /\ HasEntry(u, q) <=> In(c.entries, q)
                 /\ TableGet(u, q) = At(c.entries, q)
            /\ get_bucket_index(t, q) # i =>
                 /\ HasEntry(u, q) <=> HasEntry(t, q)
                 /\ TableGet(u, q) = TableGet(t, q)
  BY <1>1, <1>2, <1>6, <1>7, <1>9, <1>10, <1>11, BucketChange
<1>13. \A q \in Keys : get_bucket_index(t, q) = i =>
         /\ HasEntry(t, q) <=> In(b.entries, q)
         /\ TableGet(t, q) = At(b.entries, q)
  BY TableView, Zenon DEF BucketOf, b
<1>14. \A q \in Keys : /\ HasEntry(u, q) <=> q = k \/ HasEntry(t, q)
                       /\ TableGet(u, q) = IF q = k THEN NULL ELSE TableGet(t, q)
  BY <1>6, <1>12, <1>13, Zenon DEF i
<1>15. QED
  BY <1>12, <1>14, Zenon DEF Has, Adds, SameSize

\* t with other contents in the bucket of k.
WithEntries(t, k, es, c) ==
  WithBucket(t, get_bucket_index(t, k),
             [capacity |-> t.buckets[get_bucket_index(t, k)].capacity, entries |-> es], c)

\* Two assignments to the bucket of a key.
LEMMA EntriesAssigned ==
  ASSUME NEW t, Sound(t), NEW k \in Keys, t.num_buckets # 0
  PROVE  /\ \A v : SetVal(t, k, v) =
              WithEntries(t, k, [BucketOf(t, k) EXCEPT ![Position(BucketOf(t, k), k)].val = v],
                          t.total_entries)
         /\ bucket_remove(t, k) =
              WithEntries(t, k, remove_fast(BucketOf(t, k), Position(BucketOf(t, k), k)),
                          t.total_entries)
<1> DEFINE i == get_bucket_index(t, k)
           b == t.buckets[i]
<1>1. /\ i \in 0 .. (t.num_buckets - 1)
      /\ t = [power |-> t.power, num_buckets |-> t.num_buckets,
              total_entries |-> t.total_entries, buckets |-> t.buckets]
      /\ DOMAIN t.buckets = 0 .. (t.num_buckets - 1)
  BY TableTypes, Zenon DEF Sound
<1>2. b = [capacity |-> b.capacity, entries |-> b.entries] /\ b.entries = BucketOf(t, k)
  BY <1>1, BucketTypes DEF BucketOf
<1> HIDE DEF i
<1>3. ASSUME NEW es
      PROVE  [t EXCEPT !.buckets[i].entries = es] = WithEntries(t, k, es, t.total_entries)
  <2> DEFINE c == [capacity |-> b.capacity, entries |-> es]
  <2>1. [b EXCEPT !.entries = es] = c
    BY <1>2
  <2>2. [t EXCEPT !.buckets[i].entries = es]
          = [t EXCEPT !.buckets = [t.buckets EXCEPT ![i] = [b EXCEPT !.entries = es]]]
    BY <1>1
  <2> HIDE DEF c
  <2>3. [t EXCEPT !.buckets = [t.buckets EXCEPT ![i] = c]] = WithBucket(t, i, c, t.total_entries)
    BY <1>1 DEF WithBucket
  <2>4. QED
    BY <2>1, <2>2, <2>3, Zenon DEF WithEntries, c, i
<1>4. ASSUME NEW v
      PROVE  SetVal(t, k, v) = [t EXCEPT !.buckets[i].entries =
               [BucketOf(t, k) EXCEPT ![Position(BucketOf(t, k), k)].val = v]]
  BY <1>1, <1>2 DEF SetVal, i
<1>5. bucket_remove(t, k) = [t EXCEPT !.buckets[i].entries =
        remove_fast(BucketOf(t, k), Position(BucketOf(t, k), k))]
  BY <1>1, <1>2 DEF bucket_remove, i
<1>6. QED
  BY <1>3, <1>4, <1>5, Zenon

\* Fewer entries in one bucket, or other values.
LEMMA EntriesChange ==
  ASSUME NEW t, Sound(t), NEW k \in Keys, t.num_buckets # 0, NEW es, Distinct(es),
         Len(es) <= Len(BucketOf(t, k)), \A q : In(es, q) => In(BucketOf(t, k), q),
         NEW c \in Nat, NEW u, u = WithEntries(t, k, es, c)
  PROVE  /\ SameSize(t, u) /\ u.total_entries = c
         /\ \A q \in Keys : get_bucket_index(t, q) = get_bucket_index(t, k) =>
              /\ HasEntry(t, q) <=> In(BucketOf(t, k), q)
              /\ TableGet(t, q) = At(BucketOf(t, k), q)
              /\ HasEntry(u, q) <=> In(es, q)
              /\ TableGet(u, q) = At(es, q)
         /\ \A q \in Keys : get_bucket_index(t, q) # get_bucket_index(t, k) =>
              /\ HasEntry(u, q) <=> HasEntry(t, q)
              /\ TableGet(u, q) = TableGet(t, q)
<1> DEFINE i == get_bucket_index(t, k)
           b == t.buckets[i]
           d == [capacity |-> b.capacity, entries |-> es]
<1>1. i \in 0 .. (t.num_buckets - 1) /\ b.entries = BucketOf(t, k)
  BY TableTypes, Zenon DEF Sound, BucketOf
<1>2. /\ b.capacity \in Nat /\ Distinct(b.entries) /\ Len(b.entries) <= b.capacity
      /\ \A q : In(b.entries, q) => q \in Keys /\ get_bucket_index(t, q) = i
  BY <1>1, BucketTypes
<1>3. es \in Seq(Item) /\ b.entries \in Seq(Item)
  BY <1>2, Zenon DEF Distinct
<1>4. u = WithBucket(t, i, d, c)
  BY Zenon DEF WithEntries
<1>5. \A q \in Keys : get_bucket_index(t, q) = i =>
        /\ HasEntry(t, q) <=> In(BucketOf(t, k), q)
        /\ TableGet(t, q) = At(BucketOf(t, k), q)
  BY TableView, Zenon DEF BucketOf
<1> HIDE DEF i, b
<1>6. d.entries = es /\ d.capacity = b.capacity /\ d \in Bucket
  BY <1>2, <1>3, Zenon DEF Bucket, Item
<1> HIDE DEF d
<1>7. Len(es) <= b.capacity
  BY <1>1, <1>2, <1>3
<1>8. Distinct(d.entries) /\ Len(d.entries) <= d.capacity
  BY <1>6, <1>7, Zenon
<1>9. \A q \in Keys : In(d.entries, q) => get_bucket_index(t, q) = i
  BY <1>1, <1>2, <1>6, Zenon
<1>10. /\ Sound(u) /\ u.power = t.power /\ u.num_buckets = t.num_buckets
       /\ u.total_entries = c
       /\ \A q \in Keys :
            /\ get_bucket_index(t, q) = i =>
                 /\ HasEntry(u, q) <=> In(d.entries, q)
                 /\ TableGet(u, q) = At(d.entries, q)
            /\ get_bucket_index(t, q) # i =>
                 /\ HasEntry(u, q) <=> HasEntry(t, q)
                 /\ TableGet(u, q) = TableGet(t, q)
  BY <1>1, <1>4, <1>6, <1>8, <1>9, BucketChange
<1>11. QED
  BY <1>5, <1>6, <1>10, Zenon DEF SameSize, i

\* Assigning the value of the entry of k.
LEMMA SetValEffect ==
  ASSUME NEW t, Sound(t), NEW k \in Has(t), NEW v \in Values \cup {NULL}
  PROVE  Writes(t, SetVal(t, k, v), k, v)
<1> DEFINE bs == BucketOf(t, k)
           es == [bs EXCEPT ![Position(bs, k)].val = v]
           u == SetVal(t, k, v)
<1>1. k \in Keys /\ t.num_buckets # 0 /\ In(bs, k) /\ t.total_entries \in Nat
  BY TableView, TableTypes, Zenon DEF Has, Sound
<1>2. Distinct(bs)
  BY <1>1, TableTypes, BucketTypes DEF BucketOf, Sound
<1>3. u = WithEntries(t, k, es, t.total_entries)
  BY <1>1, EntriesAssigned, Zenon
<1>4. Assigns(bs, es, k, v)
  BY <1>1, <1>2, SetEffect, Zenon
<1> HIDE DEF es, u
<1>5. /\ Distinct(es) /\ Len(es) <= Len(bs) /\ \A q : In(es, q) <=> In(bs, q)
      /\ \A q : At(es, q) = IF q = k THEN v ELSE At(bs, q)
  BY <1>2, <1>4 DEF Assigns, Distinct
<1>6. /\ SameSize(t, u) /\ u.total_entries = t.total_entries
      /\ \A q \in Keys : get_bucket_index(t, q) = get_bucket_index(t, k) =>
           /\ HasEntry(t, q) <=> In(bs, q)
           /\ TableGet(t, q) = At(bs, q)
           /\ HasEntry(u, q) <=> In(es, q)
           /\ TableGet(u, q) = At(es, q)
      /\ \A q \in Keys : get_bucket_index(t, q) # get_bucket_index(t, k) =>
           /\ HasEntry(u, q) <=> HasEntry(t, q)
           /\ TableGet(u, q) = TableGet(t, q)
  BY <1>1, <1>3, <1>5, EntriesChange
<1> HIDE DEF bs
<1>7. \A q \in Keys : /\ HasEntry(u, q) <=> HasEntry(t, q)
                      /\ TableGet(u, q) = IF q = k THEN v ELSE TableGet(t, q)
  BY <1>5, <1>6, Zenon
<1>8. QED
  BY <1>6, <1>7, Zenon DEF Writes, Has, u

\* Taking the entry of k out, with or without counting it.
LEMMA RemoveKeyEffect ==
  ASSUME NEW t, Sound(t), NEW k \in Has(t)
  PROVE  /\ Drops(t, bucket_remove(t, k), k)
         /\ bucket_remove(t, k).total_entries = t.total_entries
         /\ t.total_entries # 0 =>
              /\ Drops(t, TableDel(t, k), k)
              /\ TableDel(t, k).total_entries = t.total_entries - 1
<1> DEFINE bs == BucketOf(t, k)
           es == remove_fast(bs, Position(bs, k))
           u == bucket_remove(t, k)
<1>1. k \in Keys /\ t.num_buckets # 0 /\ In(bs, k) /\ t.total_entries \in Nat /\ HasEntry(t, k)
  BY TableView, TableTypes, Zenon DEF Has, Sound
<1>2. Distinct(bs)
  BY <1>1, TableTypes, BucketTypes DEF BucketOf, Sound
<1>3. u = WithEntries(t, k, es, t.total_entries)
  BY <1>1, EntriesAssigned, Zenon
<1>4. Loses(bs, es, k)
  BY <1>1, <1>2, RemoveEffect, Zenon
<1>5. t.total_entries # 0 => TableDel(t, k) = WithEntries(t, k, es, t.total_entries - 1)
  <2> HIDE DEF es
  <2>1. TableDel(t, k) = [u EXCEPT !.total_entries = @ - 1]
    BY <1>1, Zenon DEF TableDel
  <2>2. QED
    BY <1>3, <2>1 DEF WithEntries, WithBucket
<1> HIDE DEF es, u
<1>6. /\ Distinct(es) /\ Len(es) <= Len(bs) /\ \A q : In(es, q) <=> q # k /\ In(bs, q)
      /\ \A q : At(es, q) = IF q = k THEN NULL ELSE At(bs, q)
  BY <1>2, <1>4 DEF Loses, Distinct
<1>7. ASSUME NEW w, NEW c \in Nat, w = WithEntries(t, k, es, c)
      PROVE  Drops(t, w, k) /\ w.total_entries = c
  <2>1. /\ SameSize(t, w) /\ w.total_entries = c
        /\ \A q \in Keys : get_bucket_index(t, q) = get_bucket_index(t, k) =>
             /\ HasEntry(t, q) <=> In(bs, q)
             /\ TableGet(t, q) = At(bs, q)
             /\ HasEntry(w, q) <=> In(es, q)
             /\ TableGet(w, q) = At(es, q)
        /\ \A q \in Keys : get_bucket_index(t, q) # get_bucket_index(t, k) =>
             /\ HasEntry(w, q) <=> HasEntry(t, q)
             /\ TableGet(w, q) = TableGet(t, q)
    BY <1>1, <1>6, <1>7, EntriesChange
  <2> HIDE DEF bs
  <2>2. \A q \in Keys : /\ HasEntry(w, q) <=> q # k /\ HasEntry(t, q)
                        /\ TableGet(w, q) = IF q = k THEN NULL ELSE TableGet(t, q)
    BY <1>6, <2>1, Zenon
  <2>3. QED
    BY <2>1, <2>2, Zenon DEF Drops, Has
<1>8. t.total_entries # 0 => t.total_entries - 1 \in Nat
  BY <1>1
<1>9. QED
  BY <1>1, <1>3, <1>5, <1>7, <1>8, Zenon DEF u

\* A table without entries.
Vacant(t) ==
  Sound(t) /\ t.total_entries = 0 /\ Has(t) = {} /\ \A q \in Keys : TableGet(t, q) = NULL

\* An empty bucket holds nothing.
LEMMA NothingIn ==
  /\ Distinct(<<>>) /\ <<>> \in Seq(Item) /\ Len(<<>>) = 0
  /\ \A k : ~In(<<>>, k) /\ At(<<>>, k) = NULL
<1>1. Distinct(<<>>) /\ <<>> \in Seq(Item) /\ Len(<<>>) = 0 /\ 1 .. Len(<<>>) = {}
  BY DEF Distinct
<1>2. \A k : ~In(<<>>, k)
  BY <1>1, PositionOf, Zenon
<1>3. QED
  BY <1>1, <1>2, Zenon DEF At

\* If all buckets are empty so is the table.
LEMMA AllEmpty ==
  ASSUME NEW t, IsTable(t), t.total_entries = 0,
         \A i \in 0 .. (t.num_buckets - 1) : t.buckets[i].entries = <<>>
  PROVE  Vacant(t)
<1>1. /\ DOMAIN t.buckets = 0 .. (t.num_buckets - 1)
      /\ \A k \in Keys : t.num_buckets # 0 => BucketOf(t, k) = <<>>
  BY TableTypes, Zenon DEF BucketOf
<1>2. Placed(t)
  <2>1. 1 .. Len(<<>>) = {}
    OBVIOUS
  <2>2. QED
    BY <1>1, <2>1, NothingIn, Zenon DEF Placed
<1>3. ASSUME NEW k \in Keys PROVE ~HasEntry(t, k) /\ TableGet(t, k) = NULL
  <2>1. CASE t.num_buckets = 0
    BY <2>1, TableView, Zenon
  <2>2. CASE t.num_buckets # 0
    <3>1. BucketOf(t, k) = <<>>
      BY <1>1, <2>2, Zenon
    <3>2. ~In(BucketOf(t, k), k) /\ At(BucketOf(t, k), k) = NULL
      BY <3>1, NothingIn, Zenon
    <3>3. QED
      BY <3>2, TableView, Zenon
  <2>3. QED
    BY <2>1, <2>2, Zenon
<1>4. QED
  BY <1>2, <1>3, Zenon DEF Vacant, Sound, Has

\* A new table, and one whose entries were deleted.
LEMMA FreshTable ==
  ASSUME NEW p \in MIN_POWER .. MAX_POWER, NEW n \in 0 .. Primes[p]
  PROVE  Vacant(Table(p, n)) /\ Table(p, n).power = p /\ Table(p, n).num_buckets = n
<1> DEFINE t == Table(p, n)
           b == [capacity |-> 0, entries |-> <<>>]
<1>1. /\ t = [power |-> p, num_buckets |-> n, total_entries |-> 0, buckets |-> t.buckets]
      /\ t.power = p /\ t.num_buckets = n /\ t.total_entries = 0
      /\ t.buckets = [i \in 0 .. (n - 1) |-> b]
  BY Zenon DEF Table
<1>2. b \in Bucket /\ b.entries = <<>> /\ b.capacity = 0 /\ Len(b.entries) <= b.capacity
  BY NothingIn DEF Bucket, Item
<1> HIDE DEF t, b
<1>3. /\ t.buckets \in [0 .. (n - 1) -> Bucket] /\ DOMAIN t.buckets = 0 .. (n - 1)
      /\ \A i \in 0 .. (n - 1) : t.buckets[i] = b
  BY <1>1, <1>2, Zenon
<1>4. t \in TablesOf(p, n)
  BY <1>1, <1>3 DEF TablesOf
<1>5. IsTable(t)
  BY <1>1, <1>2, <1>3, <1>4, Zenon DEF IsTable
<1>6. QED
  BY <1>1, <1>2, <1>3, <1>5, AllEmpty, Zenon DEF t

\* table_delete_all_entries leaves an empty table.
LEMMA DeletedAll ==
  ASSUME NEW t, Sound(t)
  PROVE  Vacant(table_delete_all_entries(t))
<1> DEFINE u == table_delete_all_entries(t)
           bs == [i \in 0 .. (t.num_buckets - 1) |-> [t.buckets[i] EXCEPT !.entries = <<>>]]
<1>1. /\ t = [power |-> t.power, num_buckets |-> t.num_buckets,
              total_entries |-> t.total_entries, buckets |-> t.buckets]
      /\ t.power \in MIN_POWER .. MAX_POWER /\ t.num_buckets \in 0 .. Primes[t.power]
      /\ DOMAIN t.buckets = 0 .. (t.num_buckets - 1)
  BY TableTypes, Zenon DEF Sound
<1>2. u = [power |-> t.power, num_buckets |-> t.num_buckets,
           total_entries |-> 0, buckets |-> bs]
  <2> DEFINE s == [power |-> t.power, num_buckets |-> t.num_buckets,
                   total_entries |-> 0, buckets |-> t.buckets]
  <2>1. [t EXCEPT !.total_entries = 0] = s
    BY <1>1
  <2>2. u = [s EXCEPT !.buckets = [i \in DOMAIN s.buckets |->
                                     [s.buckets[i] EXCEPT !.entries = <<>>]]]
    BY <2>1, Zenon DEF table_delete_all_entries
  <2>3. s.buckets = t.buckets
    BY Zenon
  <2>4. bs = [i \in DOMAIN s.buckets |-> [s.buckets[i] EXCEPT !.entries = <<>>]]
    BY <1>1, <2>3, Zenon
  <2> HIDE DEF bs
  <2>5. u = [s EXCEPT !.buckets = bs]
    BY <2>2, <2>4, Zenon
  <2>6. QED
    BY <2>5
<1>3. ASSUME NEW i \in 0 .. (t.num_buckets - 1)
      PROVE  /\ bs[i] \in Bucket /\ bs[i].entries = <<>>
             /\ Len(bs[i].entries) <= bs[i].capacity
  <2> DEFINE b == t.buckets[i]
  <2>1. b = [capacity |-> b.capacity, entries |-> b.entries] /\ b.capacity \in Nat
    BY BucketTypes
  <2> HIDE DEF b
  <2>2. [b EXCEPT !.entries = <<>>] = [capacity |-> b.capacity, entries |-> <<>>]
    BY <2>1
  <2> DEFINE d == [capacity |-> b.capacity, entries |-> <<>>]
  <2>3. bs[i] = d
    BY <2>2 DEF b
  <2>4. d.capacity \in Nat /\ d.entries = <<>> /\ d \in Bucket
    BY <2>1, NothingIn, Zenon DEF Bucket, Item
  <2> HIDE DEF bs, d
  <2>5. Len(d.entries) <= d.capacity
    BY <2>4, NothingIn
  <2>6. QED
    BY <2>3, <2>4, <2>5, Zenon
<1>4. bs \in [0 .. (t.num_buckets - 1) -> Bucket] /\ DOMAIN bs = 0 .. (t.num_buckets - 1)
  BY <1>3, Zenon
<1> HIDE DEF u, bs
<1>5. u \in TablesOf(t.power, t.num_buckets)
  BY <1>2, <1>4 DEF TablesOf
<1>6. /\ u.power = t.power /\ u.num_buckets = t.num_buckets /\ u.total_entries = 0
      /\ u.buckets = bs
  BY <1>2, Zenon
<1>7. IsTable(u)
  BY <1>1, <1>3, <1>4, <1>5, <1>6, Zenon DEF IsTable
<1>8. QED
  BY <1>3, <1>6, <1>7, AllEmpty, Zenon DEF u

\* The counter is at least the number of keys, and exact unless a put was
\* rolled back.
Counts(t) ==
  /\ IsFiniteSet(Has(t)) /\ Cardinality(Has(t)) <= t.total_entries
  /\ "value" \notin Failures => t.total_entries = Cardinality(Has(t))

Fine(t) == Sound(t) /\ Counts(t)

\* What the changes of a table do to its counter.
LEMMA Counting ==
  ASSUME NEW t, Fine(t), NEW u, NEW k
  PROVE  /\ t.total_entries \in Nat
         /\ t.total_entries = 0 => Has(t) = {}
         /\ k \in Has(t) => t.total_entries # 0
         /\ Adds(t, u, k) /\ k \notin Has(t) => Fine(u)
         /\ \A v : Writes(t, u, k, v) => Fine(u)
         /\ Drops(t, u, k) /\ k \in Has(t) /\ u.total_entries = t.total_entries - 1 => Fine(u)
         /\ Drops(t, u, k) /\ u.total_entries \in Nat /\ u.total_entries >= t.total_entries
              /\ "value" \in Failures => Fine(u)
<1> DEFINE H == Has(t)
           n == Cardinality(H)
           c == t.total_entries
<1>1. /\ IsFiniteSet(H) /\ n <= c /\ n \in Nat /\ c \in Nat
      /\ "value" \notin Failures => c = n
  BY TableTypes, FS_CardinalityType, Zenon DEF Fine, Sound, Counts
<1>2. /\ H = {} <=> n = 0
      /\ IsFiniteSet(H \cup {k}) /\ (k \notin H => Cardinality(H \cup {k}) = n + 1)
      /\ IsFiniteSet(H \ {k}) /\ (k \in H => Cardinality(H \ {k}) = n - 1)
      /\ (k \notin H => H \ {k} = H)
  BY <1>1, FS_AddElement, FS_RemoveElement, FS_EmptySet
<1> HIDE DEF H, n, c
<1>3. (c = 0 => H = {}) /\ (k \in H => c # 0)
  BY <1>1, <1>2
<1>4. ASSUME Adds(t, u, k), k \notin H PROVE Fine(u)
  <2>1. Sound(u) /\ u.total_entries = c + 1 /\ Has(u) = H \cup {k}
    BY <1>4, Zenon DEF Adds, SameSize, H, c
  <2>2. Cardinality(Has(u)) = n + 1 /\ IsFiniteSet(Has(u))
    BY <1>2, <1>4, <2>1, Zenon
  <2>3. QED
    BY <1>1, <2>1, <2>2 DEF Fine, Counts
<1>5. ASSUME NEW v, Writes(t, u, k, v) PROVE Fine(u)
  BY <1>5, Zenon DEF Writes, SameSize, Fine, Counts
<1>6. ASSUME Drops(t, u, k), k \in H, u.total_entries = c - 1 PROVE Fine(u)
  <2>1. Sound(u) /\ Has(u) = H \ {k}
    BY <1>6, Zenon DEF Drops, SameSize, H
  <2>2. Cardinality(Has(u)) = n - 1 /\ IsFiniteSet(Has(u))
    BY <1>2, <1>6, <2>1, Zenon
  <2>3. QED
    BY <1>1, <1>6, <2>1, <2>2 DEF Fine, Counts
<1>7. ASSUME Drops(t, u, k), u.total_entries \in Nat, u.total_entries >= c,
             "value" \in Failures
      PROVE  Fine(u)
  <2>1. Sound(u) /\ Has(u) = H \ {k}
    BY <1>7, Zenon DEF Drops, SameSize, H
  <2>2. (Cardinality(Has(u)) = n - 1 \/ Cardinality(Has(u)) = n) /\ IsFiniteSet(Has(u))
    BY <1>2, <2>1, Zenon DEF n
  <2>3. QED
    BY <1>1, <1>7, <2>1, <2>2 DEF Fine, Counts
<1>8. QED
  BY <1>1, <1>3, <1>4, <1>5, <1>6, <1>7, Zenon DEF H, c

\* A vacant table counts nothing.
LEMMA VacantIsFine ==
  ASSUME NEW t, Vacant(t)
  PROVE  Fine(t)
BY FS_EmptySet DEF Vacant, Fine, Counts

\* The type of what a lookup gives, and nothing for a key without an entry.
LEMMA GetTypes ==
  ASSUME NEW t, Sound(t), NEW k \in Keys
  PROVE  /\ TableGet(t, k) \in Values \cup {NULL}
         /\ k \notin Has(t) => TableGet(t, k) = NULL
<1>1. k \notin Has(t) => TableGet(t, k) = NULL
  BY Zenon DEF Has, TableGet
<1>2. CASE HasEntry(t, k)
  <2> DEFINE es == BucketOf(t, k)
             p == Position(es, k)
  <2>1. t.num_buckets # 0 /\ In(es, k)
    BY <1>2, TableView, Zenon
  <2>2. Distinct(es) /\ es \in Seq(Item)
    BY <2>1, TableTypes, BucketTypes DEF BucketOf, Sound
  <2>3. p \in 1 .. Len(es)
    BY <2>1, <2>2, PositionOf, Zenon
  <2> HIDE DEF p
  <2>4. es[p] \in Item
    BY <2>2, <2>3
  <2>5. TableGet(t, k) = es[p].val
    BY <1>2, Zenon DEF TableGet, p
  <2>6. QED
    BY <1>1, <2>4, <2>5, Zenon DEF Item
<1>3. CASE ~HasEntry(t, k)
  BY <1>1, <1>3, Zenon DEF TableGet
<1>4. QED
  BY <1>1, <1>2, <1>3, Zenon

-----------------------------------------------------------------------------
(* Moving entries. *)

MapRecord(main, secondary, state, current, locked) ==
  [main |-> main, secondary |-> secondary, state |-> state, current |-> current,
   locked |-> locked]

IsMap(m) == m = MapRecord(m.main, m.secondary, m.state, m.current, m.locked)

\* The assignments to the fields of the map that its operations make.
SetMain(m, x) == [m EXCEPT !.main = x]
SetSecondary(m, x) == [m EXCEPT !.secondary = x]
SetTables(m, x, y) == [m EXCEPT !.main = x, !.secondary = y]
SetCurrent(m, x) == [m EXCEPT !.current = x]
SetLocked(m, x) == [m EXCEPT !.locked = x]
Resizing(m, x) == [m EXCEPT !.secondary = x, !.state = "TRANSFER", !.current = 0]

\* The fields of a map.
LEMMA Fields ==
  ASSUME NEW a, NEW b, NEW c, NEW d, NEW e
  PROVE  /\ MapRecord(a, b, c, d, e).main = a /\ MapRecord(a, b, c, d, e).secondary = b
         /\ MapRecord(a, b, c, d, e).state = c /\ MapRecord(a, b, c, d, e).current = d
         /\ MapRecord(a, b, c, d, e).locked = e /\ IsMap(MapRecord(a, b, c, d, e))
  BY Zenon DEF MapRecord, IsMap

\* The map after each of these assignments.
LEMMA Assign ==
  ASSUME NEW m, IsMap(m), NEW x, NEW y
  PROVE  /\ SetMain(m, x) = MapRecord(x, m.secondary, m.state, m.current, m.locked)
         /\ SetSecondary(m, x) = MapRecord(m.main, x, m.state, m.current, m.locked)
         /\ SetCurrent(m, x) = MapRecord(m.main, m.secondary, m.state, x, m.locked)
         /\ SetLocked(m, x) = MapRecord(m.main, m.secondary, m.state, m.current, x)
         /\ Error(m) = MapRecord(m.main, m.secondary, "ERROR", m.current, m.locked)
         /\ SetTables(m, x, y) = MapRecord(x, y, m.state, m.current, m.locked)
         /\ Resizing(m, x) = MapRecord(m.main, x, "TRANSFER", 0, m.locked)
         /\ end_resize(m) = MapRecord(m.secondary, NULL, "STABLE", 0, m.locked)
<1> DEFINE a == m.main
           b == m.secondary
           c == m.state
           d == m.current
           e == m.locked
<1>1. m = MapRecord(a, b, c, d, e) /\ m.secondary = b
  BY Zenon DEF IsMap, MapRecord
<1> HIDE DEF a, b, c, d, e
<1>2. /\ SetMain(m, x) = MapRecord(x, b, c, d, e)
         /\ SetSecondary(m, x) = MapRecord(a, x, c, d, e)
         /\ SetCurrent(m, x) = MapRecord(a, b, c, x, e)
         /\ SetLocked(m, x) = MapRecord(a, b, c, d, x)
         /\ Error(m) = MapRecord(a, b, "ERROR", d, e)
  BY <1>1, SMT DEF SetMain, SetSecondary, SetCurrent, SetLocked, Error, MapRecord
<1>3. SetTables(m, x, y) = MapRecord(x, y, c, d, e)
  <2>1. SetTables(m, x, y) = [[m EXCEPT !.main = x] EXCEPT !.secondary = y]
    BY SMT DEF SetTables
  <2>2. [m EXCEPT !.main = x] = MapRecord(x, b, c, d, e)
    BY <1>1, SMT DEF MapRecord
  <2>3. [MapRecord(x, b, c, d, e) EXCEPT !.secondary = y] = MapRecord(x, y, c, d, e)
    BY SMT DEF MapRecord
  <2>4. QED
    BY <2>1, <2>2, <2>3, Zenon
<1>4. ASSUME NEW r, NEW f, r = MapRecord(f, b, c, d, e) PROVE Resizing(r, x) = MapRecord(f, x, "TRANSFER", 0, e)
  <2>1. Resizing(r, x) = [[[r EXCEPT !.secondary = x] EXCEPT !.state = "TRANSFER"] EXCEPT !.current = 0]
    BY SMT DEF Resizing
  <2>2. [r EXCEPT !.secondary = x] = MapRecord(f, x, c, d, e)
    BY <1>4, SMT DEF MapRecord
  <2>3. [MapRecord(f, x, c, d, e) EXCEPT !.state = "TRANSFER"] = MapRecord(f, x, "TRANSFER", d, e)
    BY SMT DEF MapRecord
  <2>4. [MapRecord(f, x, "TRANSFER", d, e) EXCEPT !.current = 0] = MapRecord(f, x, "TRANSFER", 0, e)
    BY SMT DEF MapRecord
  <2>5. QED
    BY <2>1, <2>2, <2>3, <2>4, Zenon
<1>5. end_resize(m) = MapRecord(b, NULL, "STABLE", 0, e)
  <2>1. end_resize(m) = [[[[m EXCEPT !.main = b] EXCEPT !.secondary = NULL] EXCEPT !.state = "STABLE"] EXCEPT !.current = 0]
    BY <1>1, SMT DEF end_resize
  <2>2. [m EXCEPT !.main = b] = MapRecord(b, b, c, d, e)
    BY <1>1, SMT DEF MapRecord
  <2>3. [MapRecord(b, b, c, d, e) EXCEPT !.secondary = NULL] = MapRecord(b, NULL, c, d, e)
    BY SMT DEF MapRecord
  <2>4. [MapRecord(b, NULL, c, d, e) EXCEPT !.state = "STABLE"] = MapRecord(b, NULL, "STABLE", d, e)
    BY SMT DEF MapRecord
  <2>5. [MapRecord(b, NULL, "STABLE", d, e) EXCEPT !.current = 0] = MapRecord(b, NULL, "STABLE", 0, e)
    BY SMT DEF MapRecord
  <2>6. QED
    BY <2>1, <2>2, <2>3, <2>4, <2>5, Zenon
<1>6. QED
  BY <1>1, <1>2, <1>3, <1>4, <1>5, Zenon DEF a, b, c, d, e

\* No entry of the main table is behind the cursor.
Ahead(m) == \A k \in Has(m.main) : get_bucket_index(m.main, k) >= m.current

\* The two tables of a map that is being resized: the husks of the main one
\* are the keys that are in both.
Pair(m) ==
  /\ IsMap(m) /\ m.current \in Nat /\ Fine(m.main) /\ Fine(m.secondary)
  /\ \A k \in Has(m.main) : TableGet(m.main, k) = NULL <=> k \in Has(m.secondary)
  /\ \A k \in Has(m.secondary) : TableGet(m.secondary, k) # NULL
  /\ Ahead(m)

\* What get finds during a resize.
Look(m, k) ==
  IF TableGet(m.secondary, k) # NULL THEN TableGet(m.secondary, k) ELSE TableGet(m.main, k)

\* e is the last entry of bucket i, which TableDel takes out as a transfer does.
IsLast(t, i, e) ==
  /\ e.key \in Has(t) /\ get_bucket_index(t, e.key) = i /\ TableGet(t, e.key) = e.val
  /\ t.total_entries # 0 =>
       TableDel(t, e.key) = [t EXCEPT !.buckets[i].entries = Pop(@), !.total_entries = @ - 1]

\* The last entry of a bucket, and the bucket without it.
LEMMA LastEntry ==
  ASSUME NEW t, Sound(t), NEW i \in 0 .. (t.num_buckets - 1), t.buckets[i].entries # <<>>
  PROVE  IsLast(t, i, Last(t.buckets[i].entries))
<1> DEFINE es == t.buckets[i].entries
           k == Last(es).key
           n == Len(es)
<1>1. /\ Distinct(es) /\ es \in Seq(Item)
      /\ \A q : In(es, q) => q \in Keys /\ get_bucket_index(t, q) = i
  BY BucketTypes
<1>2. n \in 1 .. n /\ Last(es) = es[n]
  BY <1>1 DEF Last
<1>3. Position(es, k) = n /\ In(es, k) /\ At(es, k) = es[n].val
  BY <1>1, <1>2, PositionFinds, Zenon
<1>4. /\ k \in Keys /\ get_bucket_index(t, k) = i /\ BucketOf(t, k) = es
      /\ t.num_buckets \in Nat
  BY <1>1, <1>3, TableTypes, Zenon DEF BucketOf, Sound
<1>5. t.num_buckets # 0
  BY <1>4
<1>6. HasEntry(t, k) /\ TableGet(t, k) = es[n].val
  BY <1>3, <1>4, <1>5, TableView, Zenon
<1>7. ASSUME t.total_entries # 0
      PROVE  TableDel(t, k) = [t EXCEPT !.buckets[i].entries = Pop(@), !.total_entries = @ - 1]
  <2>1. remove_fast(es, Position(es, k)) = Pop(es)
    BY <1>1, <1>3, RemoveEffect, Zenon
  <2>2. bucket_remove(t, k) = [t EXCEPT !.buckets[i].entries = remove_fast(@, Position(@, k))]
    BY <1>4, Zenon DEF bucket_remove
  <2>3. bucket_remove(t, k) = [t EXCEPT !.buckets[i].entries = Pop(@)]
    BY <2>1, <2>2, Zenon
  <2>4. TableDel(t, k) = [bucket_remove(t, k) EXCEPT !.total_entries = @ - 1]
    BY <1>6, Zenon DEF TableDel
  <2>5. QED
    BY <2>3, <2>4, Zenon
<1>8. QED
  BY <1>2, <1>4, <1>6, <1>7, Zenon DEF Has, IsLast

\* NextBucket is the bucket of the first key at or behind the cursor.
LEMMA NextBucketIs ==
  ASSUME NEW m, Sound(m.main), m.current \in Nat, Ahead(m)
  PROVE  /\ NextBucket(m) \in Nat
         /\ \A k \in Has(m.main) : get_bucket_index(m.main, k) >= NextBucket(m)
         /\ NextBucket(m) # m.main.num_buckets =>
              /\ NextBucket(m) \in 0 .. (m.main.num_buckets - 1)
              /\ m.main.buckets[NextBucket(m)].entries # <<>>
         /\ NextBucket(m) = m.main.num_buckets => Has(m.main) = {}
<1> DEFINE t == m.main
           c == m.current
           n == t.num_buckets
           nonempty(j) == t.buckets[j].entries # <<>>
           T == {j \in c .. (n - 1) : nonempty(j)}
<1>1. n \in Nat /\ c \in Nat
  BY TableTypes, Zenon DEF Sound
<1>2. T \subseteq Nat /\ \A j \in c .. (n - 1) : j \in 0 .. (n - 1)
  BY <1>1
<1>3. ASSUME NEW k \in Has(t)
      PROVE  get_bucket_index(t, k) \in c .. (n - 1) /\ nonempty(get_bucket_index(t, k))
  <2>1. k \in Keys /\ n # 0 /\ In(BucketOf(t, k), k)
    BY TableView, Zenon DEF Has
  <2>2. get_bucket_index(t, k) \in 0 .. (n - 1) /\ get_bucket_index(t, k) >= c
    BY <2>1, TableTypes, Zenon DEF Sound, Ahead
  <2>3. nonempty(get_bucket_index(t, k))
    BY <2>1, NothingIn, Zenon DEF BucketOf
  <2>4. QED
    BY <1>1, <2>2, <2>3
<1>4. CASE T = {}
  <2>1. NextBucket(m) = n
    BY <1>4, Zenon DEF NextBucket
  <2>2. Has(t) = {}
    BY <1>3, <1>4, Zenon
  <2>3. QED
    BY <1>1, <2>1, <2>2, Zenon
<1>5. CASE T # {}
  <2>1. PICK x \in T : \A y \in T : x <= y
    BY <1>2, <1>5, LeastElement, Zenon
  <2>2. x \in c .. (n - 1) /\ nonempty(x) /\ x \in Nat
    BY <1>2, <2>1, Zenon
  <2>3. \A j \in c .. (x - 1) : j \in c .. (n - 1) /\ ~(x <= j)
    BY <1>1, <2>2
  <2>4. \A j \in c .. (x - 1) : t.buckets[j].entries = <<>>
    BY <2>1, <2>3, Zenon
  <2>5. ASSUME NEW y \in c .. (n - 1), nonempty(y),
               \A j \in c .. (y - 1) : t.buckets[j].entries = <<>>
        PROVE  y = x
    <3>1. x <= y
      BY <2>1, <2>5, Zenon
    <3>2. x \notin c .. (y - 1)
      BY <2>2, <2>5, Zenon
    <3>3. QED
      BY <1>1, <2>2, <3>1, <3>2
  <2>6. NextBucket(m) = x
    <3>1. \E i \in c .. (n - 1) : nonempty(i)
      BY <2>2, Zenon
    <3>2. NextBucket(m) = CHOOSE i \in c .. (n - 1) :
            /\ nonempty(i) /\ \A j \in c .. (i - 1) : t.buckets[j].entries = <<>>
      BY <3>1, Zenon DEF NextBucket
    <3>3. QED
      BY <2>2, <2>4, <2>5, <3>2, Zenon
  <2>7. x # n
    BY <1>1, <2>2
  <2>8. \A k \in Has(t) : get_bucket_index(t, k) >= x
    <3>1. SUFFICES ASSUME NEW k \in Has(t) PROVE get_bucket_index(t, k) >= x
      BY Zenon
    <3>2. x <= get_bucket_index(t, k) /\ get_bucket_index(t, k) \in Nat
      BY <1>2, <1>3, <2>1, Zenon
    <3>3. QED
      BY <2>2, <3>2
  <2>9. QED
    BY <1>2, <2>2, <2>6, <2>7, <2>8, Zenon
<1>6. QED
  BY <1>4, <1>5, Zenon

\* What table_get_or_create_entry gives for the key k of a table t.
Acquires(t, k, r) ==
  \/ r.how = "found" /\ k \in Has(t) /\ r.table = t
  \/ r.how = "created" /\ k \notin Has(t) /\ t.num_buckets # 0 /\ r.table = Created(t, k)
  \/ r.how = "failed" /\ k \notin Has(t) /\ r.table = t

\* table_get_or_create_entry finds the entry, makes one, or fails.
LEMMA GetOrCreate ==
  ASSUME NEW t, NEW k \in Keys, NEW ok
  PROVE  Acquires(t, k, table_get_or_create_entry(t, k, ok))
<1> DEFINE r == table_get_or_create_entry(t, k, ok)
<1> HIDE DEF r
<1> SUFFICES Acquires(t, k, r)
  BY Zenon DEF r
<1>1. CASE t.num_buckets = 0
  <2>1. r = [table |-> t, how |-> "failed"]
    BY <1>1, Zenon DEF table_get_or_create_entry, HasEntry, r
  <2>2. r.table = t /\ r.how = "failed"
    BY <2>1, Zenon
  <2>3. QED
    BY <1>1, <2>2, Zenon DEF Has, HasEntry, Acquires
<1>2. CASE t.num_buckets # 0 /\ HasEntry(t, k)
  <2>1. r = [table |-> t, how |-> "found"]
    BY <1>2, Zenon DEF table_get_or_create_entry, r
  <2>2. r.table = t /\ r.how = "found"
    BY <2>1, Zenon
  <2>3. QED
    BY <1>2, <2>2, Zenon DEF Has, Acquires
<1>3. CASE t.num_buckets # 0 /\ ~HasEntry(t, k)
  <2>1. \/ r = [table |-> Created(t, k), how |-> "created"]
        \/ r = [table |-> t, how |-> "failed"]
    BY <1>3, Zenon DEF table_get_or_create_entry, Created, r
  <2>2. \/ r.table = Created(t, k) /\ r.how = "created"
        \/ r.table = t /\ r.how = "failed"
    <3>1. CASE r = [table |-> Created(t, k), how |-> "created"]
      BY <3>1, Zenon
    <3>2. CASE r = [table |-> t, how |-> "failed"]
      BY <3>2, Zenon
    <3>3. QED
      BY <2>1, <3>1, <3>2, Zenon
  <2>3. QED
    BY <1>3, <2>2, Zenon DEF Has, Acquires
<1>4. QED
  BY <1>1, <1>2, <1>3, Zenon

\* u is t and an entry of k with value v.
Receives(t, u, k, v) ==
  /\ Fine(u) /\ SameSize(t, u) /\ Has(u) = Has(t) \cup {k}
  /\ u.total_entries = t.total_entries + 1
  /\ \A q \in Keys : TableGet(u, q) = IF q = k THEN v ELSE TableGet(t, q)

\* An entry that is created and given a value.
LEMMA NewEntry ==
  ASSUME NEW t, Fine(t), NEW k \in Keys, k \notin Has(t), t.num_buckets # 0,
         NEW v \in Values \cup {NULL}
  PROVE  Receives(t, SetVal(Created(t, k), k, v), k, v)
<1> DEFINE s == Created(t, k)
           u == SetVal(s, k, v)
<1>1. Sound(t) /\ ~HasEntry(t, k)
  BY Zenon DEF Fine, Has
<1>2. Adds(t, s, k)
  BY <1>1, CreateEffect, Zenon
<1>3. Fine(s) /\ k \in Has(s)
  <2>1. k \in Has(t) \cup {k}
    BY Zenon
  <2>2. QED
    BY <1>2, <2>1, Counting, Zenon DEF Adds
<1>4. Writes(s, u, k, v)
  BY <1>3, SetValEffect, Zenon DEF Fine
<1>5. Fine(u)
  BY <1>3, <1>4, Counting, Zenon
<1> HIDE DEF s, u
<1>6. QED
  BY <1>2, <1>3, <1>4, <1>5, Zenon DEF Adds, Writes, SameSize, Receives, u, s

\* r is a map that looks the same to a client.
Kept(m, r) ==
  /\ r = [map |-> r.map, how |-> r.how] /\ r.how \in {"more", "done", "failed"}
  /\ Pair(r.map) /\ r.map.state = m.state /\ r.map.locked = m.locked
  /\ \A k \in Keys : Look(r.map, k) = Look(m, k)

\* A move that goes on takes an entry away; one that is done leaves none.
Progress(m, r) ==
  /\ r.how = "more" => Cardinality(Has(r.map.main)) = Cardinality(Has(m.main)) - 1
  /\ r.how = "done" => Has(r.map.main) = {}

\* Moving one entry changes nothing a client could see.
LEMMA MoveKeeps ==
  ASSUME NEW m, Pair(m), NEW ok
  PROVE  Kept(m, MoveEntry(m, ok)) /\ Progress(m, MoveEntry(m, ok))
<1> DEFINE t == m.main
           s == m.secondary
           i == NextBucket(m)
           e == Last(t.buckets[i].entries)
           k == e.key
           r == table_get_or_create_entry(s, k, ok)
           rest == [t EXCEPT !.buckets[i].entries = Pop(@), !.total_entries = @ - 1]
           n == [m EXCEPT !.current = i]
           res == MoveEntry(m, ok)
<1>1. /\ IsMap(m) /\ m.current \in Nat /\ Fine(t) /\ Fine(s) /\ Sound(t) /\ Sound(s)
      /\ \A q \in Has(t) : TableGet(t, q) = NULL <=> q \in Has(s)
      /\ \A q \in Has(s) : TableGet(s, q) # NULL
      /\ Ahead(m) /\ t.num_buckets \in Nat
  BY TableTypes, Zenon DEF Pair, Fine, Sound
<1>2. /\ i \in Nat /\ \A q \in Has(t) : get_bucket_index(t, q) >= i
      /\ i # t.num_buckets => i \in 0 .. (t.num_buckets - 1) /\ t.buckets[i].entries # <<>>
      /\ i = t.num_buckets => Has(t) = {}
  BY <1>1, NextBucketIs, Zenon
<1>3. /\ n = [main |-> t, secondary |-> s, state |-> m.state, current |-> i,
              locked |-> m.locked]
      /\ n.main = t /\ n.secondary = s /\ n.state = m.state /\ n.current = i
      /\ n.locked = m.locked
  <2> HIDE DEF i
  <2>1. n = [main |-> t, secondary |-> s, state |-> m.state, current |-> i,
             locked |-> m.locked]
    <3>1. SetCurrent(m, i) = MapRecord(t, s, m.state, i, m.locked)
      BY <1>1, Assign, Zenon
    <3>2. QED
      BY <3>1, Zenon DEF SetCurrent, MapRecord
  <2>2. QED
    BY <2>1, Zenon
<1>4. /\ i = t.num_buckets => res = [map |-> n, how |-> "done"]
      /\ i < t.num_buckets /\ r.how = "failed" => res = [map |-> n, how |-> "failed"]
      /\ i < t.num_buckets /\ r.how = "found" =>
           res = [map |-> [n EXCEPT !.main = rest], how |-> "more"]
      /\ i < t.num_buckets /\ r.how = "created" =>
           res = [map |-> [n EXCEPT !.main = rest, !.secondary = SetVal(r.table, k, e.val)],
                  how |-> "more"]
  <2>1. (i = t.num_buckets) => ~(i < t.num_buckets)
    BY <1>1, <1>2
  <2> HIDE DEF i, n
  <2>2. QED
    BY <2>1, Zenon DEF MoveEntry, i, n
<1> HIDE DEF i, n, res
<1> SUFFICES Kept(m, res) /\ Progress(m, res)
  BY Zenon DEF res
<1>5. i # t.num_buckets => i < t.num_buckets
  BY <1>1, <1>2
<1>6. Pair(n) /\ \A q \in Keys : Look(n, q) = Look(m, q)
  <2>1. IsMap(n)
    BY <1>3, Zenon DEF IsMap, MapRecord
  <2>2. QED
    BY <1>1, <1>2, <1>3, <2>1, Zenon DEF Pair, Look, Ahead
<1>7. ASSUME NEW how \in {"done", "failed"}, how = "done" => Has(t) = {},
             res = [map |-> n, how |-> how]
      PROVE  Kept(m, res) /\ Progress(m, res)
  <2>1. res.map = n /\ res = [map |-> res.map, how |-> res.how] /\ res.how = how
    BY <1>7, Zenon
  <2>2. Kept(m, res)
    BY <1>3, <1>6, <1>7, <2>1, Zenon DEF Kept
  <2>3. Progress(m, res)
    BY <1>3, <1>7, <2>1, Zenon DEF Progress
  <2>4. QED
    BY <2>2, <2>3, Zenon
<1>8. CASE i = t.num_buckets
  <2>1. res = [map |-> n, how |-> "done"]
    BY <1>4, <1>8, Zenon
  <2>2. QED
    BY <1>2, <1>7, <1>8, <2>1, Zenon
<1>9. CASE i # t.num_buckets
  <2>1. /\ k \in Has(t) /\ get_bucket_index(t, k) = i /\ TableGet(t, k) = e.val
        /\ t.total_entries # 0 => TableDel(t, k) = rest
    <3>1. IsLast(t, i, e)
      BY <1>1, <1>2, <1>9, LastEntry, Zenon
    <3> HIDE DEF e
    <3>2. QED
      BY <3>1, Zenon DEF IsLast
  <2>2. t.total_entries # 0 /\ t.total_entries \in Nat /\ k \in Keys
    BY <1>1, <2>1, Counting, Zenon DEF Has
  <2> HIDE DEF k, e, r, rest
  <2>3. Drops(t, rest, k) /\ rest.total_entries = t.total_entries - 1
    BY <1>1, <2>1, <2>2, RemoveKeyEffect, Zenon
  <2>4. Fine(rest)
    BY <1>1, <2>1, <2>3, Counting, Zenon
  <2>5. /\ rest.num_buckets = t.num_buckets /\ Has(rest) = Has(t) \ {k}
        /\ \A q \in Keys : TableGet(rest, q) = IF q = k THEN NULL ELSE TableGet(t, q)
    BY <2>3, Zenon DEF Drops, SameSize
  <2>6. Acquires(s, k, r)
    BY <2>2, GetOrCreate, Zenon DEF r
  <2>7. ASSUME NEW u, Fine(u), Has(u) = Has(s) \cup {k},
               \A q \in Keys : q # k => TableGet(u, q) = TableGet(s, q),
               TableGet(u, k) # NULL, TableGet(u, k) = Look(m, k),
               res = [map |-> MapRecord(rest, u, m.state, i, m.locked), how |-> "more"]
        PROVE  Kept(m, res) /\ Progress(m, res)
    <3> DEFINE z == MapRecord(rest, u, m.state, i, m.locked)
    <3>1. /\ z.main = rest /\ z.secondary = u /\ z.state = m.state /\ z.current = i
          /\ z.locked = m.locked /\ IsMap(z)
      BY Zenon DEF IsMap, MapRecord
    <3> HIDE DEF z
    <3>2. Ahead(z)
      BY <1>2, <2>5, <3>1, Zenon DEF Ahead, get_bucket_index
    <3>3. \A q \in Has(rest) : q # k /\ q \in Has(t) /\ q \in Keys
      BY <2>5, Zenon DEF Has
    <3>4. \A q \in Has(rest) : TableGet(rest, q) = NULL <=> q \in Has(u)
      BY <1>1, <2>5, <2>7, <3>3, Zenon
    <3>5. \A q \in Has(u) : TableGet(u, q) # NULL
      BY <1>1, <2>7, Zenon DEF Has
    <3>6. Pair(z)
      BY <1>2, <2>4, <2>7, <3>1, <3>2, <3>4, <3>5, Zenon DEF Pair
    <3>7. \A q \in Keys : Look(z, q) = Look(m, q)
      BY <2>5, <2>7, <3>1, Zenon DEF Look
    <3>8. res.map = z /\ res = [map |-> res.map, how |-> res.how] /\ res.how = "more"
      BY <2>7, Zenon DEF z
    <3>9. Cardinality(Has(rest)) = Cardinality(Has(t)) - 1
      <4>1. IsFiniteSet(Has(t))
        BY <1>1, Zenon DEF Fine, Counts
      <4>2. Cardinality(Has(t) \ {k}) = Cardinality(Has(t)) - 1
        BY <2>1, <4>1, FS_RemoveElement, Zenon
      <4>3. QED
        BY <2>5, <4>2, Zenon
    <3>10. Progress(m, res)
      BY <3>1, <3>8, <3>9, Zenon DEF Progress
    <3>11. QED
      BY <3>1, <3>6, <3>7, <3>8, <3>10, Zenon DEF Kept
  <2>8. CASE r.how = "failed"
    <3>1. res = [map |-> n, how |-> "failed"]
      BY <1>4, <1>5, <1>9, <2>8, Zenon DEF r, k, e
    <3>2. QED
      BY <1>7, <3>1, Zenon
  <2>9. CASE r.how = "found" /\ k \in Has(s)
    <3>1. Has(s) = Has(s) \cup {k} /\ TableGet(s, k) # NULL
      BY <1>1, <2>9, Zenon
    <3>2. TableGet(s, k) = Look(m, k)
      BY <3>1, Zenon DEF Look
    <3>3. res = [map |-> [n EXCEPT !.main = rest], how |-> "more"]
      BY <1>4, <1>5, <1>9, <2>9, Zenon DEF r, k, e, rest
    <3>4. [n EXCEPT !.main = rest] = MapRecord(rest, s, m.state, i, m.locked)
      BY <1>3 DEF MapRecord
    <3>5. res = [map |-> MapRecord(rest, s, m.state, i, m.locked), how |-> "more"]
      BY <3>3, <3>4, Zenon
    <3>6. QED
      BY <1>1, <2>7, <3>1, <3>2, <3>5, Zenon
  <2>10. CASE /\ r.how = "created" /\ k \notin Has(s) /\ s.num_buckets # 0
              /\ r.table = Created(s, k)
    <3> DEFINE u == SetVal(Created(s, k), k, e.val)
    <3>1. e.val \in Values \cup {NULL}
      BY <1>1, <2>1, <2>2, GetTypes, Zenon
    <3>2. /\ Fine(u) /\ Has(u) = Has(s) \cup {k}
          /\ \A q \in Keys : TableGet(u, q) = IF q = k THEN e.val ELSE TableGet(s, q)
      <4>1. Receives(s, u, k, e.val)
        BY <1>1, <2>2, <2>10, <3>1, NewEntry, Zenon
      <4>2. QED
        BY <4>1, Zenon DEF Receives
    <3>3. e.val # NULL /\ TableGet(s, k) = NULL
      BY <1>1, <2>1, <2>2, <2>10, GetTypes, Zenon
    <3>4. TableGet(u, k) = e.val /\ Look(m, k) = e.val
      BY <2>1, <2>2, <3>2, <3>3, Zenon DEF Look
    <3>5. res = [map |-> [n EXCEPT !.main = rest, !.secondary = u], how |-> "more"]
      BY <1>4, <1>5, <1>9, <2>10, Zenon DEF r, k, e, rest
    <3> HIDE DEF u
    <3>6. [n EXCEPT !.main = rest, !.secondary = u] = MapRecord(rest, u, m.state, i, m.locked)
      <4>1. n = MapRecord(t, s, m.state, i, m.locked)
        BY <1>3, Zenon DEF MapRecord
      <4>2. [n EXCEPT !.main = rest, !.secondary = u] = SetTables(n, rest, u)
        BY Zenon DEF SetTables
      <4>3. IsMap(n)
        BY <4>1, Fields, Zenon
      <4>4. QED
        <5>1. SetTables(n, rest, u) = MapRecord(rest, u, n.state, n.current, n.locked)
          BY <4>3, Assign, Zenon
        <5>2. QED
          BY <1>3, <4>2, <5>1, Zenon
    <3>7. res = [map |-> MapRecord(rest, u, m.state, i, m.locked), how |-> "more"]
      BY <3>5, <3>6, Zenon
    <3>8. QED
      BY <2>2, <2>7, <3>2, <3>3, <3>4, <3>7, Zenon
  <2>11. QED
    BY <2>6, <2>8, <2>9, <2>10, Zenon DEF Acquires
<1>10. QED
  BY <1>8, <1>9, Zenon

\* The map after the first moves satisfies the recursion by which Moves defines it.
MovesTo(f, m, n, good) ==
  f = [j \in 0 .. n |->
         IF j = 0 THEN [map |-> m, how |-> "more"]
         ELSE IF f[j - 1].how # "more" THEN f[j - 1]
         ELSE MoveEntry(f[j - 1].map, j <= good)]

\* Moves is such a function: there is one for every number of moves.
LEMMA MovesDefined ==
  ASSUME NEW m, NEW limit \in Nat, NEW good
  PROVE  MovesTo(Moves(m, limit, good), m, limit, good)
<1> DEFINE T == {n \in Nat : ~ \E f : MovesTo(f, m, n, good)}
           next(j, r) == IF r.how # "more" THEN r ELSE MoveEntry(r.map, j <= good)
<1>1. T = {}
  <2>1. SUFFICES ASSUME T # {} PROVE FALSE
    BY Zenon
  <2>2. T \subseteq Nat
    BY Zenon
  <2>3. PICK x \in T : \A y \in T : x <= y
    BY <2>1, <2>2, LeastElement, Zenon
  <2>4. x \in Nat /\ ~ \E f : MovesTo(f, m, x, good)
    BY <2>3, Zenon
  <2>5. CASE x = 0
    <3> DEFINE f == [j \in 0 .. x |-> [map |-> m, how |-> "more"]]
    <3>1. \A j \in 0 .. x : j = 0
      BY <2>5
    <3>2. MovesTo(f, m, x, good)
      BY <3>1, Zenon DEF MovesTo
    <3>3. QED
      BY <2>4, <3>2, Zenon
  <2>6. CASE x # 0
    <3>1. x - 1 \in Nat /\ ~(x <= x - 1)
      BY <2>4, <2>6
    <3>2. PICK f : MovesTo(f, m, x - 1, good)
      BY <2>3, <3>1, Zenon
    <3> DEFINE g == [j \in 0 .. x |-> IF j = x THEN next(x, f[x - 1]) ELSE f[j]]
    <3>3. \A j \in 0 .. (x - 1) : f[j] = IF j = 0 THEN [map |-> m, how |-> "more"]
                                        ELSE next(j, f[j - 1])
      BY <3>2, Zenon DEF MovesTo
    <3> HIDE DEF next
    <3>4. ASSUME NEW j \in 0 .. x
          PROVE  g[j] = IF j = 0 THEN [map |-> m, how |-> "more"] ELSE next(j, g[j - 1])
      <4>1. CASE j = x
        <5>1. x - 1 \in 0 .. x /\ x - 1 # x
          BY <2>4, <2>6
        <5>2. g[x - 1] = f[x - 1]
          BY <5>1, Zenon
        <5>3. g[j] = next(x, f[x - 1])
          BY <4>1, Zenon
        <5> HIDE DEF g
        <5>4. QED
          BY <2>6, <4>1, <5>2, <5>3, Zenon
      <4>2. CASE j # x
        <5>1. j \in 0 .. (x - 1) /\ (j # 0 => j - 1 \in 0 .. x /\ j - 1 # x)
          BY <2>4, <4>2
        <5>2. j # 0 => g[j - 1] = f[j - 1]
          BY <5>1, Zenon
        <5>3. g[j] = f[j]
          BY <4>2, Zenon
        <5> HIDE DEF g
        <5>4. QED
          BY <3>3, <5>1, <5>2, <5>3, Zenon
      <4>3. QED
        BY <4>1, <4>2, Zenon
    <3>5. g = [j \in 0 .. x |-> g[j]]
      BY Zenon
    <3> HIDE DEF g
    <3>6. g = [j \in 0 .. x |-> IF j = 0 THEN [map |-> m, how |-> "more"] ELSE next(j, g[j - 1])]
      BY <3>4, <3>5, Zenon
    <3>7. MovesTo(g, m, x, good)
      BY <3>6, Zenon DEF MovesTo, next
    <3>8. QED
      BY <2>4, <3>7, Zenon
  <2>7. QED
    BY <2>5, <2>6, Zenon
<1>2. \E f : MovesTo(f, m, limit, good)
  BY <1>1, Zenon
<1>3. Moves(m, limit, good) = CHOOSE f : MovesTo(f, m, limit, good)
  BY Zenon DEF Moves, MovesTo, MoveOn
<1>4. QED
  BY <1>2, <1>3, Zenon

\* The state of a transfer after j moves.
Moved(m, j, r) ==
  /\ Kept(m, r)
  /\ r.how = "more" => Cardinality(Has(r.map.main)) = Cardinality(Has(m.main)) - j
  /\ r.how = "done" => Has(r.map.main) = {}

\* Transfer changes nothing a client could see, whatever allocations fail, and
\* ends early only because of that or because there is nothing left to move.
LEMMA TransferKeeps ==
  ASSUME NEW m, Pair(m), NEW limit \in Nat, NEW good
  PROVE  Moved(m, limit, Transfer(m, limit, good))
<1> DEFINE f == Moves(m, limit, good)
           T == {j \in 0 .. limit : ~Moved(m, j, f[j])}
           card(r) == Cardinality(Has(r.map.main))
<1>1. \A j \in 0 .. limit : f[j] = IF j = 0 THEN [map |-> m, how |-> "more"]
                                   ELSE IF f[j - 1].how # "more" THEN f[j - 1]
                                   ELSE MoveEntry(f[j - 1].map, j <= good)
  <2>1. MovesTo(f, m, limit, good)
    BY MovesDefined, Zenon
  <2> HIDE DEF f
  <2>2. QED
    BY <2>1, Zenon DEF MovesTo
<1> HIDE DEF f
<1>2. Moved(m, 0, [map |-> m, how |-> "more"])
  <2>1. Cardinality(Has(m.main)) \in Nat
    BY FS_CardinalityType, Zenon DEF Pair, Fine, Counts
  <2>2. Cardinality(Has(m.main)) = Cardinality(Has(m.main)) - 0
    BY <2>1
  <2>3. QED
    BY <2>2, Zenon DEF Moved, Kept
<1>3. T = {}
  <2>1. SUFFICES ASSUME T # {} PROVE FALSE
    BY Zenon
  <2>2. T \subseteq Nat
    OBVIOUS
  <2>3. PICK x \in T : \A y \in T : x <= y
    BY <2>1, <2>2, LeastElement, Zenon
  <2>4. x \in 0 .. limit /\ ~Moved(m, x, f[x])
    BY <2>3, Zenon
  <2>5. x # 0
    BY <1>1, <1>2, <2>4, Zenon
  <2>6. x - 1 \in 0 .. limit /\ ~(x <= x - 1)
    BY <2>4, <2>5
  <2>7. Moved(m, x - 1, f[x - 1])
    BY <2>3, <2>6, Zenon
  <2>8. \/ f[x - 1].how # "more" /\ f[x] = f[x - 1]
        \/ f[x - 1].how = "more" /\ \E ok : f[x] = MoveEntry(f[x - 1].map, ok)
    BY <1>1, <2>4, <2>5, Zenon
  <2>9. CASE f[x - 1].how # "more" /\ f[x] = f[x - 1]
    BY <2>4, <2>7, <2>9, Zenon DEF Moved
  <2>10. CASE f[x - 1].how = "more" /\ \E ok : f[x] = MoveEntry(f[x - 1].map, ok)
    <3>1. PICK ok : f[x] = MoveEntry(f[x - 1].map, ok)
      BY <2>10, Zenon
    <3>2. Pair(f[x - 1].map) /\ card(f[x - 1]) = Cardinality(Has(m.main)) - (x - 1)
      BY <2>7, <2>10, Zenon DEF Kept, Moved
    <3>3. Kept(f[x - 1].map, f[x]) /\ Progress(f[x - 1].map, f[x])
      BY <3>1, <3>2, MoveKeeps, Zenon
    <3>4. Kept(m, f[x])
      BY <2>7, <3>3, Zenon DEF Kept, Moved
    <3>5. f[x].how = "more" => card(f[x]) = Cardinality(Has(m.main)) - x
      <4>1. Cardinality(Has(m.main)) \in Nat
        BY FS_CardinalityType, Zenon DEF Pair, Fine, Counts
      <4>2. f[x].how = "more" => card(f[x]) = card(f[x - 1]) - 1
        BY <3>3, Zenon DEF Progress
      <4> HIDE DEF card
      <4>3. QED
        BY <2>4, <3>2, <4>1, <4>2
    <3>6. QED
      BY <2>4, <3>3, <3>4, <3>5, Zenon DEF Moved, Progress
  <2>11. QED
    BY <2>8, <2>9, <2>10, Zenon
<1>4. limit \in 0 .. limit
  OBVIOUS
<1> DEFINE last == f[limit]
           c == NextBucket(last.map)
           n == MapRecord(last.map.main, last.map.secondary, last.map.state, c, last.map.locked)
<1>5. Moved(m, limit, last) /\ Kept(m, last)
  BY <1>3, <1>4, Zenon DEF Moved
<1>6. Transfer(m, limit, good) = IF last.how # "more" THEN last
                                 ELSE [last EXCEPT !.map.current = c]
  <2>1. {Stop(x) : x \in {last}} = {Stop(last)}
    BY Zenon
  <2>2. Transfer(m, limit, good) = CHOOSE r \in {Stop(last)} : TRUE
    BY <2>1, Zenon DEF Transfer, f
  <2> HIDE DEF last
  <2>3. Transfer(m, limit, good) = Stop(last)
    BY <2>2, Zenon
  <2>4. QED
    BY <2>3, Zenon DEF Stop
<1>7. Kept(m, [map |-> n, how |-> "more"])
  <2>1. Pair(last.map) /\ IsMap(last.map)
    BY <1>5, Zenon DEF Kept, Pair
  <2>2. c \in Nat /\ \A k \in Has(last.map.main) : get_bucket_index(last.map.main, k) >= c
    BY <2>1, NextBucketIs, Zenon DEF Pair, Fine
  <2> HIDE DEF c, last
  <2>3. /\ n.main = last.map.main /\ n.secondary = last.map.secondary
        /\ n.state = last.map.state /\ n.current = c /\ n.locked = last.map.locked
        /\ IsMap(n)
    BY Zenon DEF IsMap, MapRecord
  <2> HIDE DEF n
  <2>4. Pair(n)
    BY <2>1, <2>2, <2>3, Zenon DEF Pair, Ahead
  <2>5. QED
    BY <1>5, <2>3, <2>4, Zenon DEF Kept, Look
<1>8. last.how = "more" => [last EXCEPT !.map.current = c] = [map |-> n, how |-> "more"]
  <2>1. last = [map |-> last.map, how |-> last.how] /\ IsMap(last.map)
    BY <1>5, Zenon DEF Kept, Pair
  <2>2. [last EXCEPT !.map.current = c] = [last EXCEPT !.map = [last.map EXCEPT !.current = c]]
    BY <2>1 
  <2> HIDE DEF last, c
  <2>3. [last.map EXCEPT !.current = c] = SetCurrent(last.map, c)
    BY Zenon DEF SetCurrent
  <2>4. SetCurrent(last.map, c) = n
    BY <2>1, Assign, Zenon
  <2> HIDE DEF n
  <2>5. [last EXCEPT !.map = n] = [map |-> n, how |-> last.how]
    BY <2>1
  <2>6. QED
    BY <2>2, <2>3, <2>4, <2>5, Zenon
<1>9. CASE last.how # "more"
  BY <1>5, <1>6, <1>9, Zenon
<1>10. CASE last.how = "more"
  <2> DEFINE z == [map |-> n, how |-> "more"]
  <2>1. Transfer(m, limit, good) = z
    BY <1>6, <1>8, <1>10, Zenon
  <2>2. n.main = last.map.main /\ z.map = n /\ z.how = "more"
    BY Zenon DEF MapRecord
  <2> HIDE DEF n, last
  <2>3. Cardinality(Has(z.map.main)) = Cardinality(Has(m.main)) - limit
    BY <1>5, <1>10, <2>2, Zenon DEF Moved
  <2>4. Moved(m, limit, z)
    BY <1>7, <2>2, <2>3, Zenon DEF Moved
  <2>5. QED
    BY <2>1, <2>4, Zenon
<1>11. QED
  BY <1>9, <1>10, Zenon

-----------------------------------------------------------------------------
(* The map between two calls. *)

\* The one table of a map that is not being resized has no husks.
One(m) ==
  /\ IsMap(m) /\ m.current \in Nat /\ Fine(m.main) /\ m.secondary = NULL
  /\ \A k \in Has(m.main) : TableGet(m.main, k) # NULL

\* A map of which no table could be made.
NoTable(m) == IsMap(m) /\ m.current \in Nat /\ m.main = NULL /\ m.secondary = NULL

Valid(m) ==
  /\ m.locked \in BOOLEAN
  /\ \/ m.state = "STABLE" /\ One(m)
     \/ m.state = "TRANSFER" /\ Pair(m)
     \/ m.state = "ERROR" /\ (One(m) \/ Pair(m) \/ NoTable(m))

\* What get finds in the map m.
Seen(m, k) ==
  IF m.state = "TRANSFER" /\ TableGet(m.secondary, k) # NULL
    THEN TableGet(m.secondary, k) ELSE TableGet(m.main, k)

\* Unless it has met an error, n shows the values of w.
Shows(n, w) == n.state # "ERROR" => \A k \in Keys : Seen(n, k) = w[k]

\* An operation that ends with the map n and w as its contents.
Ends(n, w) == Valid(n) /\ Shows(n, w)

\* A map in its error state keeps its tables.
LEMMA ErrorEnds ==
  ASSUME NEW m, One(m) \/ Pair(m), m.locked \in BOOLEAN, NEW w
  PROVE  Ends(Error(m), w) /\ Error(m).state = "ERROR"
<1>1. IsMap(m)
  BY Zenon DEF One, Pair
<1> DEFINE n == MapRecord(m.main, m.secondary, "ERROR", m.current, m.locked)
<1>2. Error(m) = n
  BY <1>1, Assign, Zenon
<1>3. /\ n.main = m.main /\ n.secondary = m.secondary /\ n.state = "ERROR"
      /\ n.current = m.current /\ n.locked = m.locked /\ IsMap(n)
  BY Zenon DEF IsMap, MapRecord
<1> HIDE DEF n
<1>4. One(n) \/ Pair(n)
  <2>1. CASE One(m)
    BY <1>3, <2>1, Zenon DEF One
  <2>2. CASE Pair(m)
    BY <1>3, <2>2, Zenon DEF Pair, Ahead
  <2>3. QED
    BY <2>1, <2>2, Zenon
<1>5. QED
  BY <1>2, <1>3, <1>4, Zenon DEF Ends, Valid, Shows

\* begin_resize gives the map a second, empty table, or an error.
LEMMA BeginEnds ==
  ASSUME NEW m, One(m), m.locked \in BOOLEAN, NEW w, \A k \in Keys : TableGet(m.main, k) = w[k],
         NEW p \in Nat, p >= MIN_POWER, NEW ok
  PROVE  /\ Ends(begin_resize(m, p, ok), w)
         /\ begin_resize(m, p, ok).state \in {"ERROR", "TRANSFER"}
<1> DEFINE t == Table(p, Primes[p])
           n == MapRecord(m.main, t, "TRANSFER", 0, m.locked)
<1>1. IsMap(m)
  BY Zenon DEF One
<1>2. CASE ok /\ p <= MAX_POWER
  <2>1. begin_resize(m, p, ok) = Resizing(m, t)
    BY <1>2, Zenon DEF begin_resize, Resizing
  <2>2. begin_resize(m, p, ok) = n
    BY <1>1, <2>1, Assign, Zenon
  <2>3. p \in MIN_POWER .. MAX_POWER /\ Primes[p] \in 0 .. Primes[p]
    BY <1>2, MapConstants
  <2>4. Vacant(t) /\ Fine(t)
    BY <2>3, FreshTable, VacantIsFine, Zenon
  <2>5. /\ n.main = m.main /\ n.secondary = t /\ n.state = "TRANSFER"
        /\ n.current = 0 /\ n.locked = m.locked /\ IsMap(n)
    BY Zenon DEF IsMap, MapRecord
  <2> HIDE DEF n, t
  <2>6. Ahead(n)
    <3>1. SUFFICES ASSUME NEW k \in Has(m.main) PROVE get_bucket_index(m.main, k) >= 0
      BY <2>5, Zenon DEF Ahead
    <3>2. k \in Keys /\ m.main.num_buckets # 0
      BY Zenon DEF Has, HasEntry
    <3>3. get_bucket_index(m.main, k) \in 0 .. (m.main.num_buckets - 1)
      BY <3>2, TableTypes, Zenon DEF One, Fine, Sound
    <3>4. QED
      BY <3>3
  <2>7. Pair(n)
    <3>1. 0 \in Nat
      OBVIOUS
    <3>2. Has(t) = {} /\ Fine(m.main) /\ \A k \in Has(m.main) : TableGet(m.main, k) # NULL
      BY <2>4, Zenon DEF One, Vacant
    <3>3. QED
      BY <2>4, <2>5, <2>6, <3>1, <3>2, Zenon DEF Pair
  <2>8. \A k \in Keys : Seen(n, k) = TableGet(m.main, k)
    BY <2>4, <2>5, Zenon DEF Seen, Vacant
  <2>9. QED
    BY <2>2, <2>5, <2>7, <2>8, Zenon DEF Ends, Valid, Shows
<1>3. CASE ~(ok /\ p <= MAX_POWER)
  <2>1. begin_resize(m, p, ok) = Error(m)
    BY <1>3, Zenon DEF begin_resize
  <2>2. QED
    BY <2>1, ErrorEnds, Zenon
<1>4. QED
  BY <1>2, <1>3, Zenon

\* What get, put and del do at their end in the STABLE state.
LEMMA MaybeResizeEnds ==
  ASSUME NEW m, One(m), m.state = "STABLE", m.locked \in BOOLEAN,
         NEW w, \A k \in Keys : TableGet(m.main, k) = w[k], NEW ok
  PROVE  Ends(MaybeResize(m, ok), w)
<1>1. CASE should_resize(m)
  <2>1. MaybeResize(m, ok) = begin_resize(m, m.main.power + 1, ok)
    BY <1>1, Zenon DEF MaybeResize
  <2>2. m.main.power \in MIN_POWER .. MAX_POWER
    BY Zenon DEF One, Fine, Sound, IsTable
  <2>3. m.main.power + 1 \in Nat /\ m.main.power + 1 >= MIN_POWER
    BY <2>2, MapConstants
  <2>4. QED
    BY <2>1, <2>3, BeginEnds, Zenon
<1>2. CASE ~should_resize(m)
  <2>1. MaybeResize(m, ok) = m
    BY <1>2, Zenon DEF MaybeResize
  <2>2. QED
    BY <2>1, Zenon DEF Ends, Valid, Shows, Seen
<1>3. QED
  BY <1>1, <1>2, Zenon

\* end_resize, once the counter of the main table is zero: all its entries
\* have been moved.
LEMMA EndEnds ==
  ASSUME NEW m, Pair(m), m.locked \in BOOLEAN, is_transfer_complete(m),
         NEW w, \A k \in Keys : Look(m, k) = w[k]
  PROVE  Ends(end_resize(m), w) /\ end_resize(m).state = "STABLE"
<1> DEFINE n == MapRecord(m.secondary, NULL, "STABLE", 0, m.locked)
<1>1. IsMap(m)
  BY Zenon DEF Pair
<1>2. end_resize(m) = n
  BY <1>1, Assign, Zenon
<1>3. /\ n.main = m.secondary /\ n.secondary = NULL /\ n.state = "STABLE"
      /\ n.current = 0 /\ n.locked = m.locked /\ IsMap(n) /\ 0 \in Nat
  <2>1. 0 \in Nat
    OBVIOUS
  <2>2. QED
    BY <2>1, Zenon DEF IsMap, MapRecord
<1> HIDE DEF n
<1>4. Has(m.main) = {} /\ Sound(m.main)
  BY Counting, Zenon DEF Pair, is_transfer_complete, Fine
<1>5. One(n)
  BY <1>3, Zenon DEF One, Pair
<1>6. \A k \in Keys : Look(m, k) = TableGet(m.secondary, k)
  BY <1>4, GetTypes, Zenon DEF Look
<1>7. \A k \in Keys : Seen(n, k) = w[k]
  BY <1>3, <1>6, Zenon DEF Seen
<1>8. QED
  BY <1>2, <1>3, <1>5, <1>7, Zenon DEF Ends, Valid, Shows

\* What get, put and del do at their end in the TRANSFER state.
LEMMA PartialTransferEnds ==
  ASSUME NEW m, Pair(m), m.state = "TRANSFER", m.locked \in BOOLEAN,
         NEW w, \A k \in Keys : Look(m, k) = w[k], NEW good
  PROVE  Ends(PartialTransfer(m, good), w)
<1> DEFINE r == perform_partial_transfer(m, good)
<1>1. Kept(m, r)
  <2>1. KEYS_PER_TRANSFER \in Nat
    BY MapConstants
  <2>2. QED
    BY <2>1, TransferKeeps, Zenon DEF perform_partial_transfer, Moved
<1>2. /\ r.how = "failed" => PartialTransfer(m, good) = Error(r.map)
      /\ r.how # "failed" /\ is_transfer_complete(r.map) =>
           PartialTransfer(m, good) = end_resize(r.map)
      /\ r.how # "failed" /\ ~is_transfer_complete(r.map) => PartialTransfer(m, good) = r.map
  BY Zenon DEF PartialTransfer
<1> HIDE DEF r
<1>3. /\ Pair(r.map) /\ r.map.state = "TRANSFER" /\ r.map.locked \in BOOLEAN
      /\ \A k \in Keys : Look(r.map, k) = w[k]
  BY <1>1, Zenon DEF Kept
<1>4. CASE r.how = "failed"
  BY <1>2, <1>3, <1>4, ErrorEnds, Zenon
<1>5. CASE r.how # "failed" /\ is_transfer_complete(r.map)
  BY <1>2, <1>3, <1>5, EndEnds, Zenon
<1>6. CASE r.how # "failed" /\ ~is_transfer_complete(r.map)
  BY <1>2, <1>3, <1>6, Zenon DEF Ends, Valid, Shows, Seen, Look
<1>7. QED
  BY <1>4, <1>5, <1>6, Zenon

\* The loop of finalize, delete_all_keys and reserve.
LEMMA TransferLoopEnds ==
  ASSUME NEW m, Pair(m), m.state = "TRANSFER", m.locked \in BOOLEAN,
         NEW w, \A k \in Keys : Look(m, k) = w[k], NEW good
  PROVE  /\ Ends(TransferLoop(m, good).map, w)
         /\ TransferLoop(m, good).map.state \in {"STABLE", "TRANSFER"}
         /\ TransferLoop(m, good).how = "complete" => TransferLoop(m, good).map.state = "STABLE"
         /\ "value" \notin Failures => TransferLoop(m, good).how # "loops"
<1> DEFINE r == Transfer(m, AllEntries, good)
           l == TransferLoop(m, good)
<1>1. Kept(m, r) /\ r.how # "more" /\ (r.how = "done" => Has(r.map.main) = {})
  <2>1. Cardinality(Keys) \in Nat
    BY MapConstants, FS_CardinalityType, Zenon
  <2>2. AllEntries \in Nat /\ AllEntries > Cardinality(Keys)
    BY <2>1 DEF AllEntries
  <2>3. Moved(m, AllEntries, r)
    BY <2>2, TransferKeeps, Zenon
  <2> HIDE DEF r
  <2>4. Cardinality(Has(m.main)) <= Cardinality(Keys) /\ Cardinality(Has(m.main)) \in Nat
    <3>1. Has(m.main) \subseteq Keys /\ IsFiniteSet(Keys) /\ IsFiniteSet(Has(m.main))
      BY MapConstants, Zenon DEF Has, Pair, Fine, Counts
    <3>2. QED
      BY <3>1, FS_Subset, FS_CardinalityType, Zenon
  <2>5. ASSUME r.how = "more" PROVE FALSE
    <3>1. Cardinality(Has(r.map.main)) = Cardinality(Has(m.main)) - AllEntries
      BY <2>3, <2>5, Zenon DEF Moved
    <3>2. Cardinality(Has(r.map.main)) \in Nat
      BY <2>3, FS_CardinalityType, Zenon DEF Moved, Kept, Pair, Fine, Counts
    <3>3. QED
      BY <2>1, <2>2, <2>4, <3>1, <3>2
  <2>6. QED
    BY <2>3, <2>5, Zenon DEF Moved
<1>2. /\ is_transfer_complete(m) => l = [map |-> end_resize(m), how |-> "complete"]
      /\ ~is_transfer_complete(m) /\ r.how = "failed" => l = r
      /\ ~is_transfer_complete(m) /\ r.how # "failed" /\ is_transfer_complete(r.map) =>
           l = [map |-> end_resize(r.map), how |-> "complete"]
      /\ ~is_transfer_complete(m) /\ r.how # "failed" /\ ~is_transfer_complete(r.map) =>
           l = [map |-> r.map, how |-> "loops"]
  BY Zenon DEF TransferLoop
<1> HIDE DEF r, l
<1> SUFFICES /\ Ends(l.map, w) /\ l.map.state \in {"STABLE", "TRANSFER"}
             /\ l.how = "complete" => l.map.state = "STABLE"
             /\ "value" \notin Failures => l.how # "loops"
  BY Zenon DEF l
<1>3. /\ Pair(r.map) /\ r.map.state = "TRANSFER" /\ r.map.locked \in BOOLEAN
      /\ \A k \in Keys : Look(r.map, k) = w[k]
  BY <1>1, Zenon DEF Kept
<1>4. Ends(r.map, w)
  BY <1>3, Zenon DEF Ends, Valid, Shows, Seen, Look
<1>5. CASE is_transfer_complete(m)
  <2>1. Ends(end_resize(m), w) /\ end_resize(m).state = "STABLE"
    BY <1>5, EndEnds, Zenon
  <2>2. l = [map |-> end_resize(m), how |-> "complete"]
    BY <1>2, <1>5, Zenon
  <2>3. l.map = end_resize(m) /\ l.how = "complete"
    BY <2>2, Zenon
  <2>4. QED
    BY <2>1, <2>3, Zenon
<1>6. CASE ~is_transfer_complete(m) /\ r.how = "failed"
  <2>1. l = r /\ r.how # "complete" /\ r.how # "loops"
    BY <1>2, <1>6, Zenon
  <2>2. QED
    BY <1>3, <1>4, <2>1, Zenon
<1>7. CASE ~is_transfer_complete(m) /\ r.how # "failed" /\ is_transfer_complete(r.map)
  <2>1. Ends(end_resize(r.map), w) /\ end_resize(r.map).state = "STABLE"
    BY <1>3, <1>7, EndEnds, Zenon
  <2>2. l = [map |-> end_resize(r.map), how |-> "complete"]
    BY <1>2, <1>7, Zenon
  <2>3. l.map = end_resize(r.map) /\ l.how = "complete"
    BY <2>2, Zenon
  <2>4. QED
    BY <2>1, <2>3, Zenon
<1>8. CASE ~is_transfer_complete(m) /\ r.how # "failed" /\ ~is_transfer_complete(r.map)
  <2>1. l = [map |-> r.map, how |-> "loops"]
    BY <1>2, <1>8, Zenon
  <2>2. l.map = r.map /\ l.how = "loops"
    BY <2>1, Zenon
  <2>3. "value" \in Failures
    <3>1. Has(r.map.main) = {}
      BY <1>1, <1>8, Zenon DEF Kept
    <3>2. Fine(r.map.main) /\ r.map.main.total_entries # 0
      BY <1>3, <1>8, Zenon DEF Pair, is_transfer_complete
    <3>3. QED
      BY <3>1, <3>2, FS_EmptySet, Zenon DEF Fine, Counts
  <2>4. QED
    BY <1>3, <1>4, <2>2, <2>3, Zenon
<1>9. QED
  BY <1>5, <1>6, <1>7, <1>8, Zenon

\* u is t with v as the value of k, whether or not k had an entry.
Puts(t, u, k, v) ==
  /\ Fine(u) /\ Has(u) = Has(t) \cup {k}
  /\ \A q \in Keys : TableGet(u, q) = IF q = k THEN v ELSE TableGet(t, q)

\* u holds what t holds.
Holds(t, u) ==
  Fine(u) /\ Has(u) = Has(t) /\ \A q \in Keys : TableGet(u, q) = TableGet(t, q)

Stored(t, k, v, r) ==
  \/ r.done = TRUE /\ Puts(t, r.table, k, v)
  \/ r.done = FALSE /\ Holds(t, r.table)

\* put writes the value, or leaves the table with what it held.
LEMMA StoreEffect ==
  ASSUME NEW t, Fine(t), NEW k \in Keys, NEW v \in Values, NEW seed \in Values \cup {NULL},
         NEW fail \in SUBSET Failures, k \in Has(t) => TableGet(t, k) # NULL
  PROVE  Stored(t, k, v, Store(t, k, v, seed, fail))
<1> DEFINE r == table_get_or_create_entry(t, k, Ok(fail, "entry"))
           s == IF r.how = "created" THEN SetVal(r.table, k, seed) ELSE r.table
           z == Store(t, k, v, seed, fail)
<1>1. Acquires(t, k, r)
  BY GetOrCreate, Zenon
<1>2. /\ r.how = "failed" => z = [table |-> t, done |-> FALSE]
      /\ r.how # "failed" /\ (TableGet(s, k) # NULL \/ Ok(fail, "value")) =>
           z = [table |-> SetVal(s, k, v), done |-> TRUE]
      /\ r.how = "created" /\ ~(TableGet(s, k) # NULL \/ Ok(fail, "value")) =>
           z = [table |-> bucket_remove(s, k), done |-> FALSE]
  <2>1. r.how = "created" => r.how # "failed"
    BY Zenon
  <2>2. QED
    BY <2>1, Zenon DEF Store
<1>3. /\ r.how = "created" => s = SetVal(r.table, k, seed)
      /\ r.how # "created" => s = r.table
  BY Zenon
<1> HIDE DEF r, s, z
<1> SUFFICES Stored(t, k, v, z)
  BY Zenon DEF z
<1>4. v \in Values \cup {NULL} /\ Sound(t)
  BY Zenon DEF Fine
<1>5. ASSUME NEW u, Fine(u), k \in Has(u), Has(u) = Has(t) \cup {k},
             \A q \in Keys : q # k => TableGet(u, q) = TableGet(t, q),
             z = [table |-> SetVal(u, k, v), done |-> TRUE]
      PROVE  Stored(t, k, v, z)
  <2>1. Writes(u, SetVal(u, k, v), k, v)
    BY <1>4, <1>5, SetValEffect, Zenon DEF Fine
  <2>2. Fine(SetVal(u, k, v))
    BY <1>5, <2>1, Counting, Zenon
  <2>3. z.table = SetVal(u, k, v) /\ z.done = TRUE
    BY <1>5, Zenon
  <2>4. QED
    BY <1>5, <2>1, <2>2, <2>3, Zenon DEF Stored, Puts, Writes
<1>6. CASE r.how = "failed"
  <2>1. z = [table |-> t, done |-> FALSE]
    BY <1>2, <1>6, Zenon
  <2>2. z.table = t /\ z.done = FALSE
    BY <2>1, Zenon
  <2>3. QED
    BY <2>2, Zenon DEF Stored, Holds
<1>7. CASE r.how = "found" /\ k \in Has(t) /\ r.table = t
  <2>1. r.how # "failed" /\ r.how # "created"
    BY <1>7, Zenon
  <2>2. s = t
    BY <1>3, <1>7, <2>1, Zenon
  <2>3. z = [table |-> SetVal(t, k, v), done |-> TRUE]
    BY <1>2, <1>7, <2>1, <2>2, Zenon
  <2>4. Has(t) = Has(t) \cup {k}
    BY <1>7, Zenon
  <2>5. QED
    BY <1>5, <1>7, <2>3, <2>4, Zenon
<1>8. CASE /\ r.how = "created" /\ k \notin Has(t) /\ t.num_buckets # 0
           /\ r.table = Created(t, k)
  <2>1. s = SetVal(Created(t, k), k, seed) /\ r.how # "failed"
    BY <1>3, <1>8, Zenon
  <2>2. Receives(t, s, k, seed)
    BY <1>8, <2>1, NewEntry, Zenon
  <2>3. /\ Fine(s) /\ k \in Has(s) /\ Has(s) = Has(t) \cup {k} /\ Sound(s)
        /\ \A q \in Keys : q # k => TableGet(s, q) = TableGet(t, q)
    BY <2>2, Zenon DEF Receives, Fine
  <2>4. CASE TableGet(s, k) # NULL \/ Ok(fail, "value")
    <3>1. z = [table |-> SetVal(s, k, v), done |-> TRUE]
      BY <1>2, <2>1, <2>4, Zenon
    <3>2. QED
      BY <1>5, <2>3, <3>1, Zenon
  <2>5. CASE ~(TableGet(s, k) # NULL \/ Ok(fail, "value"))
    <3> DEFINE u == bucket_remove(s, k)
    <3>1. z = [table |-> u, done |-> FALSE]
      BY <1>2, <1>8, <2>5, Zenon
    <3>2. "value" \in Failures
      BY <2>5, Zenon DEF Ok
    <3>3. Drops(s, u, k) /\ u.total_entries = s.total_entries
      BY <2>3, RemoveKeyEffect, Zenon
    <3> HIDE DEF u
    <3>4. s.total_entries \in Nat /\ s.total_entries >= s.total_entries
      <4>1. s.total_entries \in Nat
        BY <2>3, Counting, Zenon
      <4>2. QED
        BY <4>1
    <3>5. Fine(u)
      BY <2>3, <3>2, <3>3, <3>4, Counting, Zenon
    <3>6. Has(u) = Has(t)
      BY <1>8, <2>3, <3>3, Zenon DEF Drops
    <3>7. \A q \in Keys : TableGet(u, q) = TableGet(t, q)
      BY <1>4, <1>8, <2>3, <3>3, GetTypes, Zenon DEF Drops
    <3>8. z.table = u /\ z.done = FALSE
      BY <3>1, Zenon
    <3>9. QED
      BY <3>5, <3>6, <3>7, <3>8, Zenon DEF Stored, Holds
  <2>6. QED
    BY <2>4, <2>5, Zenon
<1>9. QED
  BY <1>1, <1>6, <1>7, <1>8, Zenon DEF Acquires

-----------------------------------------------------------------------------
(* The operations. *)

\* Whether a call hangs: only a counter that is too large can make it.
Returned(h) == h \in BOOLEAN /\ ("value" \notin Failures => h = FALSE)

\* The inductive invariant: the tables are as the state of the map says, and,
\* unless keys that were put during a resize are deleted, they show what the
\* client was told.
InvOf(m, c, h) ==
  /\ Valid(m) /\ c \in [Keys -> Values \cup {NULL}] /\ Returned(h)
  /\ ~DelOverwritten => Shows(m, c)

IInv == InvOf(map, content, hung)

\* The end of a call that leaves the map n with the values of w.
LEMMA Finish ==
  ASSUME NEW n, NEW w, Ends(n, w), NEW c \in [Keys -> Values \cup {NULL}], NEW h, Returned(h),
         ~DelOverwritten => \A q \in Keys : w[q] = c[q]
  PROVE  InvOf(n, c, h)
BY Zenon DEF InvOf, Ends, Shows

\* What the invariant says of a map that is not in its error state.
LEMMA Before ==
  ASSUME IInv
  PROVE  /\ map.state \in {"ERROR", "STABLE", "TRANSFER"} /\ map.locked \in BOOLEAN
         /\ content \in [Keys -> Values \cup {NULL}] /\ Returned(hung)
         /\ map.state = "STABLE" =>
              /\ One(map)
              /\ ~DelOverwritten => \A q \in Keys : TableGet(map.main, q) = content[q]
         /\ map.state = "TRANSFER" =>
              /\ Pair(map)
              /\ ~DelOverwritten => \A q \in Keys : Look(map, q) = content[q]
<1>1. Valid(map) /\ (~DelOverwritten => Shows(map, content))
  BY Zenon DEF IInv, InvOf
<1>2. CASE map.state = "STABLE"
  BY <1>1, <1>2, Zenon DEF IInv, InvOf, Valid, Shows, Seen
<1>3. CASE map.state = "TRANSFER"
  BY <1>1, <1>3, Zenon DEF IInv, InvOf, Valid, Shows, Seen, Look
<1>4. CASE map.state = "ERROR"
  BY <1>1, <1>4, Zenon DEF IInv, InvOf, Valid
<1>5. QED
  BY <1>1, <1>2, <1>3, <1>4, Zenon DEF Valid

\* A call in the STABLE state that ends with MaybeResize.
LEMMA StableStep ==
  ASSUME NEW m, One(m), m.state = "STABLE", m.locked \in BOOLEAN, NEW ok,
         NEW c \in [Keys -> Values \cup {NULL}], NEW h, Returned(h),
         ~DelOverwritten => \A q \in Keys : TableGet(m.main, q) = c[q]
  PROVE  InvOf(MaybeResize(m, ok), c, h)
<1> DEFINE w == [q \in Keys |-> TableGet(m.main, q)]
<1>1. \A q \in Keys : TableGet(m.main, q) = w[q]
  BY Zenon
<1> HIDE DEF w
<1>2. Ends(MaybeResize(m, ok), w)
  BY <1>1, MaybeResizeEnds, Zenon
<1>3. QED
  BY <1>1, <1>2, Finish, Zenon

\* A call in the TRANSFER state that ends with a partial transfer.
LEMMA TransferStep ==
  ASSUME NEW m, Pair(m), m.state = "TRANSFER", m.locked \in BOOLEAN, NEW good,
         NEW c \in [Keys -> Values \cup {NULL}], NEW h, Returned(h),
         ~DelOverwritten => \A q \in Keys : Look(m, q) = c[q]
  PROVE  InvOf(PartialTransfer(m, good), c, h)
<1> DEFINE w == [q \in Keys |-> Look(m, q)]
<1>1. \A q \in Keys : Look(m, q) = w[q]
  BY Zenon
<1> HIDE DEF w
<1>2. Ends(PartialTransfer(m, good), w)
  BY <1>1, PartialTransferEnds, Zenon
<1>3. QED
  BY <1>1, <1>2, Finish, Zenon

\* A call that transfers the rest.
LEMMA LoopStep ==
  ASSUME NEW m, Pair(m), m.state = "TRANSFER", m.locked \in BOOLEAN, NEW good,
         NEW c \in [Keys -> Values \cup {NULL}], NEW h, Returned(h),
         ~DelOverwritten => \A q \in Keys : Look(m, q) = c[q]
  PROVE  /\ InvOf(TransferLoop(m, good).map, c, h)
         /\ TransferLoop(m, good).map.state \in {"STABLE", "TRANSFER"}
         /\ TransferLoop(m, good).how = "complete" => TransferLoop(m, good).map.state = "STABLE"
         /\ "value" \notin Failures => TransferLoop(m, good).how # "loops"
<1> DEFINE w == [q \in Keys |-> Look(m, q)]
<1>1. \A q \in Keys : Look(m, q) = w[q]
  BY Zenon
<1> HIDE DEF w
<1>2. /\ Ends(TransferLoop(m, good).map, w)
      /\ TransferLoop(m, good).map.state \in {"STABLE", "TRANSFER"}
      /\ TransferLoop(m, good).how = "complete" => TransferLoop(m, good).map.state = "STABLE"
      /\ "value" \notin Failures => TransferLoop(m, good).how # "loops"
  BY <1>1, TransferLoopEnds, Zenon
<1>3. InvOf(TransferLoop(m, good).map, c, h)
  BY <1>1, <1>2, Finish, Zenon
<1>4. QED
  BY <1>2, <1>3, Zenon

\* The next state of get.
LEMMA GetStep ==
  ASSUME IInv, NEW fail, NEW good, get(fail, good)
  PROVE  IInv'
<1>1. content' = content /\ hung' = hung
  BY Zenon DEF get
<1>2. /\ map.state = "ERROR" => map' = map
      /\ map.state = "STABLE" => map' = MaybeResize(map, Ok(fail, "table"))
      /\ map.state = "TRANSFER" => map' = PartialTransfer(map, good)
  BY Zenon DEF get
<1>3. CASE map.state = "ERROR"
  BY <1>1, <1>2, <1>3, Zenon DEF IInv
<1>4. CASE map.state = "STABLE"
  BY <1>1, <1>2, <1>4, Before, StableStep, Zenon DEF IInv
<1>5. CASE map.state = "TRANSFER"
  BY <1>1, <1>2, <1>5, Before, TransferStep, Zenon DEF IInv
<1>6. QED
  BY <1>3, <1>4, <1>5, Before, Zenon

\* The next state of finalize.
LEMMA FinalizeStep ==
  ASSUME IInv, NEW good, finalize(good)
  PROVE  IInv'
<1> DEFINE l == TransferLoop(map, good)
<1>1. content' = content
  BY Zenon DEF finalize
<1>2. CASE map.state = "TRANSFER"
  <2>1. map' = l.map /\ hung' = (l.how = "loops")
    BY <1>2, Zenon DEF finalize
  <2>2. Returned(hung')
    <3>1. "value" \notin Failures => l.how # "loops"
      BY <1>2, Before, LoopStep, Zenon
    <3>2. QED
      BY <2>1, <3>1, Zenon DEF Returned
  <2>3. InvOf(l.map, content, hung')
    BY <1>2, <2>2, Before, LoopStep, Zenon
  <2>4. QED
    BY <1>1, <2>1, <2>3, Zenon DEF IInv
<1>3. CASE map.state # "TRANSFER"
  <2>1. map' = map /\ hung' = hung
    BY <1>3, Zenon DEF finalize
  <2>2. QED
    BY <1>1, <2>1, Zenon DEF IInv
<1>4. QED
  BY <1>2, <1>3, Zenon

\* The next state of put.
LEMMA PutStep ==
  ASSUME IInv, NEW k \in Keys, NEW v \in Values, NEW fail \in SUBSET Failures, NEW good,
         put(k, v, fail, good)
  PROVE  IInv'
<1>1. hung' = hung
  BY Zenon DEF put
<1>2. CASE map.state = "ERROR"
  <2>1. map' = map /\ content' = content
    BY <1>2, Zenon DEF put
  <2>2. QED
    BY <1>1, <2>1, Zenon DEF IInv
<1>3. CASE map.state = "STABLE"
  <2> DEFINE t == map.main
             r == Store(t, k, v, NULL, fail)
             m == MapRecord(r.table, map.secondary, map.state, map.current, map.locked)
  <2>1. /\ map' = MaybeResize(SetMain(map, r.table), Ok(fail, "table"))
        /\ content' = IF r.done THEN [content EXCEPT ![k] = v] ELSE content
    BY <1>3, Zenon DEF put, SetMain
  <2>2. /\ One(map) /\ content \in [Keys -> Values \cup {NULL}] /\ Returned(hung)
        /\ map.locked \in BOOLEAN
        /\ ~DelOverwritten => \A q \in Keys : TableGet(t, q) = content[q]
    BY <1>3, Before, Zenon
  <2>3. /\ IsMap(map) /\ map.current \in Nat /\ Fine(t) /\ map.secondary = NULL
        /\ \A q \in Has(t) : TableGet(t, q) # NULL
    BY <2>2, Zenon DEF One
  <2>4. Stored(t, k, v, r)
    BY <2>3, StoreEffect, Zenon
  <2>5. SetMain(map, r.table) = m
    BY <2>3, Assign, Zenon
  <2> HIDE DEF r
  <2>6. /\ m.main = r.table /\ m.secondary = NULL /\ m.state = "STABLE"
        /\ m.current = map.current /\ m.locked = map.locked /\ IsMap(m)
    BY <1>3, <2>3, Zenon DEF IsMap, MapRecord
  <2> HIDE DEF m
  <2>7. v # NULL
    BY MapConstants, Zenon
  <2>8. CASE r.done = TRUE /\ Puts(t, r.table, k, v)
    <3>1. content' = [content EXCEPT ![k] = v]
      BY <2>1, <2>8, Zenon
    <3>2. /\ content' \in [Keys -> Values \cup {NULL}]
          /\ \A q \in Keys : content'[q] = IF q = k THEN v ELSE content[q]
      BY <2>2, <3>1, Zenon
    <3>3. One(m)
      BY <2>3, <2>6, <2>7, <2>8, Zenon DEF One, Puts, Has
    <3>4. ~DelOverwritten => \A q \in Keys : TableGet(m.main, q) = content'[q]
      BY <2>2, <2>6, <2>8, <3>2, Zenon DEF Puts
    <3>5. InvOf(MaybeResize(m, Ok(fail, "table")), content', hung)
      BY <2>2, <2>6, <3>2, <3>3, <3>4, StableStep, Zenon
    <3>6. QED
      BY <1>1, <2>1, <2>5, <3>5, Zenon DEF IInv
  <2>9. CASE r.done = FALSE /\ Holds(t, r.table)
    <3>1. content' = content
      BY <2>1, <2>9, Zenon
    <3>2. One(m)
      BY <2>3, <2>6, <2>9, Zenon DEF One, Holds, Has
    <3>3. ~DelOverwritten => \A q \in Keys : TableGet(m.main, q) = content[q]
      BY <2>2, <2>6, <2>9, Zenon DEF Holds
    <3>4. QED
      BY <1>1, <2>1, <2>2, <2>5, <2>6, <3>1, <3>2, <3>3, StableStep, Zenon DEF IInv
  <2>10. QED
    BY <2>4, <2>8, <2>9, Zenon DEF Stored
<1>4. CASE map.state = "TRANSFER"
  <2> DEFINE t == map.main
             s == map.secondary
             r == Store(s, k, v, TableGet(t, k), fail)
             husk == IF ~HasEntry(s, k) /\ HasEntry(t, k) /\ HasEntry(r.table, k)
                       THEN SetVal(t, k, NULL) ELSE t
             m == MapRecord(husk, r.table, map.state, map.current, map.locked)
  <2>1. /\ map' = PartialTransfer(SetTables(map, husk, r.table), good)
        /\ content' = IF r.done THEN [content EXCEPT ![k] = v] ELSE content
    BY <1>4, Zenon DEF put, SetTables
  <2>2. /\ Pair(map) /\ content \in [Keys -> Values \cup {NULL}] /\ Returned(hung)
        /\ map.locked \in BOOLEAN
        /\ ~DelOverwritten => \A q \in Keys : Look(map, q) = content[q]
    BY <1>4, Before, Zenon
  <2>3. /\ IsMap(map) /\ map.current \in Nat /\ Fine(t) /\ Fine(s) /\ Sound(t) /\ Ahead(map)
        /\ \A q \in Has(t) : TableGet(t, q) = NULL <=> q \in Has(s)
        /\ \A q \in Has(s) : TableGet(s, q) # NULL
    BY <2>2, Zenon DEF Pair, Fine
  <2>4. Stored(s, k, v, r)
    <3>1. TableGet(t, k) \in Values \cup {NULL}
      BY <2>3, GetTypes, Zenon
    <3>2. QED
      BY <2>3, <3>1, StoreEffect, Zenon
  <2>5. SetTables(map, husk, r.table) = m
    BY <2>3, Assign, Zenon
  <2>6. /\ k \notin Has(s) /\ k \in Has(t) /\ k \in Has(r.table) => husk = SetVal(t, k, NULL)
        /\ ~(k \notin Has(s) /\ k \in Has(t) /\ k \in Has(r.table)) => husk = t
    BY Zenon DEF Has
  <2> HIDE DEF r, husk
  <2>7. /\ m.main = husk /\ m.secondary = r.table /\ m.state = "TRANSFER"
        /\ m.current = map.current /\ m.locked = map.locked /\ IsMap(m)
    BY <1>4, Zenon DEF IsMap, MapRecord
  <2> HIDE DEF m
  <2>8. v # NULL
    BY MapConstants, Zenon
  <2>9. CASE r.done = TRUE /\ Puts(s, r.table, k, v)
    <3>1. content' = [content EXCEPT ![k] = v]
      BY <2>1, <2>9, Zenon
    <3>2. /\ content' \in [Keys -> Values \cup {NULL}]
          /\ \A q \in Keys : content'[q] = IF q = k THEN v ELSE content[q]
      BY <2>2, <3>1, Zenon
    <3>3. /\ Fine(husk) /\ Has(husk) = Has(t) /\ husk.num_buckets = t.num_buckets
          /\ \A q \in Keys : q # k => TableGet(husk, q) = TableGet(t, q)
          /\ k \in Has(t) => TableGet(husk, k) = NULL
      <4>1. CASE k \notin Has(s) /\ k \in Has(t) /\ k \in Has(r.table)
        <5>1. husk = SetVal(t, k, NULL)
          BY <2>6, <4>1, Zenon
        <5>2. Writes(t, husk, k, NULL)
          BY <2>3, <4>1, <5>1, SetValEffect, Zenon
        <5>3. Fine(husk)
          BY <2>3, <5>2, Counting, Zenon
        <5>4. QED
          BY <5>2, <5>3, Zenon DEF Writes, SameSize
      <4>2. CASE ~(k \notin Has(s) /\ k \in Has(t) /\ k \in Has(r.table))
        <5>1. husk = t
          BY <2>6, <4>2, Zenon
        <5>2. k \in Has(r.table)
          BY <2>9, Zenon DEF Puts
        <5>3. QED
          BY <2>3, <4>2, <5>1, <5>2, Zenon
      <4>3. QED
        BY <4>1, <4>2, Zenon
    <3>4. Pair(m)
      <4>1. Ahead(m)
        BY <2>3, <2>7, <3>3, Zenon DEF Ahead, get_bucket_index
      <4>2. ASSUME NEW q \in Has(husk) PROVE TableGet(husk, q) = NULL <=> q \in Has(r.table)
        BY <2>3, <2>9, <3>3, Zenon DEF Puts, Has
      <4>3. ASSUME NEW q \in Has(r.table) PROVE TableGet(r.table, q) # NULL
        BY <2>3, <2>8, <2>9, Zenon DEF Puts, Has
      <4>4. Fine(r.table)
        BY <2>9, Zenon DEF Puts
      <4>5. QED
        BY <2>3, <2>7, <3>3, <4>1, <4>2, <4>3, <4>4, Zenon DEF Pair
    <3>5. ~DelOverwritten => \A q \in Keys : Look(m, q) = content'[q]
      <4>1. SUFFICES ASSUME ~DelOverwritten, NEW q \in Keys PROVE Look(m, q) = content'[q]
        BY Zenon
      <4>2. TableGet(r.table, q) = IF q = k THEN v ELSE TableGet(s, q)
        BY <2>9, Zenon DEF Puts
      <4>3. CASE q = k
        BY <2>7, <2>8, <3>2, <4>2, <4>3, Zenon DEF Look
      <4>4. CASE q # k
        <5>1. Look(m, q) = Look(map, q)
          BY <2>7, <3>3, <4>2, <4>4, Zenon DEF Look
        <5>2. QED
          BY <2>2, <3>2, <4>1, <4>4, <5>1, Zenon
      <4>5. QED
        BY <4>3, <4>4, Zenon
    <3>6. InvOf(PartialTransfer(m, good), content', hung)
      BY <2>2, <2>7, <3>2, <3>4, <3>5, TransferStep, Zenon
    <3>7. QED
      BY <1>1, <2>1, <2>5, <3>6, Zenon DEF IInv
  <2>10. CASE r.done = FALSE /\ Holds(s, r.table)
    <3>1. content' = content
      BY <2>1, <2>10, Zenon
    <3>2. husk = t
      BY <2>6, <2>10, Zenon DEF Holds
    <3>3. Pair(m)
      BY <2>3, <2>7, <2>10, <3>2, Zenon DEF Pair, Holds, Has, Ahead
    <3>4. ~DelOverwritten => \A q \in Keys : Look(m, q) = content[q]
      BY <2>2, <2>7, <2>10, <3>2, Zenon DEF Holds, Look
    <3>5. QED
      BY <1>1, <2>1, <2>2, <2>5, <2>7, <3>1, <3>3, <3>4, TransferStep, Zenon DEF IInv
  <2>11. QED
    BY <2>4, <2>9, <2>10, Zenon DEF Stored
<1>5. QED
  BY <1>2, <1>3, <1>4, Before, Zenon

\* The next state of del.
LEMMA DelStep ==
  ASSUME IInv, NEW k \in Keys, NEW fail, NEW good, del(k, fail, good)
  PROVE  IInv'
<1>1. hung' = hung
  BY Zenon DEF del
<1>2. CASE map.state = "ERROR"
  <2>1. map' = map /\ content' = content
    BY <1>2, Zenon DEF del
  <2>2. QED
    BY <1>1, <2>1, Zenon DEF IInv
<1>3. ASSUME map.state # "ERROR"
      PROVE  /\ content' \in [Keys -> Values \cup {NULL}]
             /\ \A q \in Keys : content'[q] = IF q = k THEN NULL ELSE content[q]
  <2>1. content' = [content EXCEPT ![k] = NULL] /\ content \in [Keys -> Values \cup {NULL}]
    BY <1>3, Before, Zenon DEF del
  <2>2. QED
    BY <2>1, Zenon
<1>4. ASSUME NEW t, Fine(t)
      PROVE  /\ Fine(TableDel(t, k)) /\ Has(TableDel(t, k)) = Has(t) \ {k}
             /\ TableDel(t, k).num_buckets = t.num_buckets
             /\ \A q \in Keys : TableGet(TableDel(t, k), q) = IF q = k THEN NULL ELSE TableGet(t, q)
  <2>1. Sound(t)
    BY <1>4, Zenon DEF Fine
  <2>2. CASE k \in Has(t)
    <3>1. t.total_entries # 0
      BY <1>4, <2>2, Counting, Zenon
    <3>2. Drops(t, TableDel(t, k), k) /\ TableDel(t, k).total_entries = t.total_entries - 1
      BY <2>1, <2>2, <3>1, RemoveKeyEffect, Zenon
    <3>3. Fine(TableDel(t, k))
      BY <1>4, <2>2, <3>2, Counting, Zenon
    <3>4. QED
      BY <3>2, <3>3, Zenon DEF Drops, SameSize
  <2>3. CASE k \notin Has(t)
    <3>1. TableDel(t, k) = t
      BY <2>3, Zenon DEF TableDel, Has
    <3>2. TableGet(t, k) = NULL /\ Has(t) = Has(t) \ {k}
      BY <2>1, <2>3, GetTypes, Zenon
    <3>3. QED
      BY <1>4, <3>1, <3>2, Zenon
  <2>4. QED
    BY <2>2, <2>3, Zenon
<1>5. CASE map.state = "STABLE"
  <2> DEFINE t == map.main
             u == TableDel(t, k)
             m == MapRecord(u, map.secondary, map.state, map.current, map.locked)
  <2>1. map' = MaybeResize(SetMain(map, u), Ok(fail, "table"))
    BY <1>5, Zenon DEF del, SetMain
  <2>2. /\ One(map) /\ Returned(hung) /\ map.locked \in BOOLEAN
        /\ ~DelOverwritten => \A q \in Keys : TableGet(t, q) = content[q]
    BY <1>5, Before, Zenon
  <2>3. /\ IsMap(map) /\ map.current \in Nat /\ Fine(t) /\ map.secondary = NULL
        /\ \A q \in Has(t) : TableGet(t, q) # NULL
    BY <2>2, Zenon DEF One
  <2>4. /\ Fine(u) /\ Has(u) = Has(t) \ {k}
        /\ \A q \in Keys : TableGet(u, q) = IF q = k THEN NULL ELSE TableGet(t, q)
    BY <1>4, <2>3, Zenon
  <2>5. SetMain(map, u) = m
    BY <2>3, Assign, Zenon
  <2> HIDE DEF u
  <2>6. /\ m.main = u /\ m.secondary = NULL /\ m.state = "STABLE"
        /\ m.current = map.current /\ m.locked = map.locked /\ IsMap(m)
    BY <1>5, <2>3, Zenon DEF IsMap, MapRecord
  <2> HIDE DEF m
  <2>7. One(m)
    BY <2>3, <2>4, <2>6, Zenon DEF One, Has
  <2>8. /\ content' \in [Keys -> Values \cup {NULL}]
        /\ \A q \in Keys : content'[q] = IF q = k THEN NULL ELSE content[q]
    BY <1>3, <1>5, Zenon
  <2>9. ~DelOverwritten => \A q \in Keys : TableGet(m.main, q) = content'[q]
    BY <2>2, <2>4, <2>6, <2>8, Zenon
  <2>10. InvOf(MaybeResize(m, Ok(fail, "table")), content', hung)
    BY <2>2, <2>6, <2>7, <2>8, <2>9, StableStep, Zenon
  <2>11. QED
    BY <1>1, <2>1, <2>5, <2>10, Zenon DEF IInv
<1>6. CASE map.state = "TRANSFER"
  <2> DEFINE t == map.main
             s == map.secondary
  <2>1. /\ Pair(map) /\ Returned(hung) /\ map.locked \in BOOLEAN
        /\ ~DelOverwritten => \A q \in Keys : Look(map, q) = content[q]
    BY <1>6, Before, Zenon
  <2>2. /\ IsMap(map) /\ map.current \in Nat /\ Fine(t) /\ Fine(s) /\ Sound(t) /\ Sound(s)
        /\ Ahead(map)
        /\ \A q \in Has(t) : TableGet(t, q) = NULL <=> q \in Has(s)
        /\ \A q \in Has(s) : TableGet(s, q) # NULL
    BY <2>1, Zenon DEF Pair, Fine
  <2>3. /\ content' \in [Keys -> Values \cup {NULL}]
        /\ \A q \in Keys : content'[q] = IF q = k THEN NULL ELSE content[q]
    BY <1>3, <1>6, Zenon
  <2>4. k \in Has(t) /\ k \in Has(s) => DelOverwritten
    BY <1>6, Zenon DEF del, Has
  <2>5. CASE k \in Has(t)
    <3> DEFINE u == TableDel(t, k)
               m == MapRecord(u, s, map.state, map.current, map.locked)
    <3>1. map' = PartialTransfer(SetMain(map, u), good)
      BY <1>6, <2>5, Zenon DEF del, SetMain, Has
    <3>2. /\ Fine(u) /\ Has(u) = Has(t) \ {k} /\ u.num_buckets = t.num_buckets
          /\ \A q \in Keys : TableGet(u, q) = IF q = k THEN NULL ELSE TableGet(t, q)
      BY <1>4, <2>2, Zenon
    <3>3. SetMain(map, u) = m
      BY <2>2, Assign, Zenon
    <3> HIDE DEF u
    <3>4. /\ m.main = u /\ m.secondary = s /\ m.state = "TRANSFER"
          /\ m.current = map.current /\ m.locked = map.locked /\ IsMap(m)
      BY <1>6, Zenon DEF IsMap, MapRecord
    <3> HIDE DEF m
    <3>5. Ahead(m)
      BY <2>2, <3>2, <3>4, Zenon DEF Ahead, get_bucket_index
    <3>6. Pair(m)
      BY <2>2, <3>2, <3>4, <3>5, Zenon DEF Pair, Has
    <3>7. ~DelOverwritten => TableGet(s, k) = NULL
      BY <2>2, <2>4, <2>5, GetTypes, Zenon
    <3>8. ~DelOverwritten => \A q \in Keys : Look(m, q) = content'[q]
      BY <2>1, <2>3, <3>2, <3>4, <3>7, Zenon DEF Look
    <3>9. InvOf(PartialTransfer(m, good), content', hung)
      BY <2>1, <2>3, <3>4, <3>6, <3>8, TransferStep, Zenon
    <3>10. QED
      BY <1>1, <3>1, <3>3, <3>9, Zenon DEF IInv
  <2>6. CASE k \notin Has(t)
    <3> DEFINE u == TableDel(s, k)
               m == MapRecord(t, u, map.state, map.current, map.locked)
    <3>1. map' = PartialTransfer(SetSecondary(map, u), good)
      BY <1>6, <2>6, Zenon DEF del, SetSecondary, Has
    <3>2. /\ Fine(u) /\ Has(u) = Has(s) \ {k}
          /\ \A q \in Keys : TableGet(u, q) = IF q = k THEN NULL ELSE TableGet(s, q)
      BY <1>4, <2>2, Zenon
    <3>3. SetSecondary(map, u) = m
      BY <2>2, Assign, Zenon
    <3> HIDE DEF u
    <3>4. /\ m.main = t /\ m.secondary = u /\ m.state = "TRANSFER"
          /\ m.current = map.current /\ m.locked = map.locked /\ IsMap(m)
      BY <1>6, Zenon DEF IsMap, MapRecord
    <3> HIDE DEF m
    <3>5. Pair(m)
      BY <2>2, <2>6, <3>2, <3>4, Zenon DEF Pair, Has, Ahead
    <3>6. TableGet(t, k) = NULL
      BY <2>2, <2>6, GetTypes, Zenon
    <3>7. ~DelOverwritten => \A q \in Keys : Look(m, q) = content'[q]
      BY <2>1, <2>3, <3>2, <3>4, <3>6, Zenon DEF Look
    <3>8. InvOf(PartialTransfer(m, good), content', hung)
      BY <2>1, <2>3, <3>4, <3>5, <3>7, TransferStep, Zenon
    <3>9. QED
      BY <1>1, <3>1, <3>3, <3>8, Zenon DEF IInv
  <2>7. QED
    BY <2>5, <2>6, Zenon
<1>7. QED
  BY <1>2, <1>5, <1>6, Before, Zenon

\* The next state of delete_all_keys.
LEMMA DeleteAllStep ==
  ASSUME IInv, delete_all_keys
  PROVE  IInv'
<1> DEFINE none == [k \in Keys |-> NULL]
           t == map.main
           s == map.secondary
           dt == table_delete_all_entries(t)
           ds == table_delete_all_entries(s)
<1>1. hung' = hung /\ Returned(hung) /\ map.locked \in BOOLEAN
  BY Before, Zenon DEF delete_all_keys
<1>2. none \in [Keys -> Values \cup {NULL}] /\ \A q \in Keys : none[q] = NULL
  BY Zenon
<1>3. CASE map.state = "ERROR"
  <2>1. map' = map /\ content' = content
    BY <1>3, Zenon DEF delete_all_keys
  <2>2. QED
    BY <1>1, <2>1, Zenon DEF IInv
<1>4. CASE map.state = "STABLE"
  <2> DEFINE m == MapRecord(dt, s, map.state, map.current, map.locked)
  <2>1. map' = SetMain(map, dt) /\ content' = none
    BY <1>4, Zenon DEF delete_all_keys, SetMain
  <2>2. /\ IsMap(map) /\ map.current \in Nat /\ Sound(t) /\ s = NULL
    BY <1>4, Before, Zenon DEF One, Fine
  <2>3. Vacant(dt) /\ Fine(dt)
    BY <2>2, DeletedAll, VacantIsFine, Zenon
  <2>4. SetMain(map, dt) = m
    BY <2>2, Assign, Zenon
  <2> HIDE DEF dt, none
  <2>5. /\ m.main = dt /\ m.secondary = NULL /\ m.state = "STABLE"
        /\ m.current = map.current /\ m.locked = map.locked /\ IsMap(m)
    BY <1>4, <2>2, Zenon DEF IsMap, MapRecord
  <2> HIDE DEF m
  <2>6. One(m) /\ \A q \in Keys : Seen(m, q) = none[q]
    BY <1>2, <2>2, <2>3, <2>5, Zenon DEF One, Vacant, Seen
  <2>7. InvOf(m, none, hung)
    BY <1>1, <1>2, <2>5, <2>6, Zenon DEF InvOf, Valid, Shows
  <2>8. QED
    BY <1>1, <2>1, <2>4, <2>7, Zenon DEF IInv
<1>5. CASE map.state = "TRANSFER"
  <2> DEFINE m == MapRecord(dt, ds, map.state, map.current, map.locked)
  <2>1. map' = TransferLoop(SetTables(map, dt, ds), 0).map /\ content' = none
    BY <1>5, Zenon DEF delete_all_keys, SetTables
  <2>2. IsMap(map) /\ map.current \in Nat /\ Sound(t) /\ Sound(s)
    BY <1>5, Before, Zenon DEF Pair, Fine
  <2>3. Vacant(dt) /\ Fine(dt) /\ Vacant(ds) /\ Fine(ds)
    BY <2>2, DeletedAll, VacantIsFine, Zenon
  <2>4. SetTables(map, dt, ds) = m
    BY <2>2, Assign, Zenon
  <2> HIDE DEF dt, ds, none
  <2>5. /\ m.main = dt /\ m.secondary = ds /\ m.state = "TRANSFER"
        /\ m.current = map.current /\ m.locked = map.locked /\ IsMap(m)
    BY <1>5, Zenon DEF IsMap, MapRecord
  <2> HIDE DEF m
  <2>6. Pair(m)
    BY <2>2, <2>3, <2>5, Zenon DEF Pair, Vacant, Ahead
  <2>7. \A q \in Keys : Look(m, q) = none[q]
    BY <1>2, <2>3, <2>5, Zenon DEF Look, Vacant
  <2>8. InvOf(TransferLoop(m, 0).map, none, hung)
    BY <1>1, <1>2, <2>5, <2>6, <2>7, LoopStep, Zenon
  <2>9. QED
    BY <1>1, <2>1, <2>4, <2>8, Zenon DEF IInv
<1>6. QED
  BY <1>3, <1>4, <1>5, Before, Zenon

\* The next state of lock_table_size.
LEMMA LockStep ==
  ASSUME IInv, NEW b \in BOOLEAN, lock_table_size(b)
  PROVE  IInv'
<1> DEFINE n == MapRecord(map.main, map.secondary, map.state, map.current, b)
<1>1. map' = SetLocked(map, b) /\ content' = content /\ hung' = hung
  BY Zenon DEF lock_table_size, SetLocked
<1>2. IsMap(map) /\ Valid(map)
  BY Zenon DEF IInv, InvOf, Valid, One, Pair, NoTable
<1>3. SetLocked(map, b) = n
  BY <1>2, Assign, Zenon
<1>4. /\ n.main = map.main /\ n.secondary = map.secondary /\ n.state = map.state
      /\ n.current = map.current /\ n.locked = b /\ IsMap(n)
  BY Zenon DEF IsMap, MapRecord
<1> HIDE DEF n
<1>5. /\ One(map) => One(n)
      /\ Pair(map) => Pair(n)
      /\ NoTable(map) => NoTable(n)
  <2>1. One(map) => One(n)
    BY <1>4, Zenon DEF One
  <2>2. Pair(map) => Pair(n)
    BY <1>4, Zenon DEF Pair, Ahead
  <2>3. NoTable(map) => NoTable(n)
    BY <1>4, Zenon DEF NoTable
  <2>4. QED
    BY <2>1, <2>2, <2>3, Zenon
<1>6. Valid(n)
  BY <1>2, <1>4, <1>5, Zenon DEF Valid
<1>7. ~DelOverwritten => Shows(n, content)
  BY <1>4, Zenon DEF IInv, InvOf, Shows, Seen
<1>8. InvOf(n, content, hung)
  BY <1>6, <1>7, Zenon DEF IInv, InvOf
<1>9. QED
  BY <1>1, <1>3, <1>8, Zenon DEF IInv

\* The next state of reserve.
LEMMA ReserveStep ==
  ASSUME IInv, NEW power \in MIN_POWER .. MAX_POWER, NEW fail, NEW good,
         reserve(power, fail, good)
  PROVE  IInv'
<1> DEFINE first == IF map.state = "TRANSFER" THEN TransferLoop(map, good)
                    ELSE [map |-> map, how |-> "complete"]
           f == first.map
           bigger == begin_resize(f, power, Ok(fail, "table"))
           second == TransferLoop(bigger, good)
<1>1. content' = content
  BY Zenon DEF reserve
<1>2. CASE map.state = "ERROR"
  <2>1. map' = map /\ hung' = hung
    BY <1>2, Zenon DEF reserve
  <2>2. QED
    BY <1>1, <2>1, Zenon DEF IInv
<1>3. CASE map.state # "ERROR"
  <2>1. /\ first.how # "complete" => map' = f /\ hung' = (first.how = "loops")
        /\ first.how = "complete" /\ power <= f.main.power => map' = f /\ hung' = hung
        /\ first.how = "complete" /\ ~(power <= f.main.power) =>
             IF bigger.state = "ERROR" THEN map' = bigger /\ hung' = hung
             ELSE map' = second.map /\ hung' = (second.how = "loops")
    BY <1>3, Zenon DEF reserve
  <2>2. Returned(hung) /\ content \in [Keys -> Values \cup {NULL}]
    BY Before, Zenon
  <2>3. /\ \A h : Returned(h) => InvOf(f, content, h)
        /\ first.how = "complete" => f.state = "STABLE"
        /\ "value" \notin Failures => first.how # "loops"
    <3>1. CASE map.state = "TRANSFER"
      <4>1. first = TransferLoop(map, good)
        BY <3>1, Zenon
      <4>2. f = TransferLoop(map, good).map
        BY <4>1, Zenon
      <4> HIDE DEF first
      <4>3. \A h : Returned(h) => InvOf(TransferLoop(map, good).map, content, h)
        BY <3>1, Before, LoopStep, Zenon
      <4>4. /\ TransferLoop(map, good).how = "complete" =>
                 TransferLoop(map, good).map.state = "STABLE"
            /\ "value" \notin Failures => TransferLoop(map, good).how # "loops"
        BY <2>2, <3>1, Before, LoopStep, Zenon
      <4>5. QED
        BY <4>1, <4>3, <4>4, Zenon
    <3>2. CASE map.state = "STABLE"
      <4>1. first = [map |-> map, how |-> "complete"]
        BY <3>2, Zenon
      <4> HIDE DEF first
      <4>2. f = map /\ first.how = "complete"
        BY <4>1, Zenon
      <4>3. QED
        BY <3>2, <4>2, Zenon DEF IInv, InvOf
    <3>3. QED
      BY <1>3, <3>1, <3>2, Before, Zenon
  <2> HIDE DEF first
  <2>4. CASE first.how # "complete"
    <3>1. map' = f /\ Returned(hung')
      BY <2>1, <2>3, <2>4, Zenon DEF Returned
    <3>2. QED
      BY <1>1, <2>3, <3>1, Zenon DEF IInv
  <2>5. CASE first.how = "complete" /\ power <= f.main.power
    <3>1. map' = f /\ hung' = hung
      BY <2>1, <2>5, Zenon
    <3>2. QED
      BY <1>1, <2>2, <2>3, <3>1, Zenon DEF IInv
  <2>6. CASE first.how = "complete" /\ ~(power <= f.main.power)
    <3> DEFINE w == [q \in Keys |-> TableGet(f.main, q)]
    <3>1. IF bigger.state = "ERROR" THEN map' = bigger /\ hung' = hung
          ELSE map' = second.map /\ hung' = (second.how = "loops")
      BY <2>1, <2>6, Zenon
    <3>2. One(f) /\ f.locked \in BOOLEAN /\ f.state = "STABLE"
      BY <2>2, <2>3, <2>6, Zenon DEF InvOf, Valid
    <3>3. \A q \in Keys : TableGet(f.main, q) = w[q]
      BY Zenon
    <3>4. ~DelOverwritten => \A q \in Keys : w[q] = content[q]
      BY <2>2, <2>3, <3>2, <3>3, Zenon DEF InvOf, Shows, Seen
    <3> HIDE DEF w, f
    <3>5. Ends(bigger, w) /\ bigger.state \in {"ERROR", "TRANSFER"}
      <4>1. power \in Nat /\ power >= MIN_POWER
        BY MapConstants
      <4>2. QED
        BY <3>2, <3>3, <4>1, BeginEnds, Zenon
    <3> HIDE DEF bigger, second
    <3>6. CASE bigger.state = "ERROR"
      <4>1. map' = bigger /\ hung' = hung
        BY <3>1, <3>6, Zenon
      <4>2. QED
        BY <1>1, <2>2, <3>4, <3>5, <4>1, Finish, Zenon DEF IInv
    <3>7. CASE bigger.state = "TRANSFER"
      <4>1. map' = second.map /\ hung' = (second.how = "loops")
        BY <3>1, <3>7, Zenon
      <4>2. Pair(bigger) /\ bigger.locked \in BOOLEAN
        BY <3>5, <3>7, Zenon DEF Ends, Valid
      <4>3. ~DelOverwritten => \A q \in Keys : Look(bigger, q) = content[q]
        BY <3>4, <3>5, <3>7, Zenon DEF Ends, Shows, Seen, Look
      <4>4. "value" \notin Failures => second.how # "loops"
        BY <2>2, <3>7, <4>2, <4>3, LoopStep, Zenon DEF second
      <4>5. Returned(hung')
        BY <4>1, <4>4, Zenon DEF Returned
      <4>6. InvOf(second.map, content, hung')
        BY <2>2, <3>7, <4>2, <4>3, <4>5, LoopStep, Zenon DEF second
      <4>7. QED
        BY <1>1, <4>1, <4>6, Zenon DEF IInv
    <3>8. QED
      BY <3>5, <3>6, <3>7, Zenon
  <2>7. QED
    BY <2>4, <2>5, <2>6, Zenon
<1>4. QED
  BY <1>2, <1>3, Zenon

-----------------------------------------------------------------------------
(* The theorems. *)

\* The constructor makes an empty table, or none.
LEMMA InitInv ==
  ASSUME Init
  PROVE  IInv
<1>1. /\ content \in [Keys -> Values \cup {NULL}] /\ Returned(hung)
      /\ \A q \in Keys : content[q] = NULL
  BY Zenon DEF Init, Returned
<1>2. 0 \in Nat /\ FALSE \in BOOLEAN
  OBVIOUS
<1>3. ASSUME NEW n \in InitialBuckets,
             map = MapRecord(Table(MIN_POWER, n), NULL, "STABLE", 0, FALSE)
      PROVE  IInv
  <2> DEFINE t == Table(MIN_POWER, n)
  <2>1. MIN_POWER \in MIN_POWER .. MAX_POWER /\ n \in 0 .. Primes[MIN_POWER]
    BY MapConstants
  <2>2. Vacant(t) /\ Fine(t)
    BY <2>1, FreshTable, VacantIsFine, Zenon
  <2> HIDE DEF t
  <2>3. /\ map.main = t /\ map.secondary = NULL /\ map.state = "STABLE" /\ map.current = 0
        /\ map.locked = FALSE /\ IsMap(map)
    BY <1>3, Zenon DEF IsMap, MapRecord, t
  <2>4. One(map) /\ \A q \in Keys : Seen(map, q) = NULL
    BY <1>2, <2>2, <2>3, Zenon DEF One, Vacant, Seen
  <2>5. QED
    BY <1>1, <1>2, <2>3, <2>4, Zenon DEF IInv, InvOf, Valid, Shows
<1>4. ASSUME map = MapRecord(NULL, NULL, "ERROR", 0, FALSE)
      PROVE  IInv
  <2>1. /\ map.main = NULL /\ map.secondary = NULL /\ map.state = "ERROR" /\ map.current = 0
        /\ map.locked = FALSE /\ IsMap(map)
    BY <1>4, Zenon DEF IsMap, MapRecord
  <2>2. NoTable(map)
    BY <1>2, <2>1, Zenon DEF NoTable
  <2>3. QED
    BY <1>1, <1>2, <2>1, <2>2, Zenon DEF IInv, InvOf, Valid, Shows
<1>5. \/ \E n \in InitialBuckets :
           map = MapRecord(Table(MIN_POWER, n), NULL, "STABLE", 0, FALSE)
      \/ map = MapRecord(NULL, NULL, "ERROR", 0, FALSE)
  BY Zenon DEF Init, MapRecord
<1>6. QED
  BY <1>3, <1>4, <1>5, Zenon

\* Every operation keeps the invariant.
LEMMA NextInv ==
  ASSUME IInv, [Next]_vars
  PROVE  IInv'
<1>1. CASE \E k \in Keys, v \in Values, fail \in SUBSET Failures, good \in GoodMoves :
             put(k, v, fail, good)
  BY <1>1, PutStep, Zenon
<1>2. CASE \E fail \in TableFailures, good \in GoodMoves : \E k \in Keys : del(k, fail, good)
  BY <1>2, DelStep, Zenon
<1>3. CASE \E fail \in TableFailures, good \in GoodMoves :
             \E power \in MIN_POWER .. MAX_POWER : reserve(power, fail, good)
  BY <1>3, ReserveStep, Zenon
<1>4. CASE Lookups
  BY <1>4, GetStep, Zenon DEF Lookups
<1>5. CASE \E good \in GoodMoves : finalize(good)
  BY <1>5, FinalizeStep, Zenon
<1>6. CASE delete_all_keys
  BY <1>6, DeleteAllStep, Zenon
<1>7. CASE \E b \in BOOLEAN : lock_table_size(b)
  BY <1>7, LockStep, Zenon
<1>8. CASE UNCHANGED vars
  <2>1. map' = map /\ content' = content /\ hung' = hung
    BY <1>8, Zenon DEF vars
  <2>2. QED
    BY <2>1, Zenon DEF IInv
<1>9. QED
  BY <1>1, <1>2, <1>3, <1>4, <1>5, <1>6, <1>7, <1>8, Zenon DEF Next

\* The invariant holds in every reachable state.
LEMMA Invariant == Spec => []IInv
<1>1. Init => IInv
  BY InitInv, Zenon
<1>2. IInv /\ [Next]_vars => IInv'
  BY NextInv, Zenon
<1>3. QED
  BY <1>1, <1>2, PTL DEF Spec

\* The entry at a place of a sound table is the one a lookup of its key finds.
LEMMA EntryIs ==
  ASSUME NEW t, Sound(t), NEW p \in Entries(t)
  PROVE  /\ Entry(t, p).key \in Has(t)
         /\ p[1] = get_bucket_index(t, Entry(t, p).key)
         /\ TableGet(t, Entry(t, p).key) = Entry(t, p).val
         /\ p = <<get_bucket_index(t, Entry(t, p).key),
                  Position(BucketOf(t, Entry(t, p).key), Entry(t, p).key)>>
<1>1. DOMAIN t.buckets = 0 .. (t.num_buckets - 1) /\ t.num_buckets \in Nat
  BY TableTypes, Zenon DEF Sound
<1>2. PICK i \in DOMAIN t.buckets : \E j \in DOMAIN t.buckets[i].entries : p = <<i, j>>
  BY Zenon DEF Entries
<1>3. PICK j \in DOMAIN t.buckets[i].entries : p = <<i, j>>
  BY <1>2, Zenon
<1> DEFINE es == t.buckets[i].entries
           k == es[j].key
<1>4. p[1] = i /\ p[2] = j
  BY <1>3
<1>5. Entry(t, p) = es[j]
  BY <1>4, Zenon DEF Entry
<1>6. /\ Distinct(es) /\ \A q : In(es, q) => q \in Keys /\ get_bucket_index(t, q) = i
  BY <1>1, BucketTypes, Zenon
<1>7. j \in 1 .. Len(es)
  BY <1>6 DEF Distinct
<1>8. Position(es, k) = j /\ In(es, k) /\ At(es, k) = es[j].val
  BY <1>6, <1>7, PositionFinds, Zenon
<1>9. k \in Keys /\ get_bucket_index(t, k) = i /\ BucketOf(t, k) = es
  BY <1>6, <1>8, Zenon DEF BucketOf
<1>10. t.num_buckets # 0
  BY <1>1
<1> HIDE DEF es, k
<1>11. k \in Has(t) /\ TableGet(t, k) = es[j].val
  BY <1>8, <1>9, <1>10, TableView, Zenon DEF Has
<1>12. Entry(t, p).key = k /\ Entry(t, p).val = es[j].val
  BY <1>5, Zenon DEF k
<1>13. QED
  BY <1>3, <1>4, <1>8, <1>9, <1>11, <1>12, Zenon

\* A key has one place.
LEMMA OneEntry ==
  ASSUME NEW t, Sound(t), NEW p \in Entries(t), NEW q \in Entries(t),
         Entry(t, p).key = Entry(t, q).key
  PROVE  p = q
<1> DEFINE place(k) == <<get_bucket_index(t, k), Position(BucketOf(t, k), k)>>
<1>1. p = place(Entry(t, p).key)
  BY EntryIs, Zenon
<1>2. q = place(Entry(t, q).key)
  BY EntryIs, Zenon
<1> HIDE DEF place
<1>3. QED
  BY <1>1, <1>2, Zenon

\* Every key of a table has an entry.
LEMMA EntryExists ==
  ASSUME NEW t, Sound(t), NEW k \in Has(t)
  PROVE  \E p \in Entries(t) : Entry(t, p).key = k
<1> DEFINE i == get_bucket_index(t, k)
           es == t.buckets[i].entries
           j == Position(es, k)
<1>1. k \in Keys /\ t.num_buckets # 0 /\ In(es, k)
  BY TableView, Zenon DEF Has, BucketOf
<1>2. i \in 0 .. (t.num_buckets - 1) /\ DOMAIN t.buckets = 0 .. (t.num_buckets - 1)
  BY <1>1, TableTypes, Zenon DEF Sound
<1>3. Distinct(es)
  BY <1>2, BucketTypes, Zenon
<1>4. j \in 1 .. Len(es) /\ es[j].key = k
  BY <1>1, <1>3, PositionOf, Zenon
<1>5. j \in DOMAIN es
  BY <1>3, <1>4 DEF Distinct
<1> HIDE DEF j
<1>6. <<i, j>> \in Entries(t)
  <2>1. <<i, j>> \in {<<i, y>> : y \in DOMAIN es}
    BY <1>5, Zenon
  <2> HIDE DEF i
  <2>2. QED
    BY <1>2, <2>1 DEF Entries
<1>7. <<i, j>>[1] = i /\ <<i, j>>[2] = j
  OBVIOUS
<1>8. Entry(t, <<i, j>>) = es[j]
  BY <1>7, Zenon DEF Entry
<1>9. QED
  BY <1>4, <1>6, <1>8, Zenon

\* A table has as many entries as keys.
LEMMA EntriesAreKeys ==
  ASSUME NEW t, Sound(t), IsFiniteSet(Has(t))
  PROVE  Cardinality(Entries(t)) = Cardinality(Has(t))
<1> DEFINE f == [p \in Entries(t) |-> Entry(t, p).key]
<1>1. f \in [Entries(t) -> Has(t)]
  BY EntryIs, Zenon
<1>2. \A p, q \in Entries(t) : f[p] = f[q] => p = q
  BY OneEntry, Zenon
<1>3. \A k \in Has(t) : \E p \in Entries(t) : f[p] = k
  BY EntryExists, Zenon
<1> HIDE DEF f
<1>4. f \in Injection(Entries(t), Has(t)) /\ f \in Surjection(Entries(t), Has(t))
  BY <1>1, <1>2, <1>3, Zenon DEF Injection, Surjection, IsInjective
<1>5. QED
  BY <1>4, FS_Injection, Zenon

\* A null pointer is no table.
LEMMA NoNull ==
  ASSUME NEW t, Fine(t)
  PROVE  t # NULL /\ IsTable(t) /\ Sound(t)
<1>1. /\ t.power \in MIN_POWER .. MAX_POWER /\ t.num_buckets \in 0 .. Primes[t.power]
      /\ t \in TablesOf(t.power, t.num_buckets)
  BY Zenon DEF Fine, Sound, IsTable
<1>2. NULL \notin TablesOf(t.power, t.num_buckets)
  BY <1>1, NullIsNoTable, Zenon
<1>3. QED
  BY <1>1, <1>2, Zenon DEF Fine, Sound

\* Which tables a valid map has.
LEMMA TablesAre ==
  ASSUME IInv
  PROVE  /\ \A t \in Tables : Fine(t)
         /\ map.main # NULL <=> (One(map) \/ Pair(map))
         /\ map.secondary # NULL <=> Pair(map)
         /\ map.state = "STABLE" => One(map)
         /\ map.state = "TRANSFER" => Pair(map)
         /\ map.current \in Nat
<1>1. Valid(map)
  BY Zenon DEF IInv, InvOf
<1>2. /\ One(map) => /\ Fine(map.main) /\ map.main # NULL /\ map.secondary = NULL
                     /\ map.current \in Nat
      /\ Pair(map) => /\ Fine(map.main) /\ Fine(map.secondary) /\ map.current \in Nat
                      /\ map.main # NULL /\ map.secondary # NULL
      /\ NoTable(map) => /\ map.main = NULL /\ map.secondary = NULL /\ map.current \in Nat
  BY NoNull, Zenon DEF One, Pair, NoTable
<1>3. /\ One(map) \/ Pair(map) \/ NoTable(map)
      /\ map.state = "STABLE" => One(map)
      /\ map.state = "TRANSFER" => Pair(map)
  BY <1>1, Zenon DEF Valid
<1>4. \A t \in Tables : Fine(t)
  BY <1>2, <1>3, Zenon DEF Tables
<1>5. QED
  BY <1>2, <1>3, <1>4, Zenon

\* TypeOK: which tables exist in which state, and their shape.
LEMMA Types ==
  ASSUME IInv
  PROVE  TypeOK
<1>1. /\ map.state \in {"ERROR", "STABLE", "TRANSFER"} /\ map.locked \in BOOLEAN
      /\ content \in [Keys -> Values \cup {NULL}] /\ hung \in BOOLEAN
  BY Before, Zenon DEF Returned
<1>2. map.state = "STABLE" => map.main # NULL /\ map.secondary = NULL
  BY TablesAre, Zenon DEF One
<1>3. map.state = "TRANSFER" => map.main # NULL /\ map.secondary # NULL
  BY TablesAre, Zenon
<1>4. \A t \in Tables : IsTable(t)
  BY TablesAre, NoNull, Zenon
<1>5. QED
  BY <1>1, <1>2, <1>3, <1>4, TablesAre, Zenon DEF TypeOK

\* Whatever allocations fail, and in the error state too: a key has one entry
\* in a table, in the bucket of its hash, and the entries without a value are
\* those of the main table whose key is in the secondary one.  So a transfer
\* drops no value and no value has two owners (map.hpp, put and
\* perform_partial_transfer).
THEOREM WellPlaced == Spec => []EntriesWellPlaced
<1>1. ASSUME IInv PROVE EntriesWellPlaced
  <2>1. ASSUME NEW t \in Tables, NEW p \in Entries(t), NEW q \in Entries(t)
        PROVE  /\ p[1] = get_bucket_index(t, Entry(t, p).key)
               /\ Entry(t, p).key = Entry(t, q).key => p = q
    <3>1. Sound(t)
      BY <1>1, TablesAre, NoNull, Zenon
    <3>2. QED
      BY <3>1, EntryIs, OneEntry, Zenon
  <2>2. ASSUME map.main # NULL, NEW p \in Entries(map.main)
        PROVE  Entry(map.main, p).val = NULL <=>
                 /\ map.secondary # NULL
                 /\ HasEntry(map.secondary, Entry(map.main, p).key)
    <3>1. One(map) \/ Pair(map)
      BY <1>1, <2>2, TablesAre, Zenon
    <3>2. Sound(map.main)
      BY <3>1, Zenon DEF One, Pair, Fine
    <3> DEFINE k == Entry(map.main, p).key
    <3>3. k \in Has(map.main) /\ TableGet(map.main, k) = Entry(map.main, p).val
      BY <2>2, <3>2, EntryIs, Zenon
    <3> HIDE DEF k
    <3>4. CASE One(map)
      <4>1. map.secondary = NULL /\ TableGet(map.main, k) # NULL
        BY <3>3, <3>4, Zenon DEF One
      <4>2. QED
        BY <3>3, <4>1, Zenon
    <3>5. CASE Pair(map)
      <4>1. map.secondary # NULL
        BY <1>1, <3>5, TablesAre, Zenon
      <4>2. TableGet(map.main, k) = NULL <=> HasEntry(map.secondary, k)
        BY <3>3, <3>5, Zenon DEF Pair, Has
      <4>3. QED
        BY <3>3, <4>1, <4>2, Zenon DEF k
    <3>6. QED
      BY <3>1, <3>4, <3>5, Zenon
  <2>3. ASSUME map.secondary # NULL, NEW p \in Entries(map.secondary)
        PROVE  Entry(map.secondary, p).val # NULL
    <3>1. Pair(map)
      BY <1>1, <2>3, TablesAre, Zenon
    <3>2. Sound(map.secondary) /\ \A k \in Has(map.secondary) : TableGet(map.secondary, k) # NULL
      BY <3>1, Zenon DEF Pair, Fine
    <3>3. QED
      BY <2>3, <3>2, EntryIs, Zenon
  <2>4. TypeOK
    BY <1>1, Types, Zenon
  <2>5. QED
    BY <2>1, <2>2, <2>3, <2>4, Zenon DEF EntriesWellPlaced
<1>2. QED
  BY <1>1, Invariant, PTL

\* No entry of the main table is behind the cursor of the transfer, which
\* only looks ahead (map.hpp, perform_partial_transfer).
THEOREM Cursor == Spec => []NothingStranded
<1>1. ASSUME IInv PROVE NothingStranded
  <2>1. SUFFICES ASSUME map.state = "TRANSFER", NEW p \in Entries(map.main)
                 PROVE  p[1] >= map.current
    BY Zenon DEF NothingStranded
  <2>2. Sound(map.main) /\ Ahead(map)
    BY <1>1, <2>1, TablesAre, Zenon DEF Pair, Fine
  <2>3. p[1] = get_bucket_index(map.main, Entry(map.main, p).key)
        /\ Entry(map.main, p).key \in Has(map.main)
    BY <2>1, <2>2, EntryIs, Zenon
  <2>4. QED
    BY <2>2, <2>3, Zenon DEF Ahead
<1>2. QED
  BY <1>1, Invariant, PTL

\* Unless the allocation of a value fails, whose roll-back in put forgets the
\* counter, the counters of the tables agree with their buckets.
THEOREM Counted ==
  ASSUME "value" \notin Failures
  PROVE  Spec => []EntriesCounted
<1>1. ASSUME IInv PROVE EntriesCounted
  <2>1. SUFFICES ASSUME NEW t \in Tables PROVE t.total_entries = Cardinality(Entries(t))
    BY Zenon DEF EntriesCounted
  <2>2. Fine(t)
    BY <1>1, TablesAre, Zenon
  <2>3. Cardinality(Entries(t)) = Cardinality(Has(t))
    BY <2>2, EntriesAreKeys, Zenon DEF Fine, Counts
  <2>4. QED
    BY <2>2, <2>3, Zenon DEF Fine, Counts
<1>2. QED
  BY <1>1, Invariant, PTL

\* As long as no key is deleted that was put during the present resize and
\* before, a lookup gives what was put last, at every moment of a resize and
\* whatever allocations fail.
THEOREM LookupsAgree ==
  ASSUME ~DelOverwritten
  PROVE  Spec => []LookupFindsContent
<1>1. ASSUME IInv PROVE LookupFindsContent
  BY <1>1, Zenon DEF LookupFindsContent, IInv, InvOf, Shows, Seen, Lookup
<1>2. QED
  BY <1>1, Invariant, PTL

\* Unless the allocation of a value fails, finalize and reserve return: the
\* loop of partial transfers ends (map.hpp, finalize and reserve).
THEOREM Returns ==
  ASSUME "value" \notin Failures
  PROVE  Spec => []CallsReturn
<1>1. ASSUME IInv PROVE CallsReturn
  BY <1>1, Before, Zenon DEF Returned, CallsReturn
<1>2. QED
  BY <1>1, Invariant, PTL

=============================================================================
