--------------------------- MODULE TlsfShapeProofs ---------------------------
(***************************************************************************)
(* The size classes of the TLSF allocator, and what its helpers do to an   *)
(* arena.                                                                  *)
(*                                                                         *)
(* The first half is about TlsfMapping, for every word size, number of     *)
(* classes and alignment: each block has a class within the arrays of      *)
(* struct rtl_tlsf_arena, classes are ordered as sizes are, and the class  *)
(* mapping_search starts from holds only blocks that fit (SearchFits) and  *)
(* is not above a block that is larger by one part in SLI_COUNT            *)
(* (SearchReaches).  The sizes are powers of two with a symbolic exponent, *)
(* of which the provers know nothing; what is needed of them is derived    *)
(* first.                                                                  *)
(*                                                                         *)
(* The second half is about insert_block, remove_block, split_blk,         *)
(* blk_merge and the splitting done by rtl_tlsf_alloc: what they do to the *)
(* chain of headers that tiles the pool (Chain) and to the lists and       *)
(* bitmaps that index a set of blocks (Lists).  The middle of a call has a *)
(* free block that is in no list yet, so the helpers are treated one by    *)
(* one for an arena whose lists hold some set S of blocks (Shape).         *)
(*                                                                         *)
(* Leaves that need no arithmetic name Zenon.                              *)
(***************************************************************************)
EXTENDS Tlsf, FiniteSetTheorems, WellFoundedInduction, TLAPS

Less == {p \in Nat \X Nat : p[1] < p[2]}

\* Every non-empty set of natural numbers has a least element: the form in
\* which induction is used below.
LEMMA LeastElement ==
  ASSUME NEW T, T \subseteq Nat, T # {}
  PROVE  \E x \in T : \A y \in T : x <= y
<1>1. IsWellFoundedOn(Less, Nat)
  BY NatLessThanWellFounded DEF OpToRel, Less
<1>2. PICK x \in T : \A y \in T : ~ (<<y, x>> \in Less)
  BY <1>1, WFMin, Zenon
<1>3. ASSUME NEW y \in T PROVE x <= y
  <2>1. <<y, x>> \in Nat \X Nat
    OBVIOUS
  <2>2. QED
    BY <1>2, <2>1 DEF Less
<1>4. QED
  BY <1>3

-----------------------------------------------------------------------------
(* Powers of two.  The provers know no symbolic powers: 2^n is the number of *)
(* subsets of 1 .. n.                                                        *)

Pow(n) == 2^n

\* 2^n is the number of subsets of 1 .. n, hence a number: the facts about
\* the powers of two in memory.incl start from here.
LEMMA PowCounts ==
  ASSUME NEW n \in Nat
  PROVE  /\ Pow(n) \in Nat
         /\ IsFiniteSet(SUBSET (1 .. n))
         /\ Cardinality(SUBSET (1 .. n)) = Pow(n)
<1>1. IsFiniteSet(1 .. n) /\ Cardinality(1 .. n) = n
  BY FS_Interval
<1>2. /\ IsFiniteSet(SUBSET (1 .. n))
      /\ Cardinality(SUBSET (1 .. n)) = 2^Cardinality(1 .. n)
  BY <1>1, FS_SUBSET, Zenon
<1>3. Cardinality(SUBSET (1 .. n)) \in Nat
  BY <1>2, FS_CardinalityType
<1>4. 2^Cardinality(1 .. n) = 2^n
  BY <1>1
<1>5. QED
  BY <1>2, <1>3, <1>4 DEF Pow

\* Shifting 1 by one more place doubles it: a set has twice as many subsets
\* with one more element.
LEMMA PowDouble ==
  ASSUME NEW n \in Nat
  PROVE  Pow(n + 1) = 2 * Pow(n)
<1> DEFINE S == SUBSET (1 .. n)
           T == {X \cup {n + 1} : X \in S}
           f == [X \in S |-> X \cup {n + 1}]
<1>1. SUBSET (1 .. (n + 1)) = S \cup T
  <2>1. ASSUME NEW X \in SUBSET (1 .. (n + 1)) PROVE X \in S \cup T
    <3>1. CASE n + 1 \in X
      <4>1. X \ {n + 1} \in S /\ X = (X \ {n + 1}) \cup {n + 1}
        BY <3>1
      <4>2. QED
        BY <4>1, Zenon
    <3>2. CASE n + 1 \notin X
      <4>1. X \in S
        BY <3>2
      <4>2. QED
        BY <4>1
    <3>3. QED
      BY <3>1, <3>2
  <2>2. S \cup T \subseteq SUBSET (1 .. (n + 1))
    <3>1. 1 .. n \subseteq 1 .. (n + 1) /\ n + 1 \in 1 .. (n + 1)
      OBVIOUS
    <3>2. QED
      BY <3>1, Zenon
  <2>3. QED
    BY <2>1, <2>2, Zenon
<1>2. S \cap T = {}
  OBVIOUS
<1>3. IsFiniteSet(S) /\ Cardinality(S) = Pow(n) /\ Pow(n) \in Nat
  BY PowCounts
<1>4. f \in Bijection(S, T)
  <2>1. f \in [S -> T]
    OBVIOUS
  <2>2. \A X, Y \in S : f[X] = f[Y] => X = Y
    OBVIOUS
  <2>3. \A Z \in T : \E X \in S : f[X] = Z
    OBVIOUS
  <2>4. QED
    BY <2>1, <2>2, <2>3, Zenon DEF Bijection, Injection, Surjection, IsInjective
<1>5. IsFiniteSet(T) /\ Cardinality(T) = Cardinality(S)
  BY <1>3, <1>4, FS_Bijection DEF ExistsBijection
<1>6. Cardinality(S \cup T) = Cardinality(S) + Cardinality(T) - Cardinality(S \cap T)
  BY <1>3, <1>5, FS_Union, Zenon
<1>7. Cardinality(S \cap T) = 0
  BY <1>2, FS_EmptySet, Zenon
<1>8. Cardinality(SUBSET (1 .. (n + 1))) = Pow(n + 1)
  <2>1. n + 1 \in Nat
    OBVIOUS
  <2>2. QED
    BY <2>1, PowCounts, Zenon
<1>9. Pow(n + 1) = Pow(n) + Pow(n) - 0
  BY <1>1, <1>3, <1>5, <1>6, <1>7, <1>8, Zenon
<1> HIDE DEF S, T
<1>10. QED
  BY <1>3, <1>9

\* 1 << 0 is 1.
LEMMA PowZero == Pow(0) = 1
  BY DEF Pow

\* A power of two is never 0, by the least n for which it would be.
LEMMA PowPositive ==
  ASSUME NEW n \in Nat
  PROVE  Pow(n) \in Nat \ {0}
<1>1. SUFFICES ASSUME Pow(n) \notin Nat \ {0} PROVE FALSE
  OBVIOUS
<1> DEFINE T == {k \in Nat : Pow(k) = 0}
<1>2. T \subseteq Nat /\ n \in T
  BY <1>1, PowCounts, Zenon
<1>3. PICK k \in T : \A j \in T : k <= j
  BY <1>2, LeastElement, Zenon
<1>4. k # 0 /\ k \in Nat /\ Pow(k) = 0
  BY PowZero
<1>5. k - 1 \in Nat /\ (k - 1) + 1 = k
  BY <1>4
<1>6. Pow((k - 1) + 1) = 2 * Pow(k - 1) /\ Pow(k - 1) \in Nat
  BY <1>5, PowDouble, PowCounts, Zenon
<1>7. k - 1 \in T
  BY <1>4, <1>5, <1>6
<1>8. QED
  BY <1>3, <1>4, <1>7

\* The product of two powers of two, by the least n for which it would differ.
LEMMA PowAdd ==
  ASSUME NEW m \in Nat, NEW n \in Nat
  PROVE  Pow(m + n) = Pow(m) * Pow(n)
<1>1. SUFFICES ASSUME Pow(m + n) # Pow(m) * Pow(n) PROVE FALSE
  OBVIOUS
<1> DEFINE T == {k \in Nat : Pow(m + k) # Pow(m) * Pow(k)}
<1>2. T \subseteq Nat /\ n \in T
  BY <1>1
<1>3. PICK k \in T : \A j \in T : k <= j
  BY <1>2, LeastElement, Zenon
<1>4. k # 0 /\ k \in Nat
  <2>1. Pow(m) \in Nat
    BY PowCounts, Zenon
  <2>2. m + 0 = m /\ Pow(m) * 1 = Pow(m)
    BY <2>1
  <2>3. Pow(m + 0) = Pow(m) * Pow(0)
    BY <2>2, PowZero
  <2>4. QED
    BY <2>3
<1>5. k - 1 \in Nat /\ (k - 1) + 1 = k /\ (m + (k - 1)) + 1 = m + k /\ m + (k - 1) \in Nat
  BY <1>4
<1>6. Pow(m + (k - 1)) = Pow(m) * Pow(k - 1)
  BY <1>3, <1>4, <1>5
<1>7. /\ Pow((k - 1) + 1) = 2 * Pow(k - 1)
      /\ Pow((m + (k - 1)) + 1) = 2 * Pow(m + (k - 1))
      /\ Pow(k - 1) \in Nat /\ Pow(m) \in Nat
  BY <1>5, PowDouble, PowCounts, Zenon
<1>8. \A x, y \in Nat : 2 * (x * y) = x * (2 * y)
  OBVIOUS
<1>9. Pow(m + k) = Pow(m) * Pow(k)
  BY <1>5, <1>6, <1>7, <1>8
<1>10. QED
  BY <1>9

-----------------------------------------------------------------------------
(* Products and quotients. *)

\* Products keep the order; the SMT solver needs this for a variable factor.
LEMMA MulMonotone ==
  ASSUME NEW a \in Nat, NEW b \in Nat, NEW d \in Nat, a <= b
  PROVE  a * d \in Nat /\ b * d \in Nat /\ a * d <= b * d
<1>1. b * d = a * d + (b - a) * d /\ (b - a) * d \in Nat
  OBVIOUS
<1>2. QED
  BY <1>1

\* What integer division, the >> of mapping_insert, computes.
LEMMA DivBounds ==
  ASSUME NEW x \in Nat, NEW d \in Nat \ {0}
  PROVE  /\ x \div d \in Nat
         /\ (x \div d) * d <= x
         /\ x < ((x \div d) + 1) * d
  OBVIOUS

\* Division by the width of a class keeps the order of sizes.
LEMMA DivMonotone ==
  ASSUME NEW x \in Nat, NEW y \in Nat, NEW d \in Nat \ {0}, x <= y
  PROVE  x \div d <= y \div d
<1>1. SUFFICES ASSUME ~(x \div d <= y \div d) PROVE FALSE
  OBVIOUS
<1>2. x \div d \in Nat /\ (x \div d) * d <= x
  BY DivBounds
<1>3. y \div d \in Nat /\ y < ((y \div d) + 1) * d
  BY DivBounds
<1>4. ((y \div d) + 1) * d <= (x \div d) * d
  BY <1>1, <1>2, <1>3, MulMonotone
<1>5. (x \div d) * d \in Nat /\ ((y \div d) + 1) * d \in Nat
  BY <1>2, <1>3
<1>6. QED
  BY <1>2, <1>3, <1>4, <1>5

\* A size that reaches k widths has a quotient of at least k.
LEMMA DivAtLeast ==
  ASSUME NEW x \in Nat, NEW k \in Nat, NEW d \in Nat \ {0}, k * d <= x
  PROVE  k <= x \div d
<1>1. SUFFICES ASSUME ~(k <= x \div d) PROVE FALSE
  OBVIOUS
<1>2. x \div d \in Nat /\ x < ((x \div d) + 1) * d
  BY DivBounds
<1>3. ((x \div d) + 1) * d <= k * d
  BY <1>1, <1>2, MulMonotone
<1>4. k * d \in Nat /\ ((x \div d) + 1) * d \in Nat
  BY <1>2
<1>5. QED
  BY <1>2, <1>3, <1>4

\* A size below k widths has a quotient below k.
LEMMA DivBelow ==
  ASSUME NEW x \in Nat, NEW k \in Nat, NEW d \in Nat \ {0}, x < k * d
  PROVE  x \div d < k
<1>1. SUFFICES ASSUME ~(x \div d < k) PROVE FALSE
  OBVIOUS
<1>2. x \div d \in Nat /\ (x \div d) * d <= x
  BY DivBounds
<1>3. k * d <= (x \div d) * d
  BY <1>1, <1>2, MulMonotone
<1>4. k * d \in Nat /\ (x \div d) * d \in Nat
  BY <1>2
<1>5. QED
  BY <1>2, <1>3, <1>4

\* A larger shift gives a power of two at least as large.
LEMMA PowMonotone ==
  ASSUME NEW m \in Nat, NEW n \in Nat, m <= n
  PROVE  Pow(m) <= Pow(n)
<1>1. n - m \in Nat /\ m + (n - m) = n
  OBVIOUS
<1>2. Pow(n) = Pow(m) * Pow(n - m)
  BY <1>1, PowAdd
<1>3. Pow(m) \in Nat /\ Pow(n - m) \in Nat \ {0}
  BY <1>1, PowPositive
<1>4. \A x \in Nat, y \in Nat \ {0} : x <= x * y
  <2>1. ASSUME NEW x \in Nat, NEW y \in Nat \ {0} PROVE x <= x * y
    <3>1. 1 * x <= y * x
      BY MulMonotone
    <3>2. QED
      BY <3>1
  <2>2. QED
    BY <2>1
<1>5. QED
  BY <1>2, <1>3, <1>4

-----------------------------------------------------------------------------
(* The most significant bit. *)

\* The position exists for every word but zero ...
LEMMA FLSPosition ==
  ASSUME NEW x \in Nat \ {0}, x < UWORD_MOD
  PROVE  /\ FLS(x) \in 0 .. (WORD_SIZE_BITS - 1)
         /\ Pow(FLS(x)) <= x /\ x < Pow(FLS(x) + 1)
<1> USE MappingConstants
<1> DEFINE T == {k \in Nat : x < Pow(k + 1)}
<1>1. WORD_SIZE_BITS - 1 \in T
  <2>1. WORD_SIZE_BITS - 1 \in Nat /\ (WORD_SIZE_BITS - 1) + 1 = WORD_SIZE_BITS
    OBVIOUS
  <2>2. QED
    BY <2>1 DEF UWORD_MOD, Pow
<1>2. PICK k \in T : \A j \in T : k <= j
  BY <1>1, LeastElement, Zenon
<1>3. k \in 0 .. (WORD_SIZE_BITS - 1) /\ x < Pow(k + 1)
  BY <1>1, <1>2
<1>4. Pow(k) <= x
  <2>1. CASE k = 0
    BY <2>1, PowZero
  <2>2. CASE k # 0
    <3>1. k - 1 \in Nat /\ (k - 1) + 1 = k /\ ~(k <= k - 1)
      BY <1>3, <2>2
    <3>2. ~(x < Pow(k)) /\ Pow(k) \in Nat
      BY <1>2, <1>3, <3>1, PowCounts, Zenon
    <3>3. QED
      BY <3>2
  <2>3. QED
    BY <2>1, <2>2
<1>5. x # 0 /\ \E n \in 0 .. (WORD_SIZE_BITS - 1) : Pow(n) <= x /\ x < Pow(n + 1)
  BY <1>3, <1>4
<1>6. QED
  BY <1>5 DEF FLS, Pow

\* ... and there is only one.
LEMMA FLSUnique ==
  ASSUME NEW x \in Nat \ {0}, x < UWORD_MOD,
         NEW k \in Nat, Pow(k) <= x, x < Pow(k + 1)
  PROVE  FLS(x) = k
<1>1. FLS(x) \in Nat /\ Pow(FLS(x)) <= x /\ x < Pow(FLS(x) + 1)
  BY FLSPosition, MappingConstants
<1>2. /\ Pow(k) \in Nat /\ Pow(k + 1) \in Nat
      /\ Pow(FLS(x)) \in Nat /\ Pow(FLS(x) + 1) \in Nat
  <2>1. k + 1 \in Nat /\ FLS(x) + 1 \in Nat
    BY <1>1
  <2>2. QED
    BY <1>1, <2>1, PowCounts, Zenon
<1>3. ~(FLS(x) + 1 <= k)
  BY <1>1, <1>2, PowMonotone
<1>4. ~(k + 1 <= FLS(x))
  BY <1>1, <1>2, PowMonotone
<1>5. QED
  BY <1>1, <1>3, <1>4

\* A larger size is in the same or a higher row: FLS keeps the order.
LEMMA FLSMonotone ==
  ASSUME NEW x \in Nat \ {0}, NEW y \in Nat \ {0}, x <= y, y < UWORD_MOD
  PROVE  FLS(x) <= FLS(y)
<1>1. UWORD_MOD \in Nat
  BY PowCounts, MappingConstants DEF UWORD_MOD, Pow
<1>2. FLS(x) \in Nat /\ Pow(FLS(x)) <= x
  BY <1>1, FLSPosition, MappingConstants
<1>3. FLS(y) \in Nat /\ y < Pow(FLS(y) + 1)
  BY FLSPosition, MappingConstants
<1>4. Pow(FLS(x)) \in Nat /\ Pow(FLS(y) + 1) \in Nat
  <2>1. FLS(y) + 1 \in Nat
    BY <1>3
  <2>2. QED
    BY <1>2, <2>1, PowCounts, Zenon
<1>5. ~(FLS(y) + 1 <= FLS(x))
  BY <1>2, <1>3, <1>4, PowMonotone
<1>6. QED
  BY <1>2, <1>3, <1>5

-----------------------------------------------------------------------------
(* Multiples of the alignment. *)

\* x is aligned to d iff it is a multiple of it.
LEMMA Multiple ==
  ASSUME NEW x \in Nat, NEW d \in Nat \ {0}
  PROVE  x % d = 0 <=> \E k \in Nat : x = k * d
<1>1. x = (x \div d) * d + (x % d) /\ x \div d \in Nat /\ x % d \in 0 .. (d - 1)
  OBVIOUS
<1>2. ASSUME x % d = 0 PROVE \E k \in Nat : x = k * d
  <2>1. x = (x \div d) * d
    BY <1>1, <1>2
  <2>2. QED
    BY <1>1, <2>1
<1>3. ASSUME NEW k \in Nat, x = k * d PROVE x % d = 0
  <2>1. k <= x \div d
    BY <1>3, DivAtLeast
  <2>2. k * d <= (x \div d) * d
    BY <1>1, <2>1, MulMonotone
  <2>3. (x \div d) * d \in Nat
    BY <1>1
  <2>4. QED
    BY <1>1, <1>3, <2>2, <2>3
<1>4. QED
  BY <1>2, <1>3, Zenon

\* The end of an aligned block of aligned size is aligned.
LEMMA MultipleSum ==
  ASSUME NEW x \in Nat, NEW y \in Nat, NEW d \in Nat \ {0}, x % d = 0, y % d = 0
  PROVE  (x + y) % d = 0
<1>1. PICK j \in Nat : x = j * d
  BY Multiple, Zenon
<1>2. PICK k \in Nat : y = k * d
  BY Multiple
<1>3. x + y \in Nat /\ j + k \in Nat /\ x + y = (j + k) * d
  BY <1>1, <1>2
<1>4. QED
  BY <1>3, Multiple, Zenon

\* What is left of an aligned block after an aligned part is aligned.
LEMMA MultipleDifference ==
  ASSUME NEW x \in Nat, NEW y \in Nat, NEW d \in Nat \ {0}, x % d = 0, y % d = 0,
         x < y
  PROVE  (y - x) % d = 0 /\ x + d <= y
<1>1. PICK j \in Nat : x = j * d
  BY Multiple, Zenon
<1>2. PICK k \in Nat : y = k * d
  BY Multiple, Zenon
<1>3. j < k
  <2>1. SUFFICES ASSUME k <= j PROVE FALSE
    OBVIOUS
  <2>2. QED
    BY <1>1, <1>2, <2>1, MulMonotone
<1>4. y - x \in Nat /\ k - j \in Nat /\ y - x = (k - j) * d
  BY <1>1, <1>2, <1>3
<1>5. 1 * d <= (k - j) * d
  BY <1>3, MulMonotone
<1>6. QED
  BY <1>4, <1>5, Multiple

\* AlignDown, as rtl_tlsf_make_arena and adjust_size use it, loses less than
\* one alignment unit.
LEMMA AlignedDown ==
  ASSUME NEW x \in Nat
  PROVE  /\ AlignDown(x) \in Nat /\ AlignDown(x) <= x
         /\ x < AlignDown(x) + ALIGNMENT_REQUIREMENT
         /\ AlignDown(x) % ALIGNMENT_REQUIREMENT = 0
<1> DEFINE d == ALIGNMENT_REQUIREMENT
<1>1. d \in Nat \ {0}
  BY MappingConstants
<1> HIDE DEF d
<1>2. x = (x \div d) * d + (x % d) /\ x \div d \in Nat /\ x % d \in 0 .. (d - 1)
  BY <1>1
<1>3. x - (x % d) = (x \div d) * d /\ x - (x % d) \in Nat
  BY <1>1, <1>2
<1>4. (x - (x % d)) % d = 0
  BY <1>1, <1>2, <1>3, Multiple, Zenon
<1>5. QED
  BY <1>1, <1>2, <1>3, <1>4 DEF AlignDown, d

-----------------------------------------------------------------------------
(* Size classes. *)

\* The assumptions on the build, one by one.
LEMMA ConstantTypes ==
  /\ WORD_SIZE_BYTES_LOG2 \in Nat \ {0} /\ WORD_SIZE_BITS \in Nat \ {0}
  /\ SLI_COUNT_LOG2 \in Nat \ {0} /\ ALIGNMENT_REQUIREMENT \in Nat \ {0}
  /\ INT_BITS \in Nat \ {0}
  /\ WORD_SIZE_BITS > WORD_SIZE_BYTES_LOG2 + SLI_COUNT_LOG2 + 2
  BY MappingConstants

\* The table has at least one row above the linear one.
LEMMA Levels ==
  /\ MINIMUM_FLI \in Nat /\ MAXIMUM_FLI \in Nat /\ MINIMUM_FLI < MAXIMUM_FLI
  /\ MINIMUM_FLI >= SLI_COUNT_LOG2 + 1 /\ MAXIMUM_FLI = WORD_SIZE_BITS - 2
  BY ConstantTypes DEF MINIMUM_FLI, MAXIMUM_FLI

\* The rows of sl_bitmap and free_blocks by their first and last fli.
LEMMA RowRange == Rows = (MINIMUM_FLI - 1) .. (MAXIMUM_FLI - 1)
  BY Levels DEF Rows, FLI_SHIFT_VAL, FLI_COUNT

\* The two sizes that bound the upper rows as powers of two.
LEMMA SizePowers ==
  /\ MINIMUM_FLI_ALLOCATION = Pow(MINIMUM_FLI)
  /\ MAXIMUM_BLOCK_SIZE = Pow(MAXIMUM_FLI)
  BY DEF MINIMUM_FLI_ALLOCATION, MAXIMUM_BLOCK_SIZE, Pow

\* The sizes of memory.incl are positive, and the largest block is a quarter
\* of what a word counts, so sums of two sizes do not wrap.
LEMMA Sizes ==
  /\ WORD_SIZE_BYTES \in Nat \ {0} /\ SLI_COUNT \in Nat \ {0}
  /\ MINIMUM_FLI_ALLOCATION \in Nat \ {0}
  /\ MAXIMUM_BLOCK_SIZE \in Nat \ {0} /\ MINIMUM_BLOCK_SIZE \in Nat \ {0}
  /\ UWORD_MOD = 4 * MAXIMUM_BLOCK_SIZE
<1>1. WORD_SIZE_BYTES \in Nat \ {0} /\ SLI_COUNT \in Nat \ {0}
  <2>1. WORD_SIZE_BYTES = Pow(WORD_SIZE_BYTES_LOG2) /\ SLI_COUNT = Pow(SLI_COUNT_LOG2)
    BY DEF WORD_SIZE_BYTES, SLI_COUNT, Pow
  <2>2. QED
    BY <2>1, PowPositive, ConstantTypes
<1>2. MINIMUM_FLI_ALLOCATION \in Nat \ {0} /\ MAXIMUM_BLOCK_SIZE \in Nat \ {0}
  BY PowPositive, Levels, SizePowers
<1>3. MINIMUM_BLOCK_SIZE \in Nat \ {0}
  BY <1>1 DEF MINIMUM_BLOCK_SIZE
<1>4. UWORD_MOD = 4 * MAXIMUM_BLOCK_SIZE
  <2>1. UWORD_MOD = Pow((MAXIMUM_FLI + 1) + 1)
    <3>1. (MAXIMUM_FLI + 1) + 1 = WORD_SIZE_BITS
      BY Levels, ConstantTypes
    <3>2. QED
      BY <3>1 DEF UWORD_MOD, Pow
  <2>2. MAXIMUM_FLI + 1 \in Nat
    BY Levels
  <2>3. Pow((MAXIMUM_FLI + 1) + 1) = 2 * Pow(MAXIMUM_FLI + 1)
    BY <2>2, PowDouble
  <2>4. Pow(MAXIMUM_FLI + 1) = 2 * MAXIMUM_BLOCK_SIZE
    BY Levels, SizePowers, PowDouble
  <2>5. QED
    BY <1>2, <2>1, <2>3, <2>4
<1>5. QED
  BY <1>1, <1>2, <1>3, <1>4

\* The linear row ends where its SLI_COUNT classes of one word end.
LEMMA LinearSizes == MINIMUM_FLI_ALLOCATION = SLI_COUNT * WORD_SIZE_BYTES
<1>1. MINIMUM_FLI = SLI_COUNT_LOG2 + WORD_SIZE_BYTES_LOG2
  BY ConstantTypes DEF MINIMUM_FLI
<1>2. Pow(MINIMUM_FLI) = Pow(SLI_COUNT_LOG2) * Pow(WORD_SIZE_BYTES_LOG2)
  BY <1>1, PowAdd, ConstantTypes
<1>3. QED
  BY <1>2 DEF MINIMUM_FLI_ALLOCATION, SLI_COUNT, WORD_SIZE_BYTES, Pow

\* What mapping_insert computes above the linear row: the width of a class of
\* row fli is Pow(fli - SLI_COUNT_LOG2).
LEMMA UpperRow ==
  ASSUME NEW x \in Nat, MINIMUM_FLI_ALLOCATION <= x, x < UWORD_MOD,
         NEW fli, fli = FLS(x), NEW width, width = Pow(fli - SLI_COUNT_LOG2)
  PROVE  /\ fli \in Nat /\ MINIMUM_FLI <= fli
         /\ fli - SLI_COUNT_LOG2 \in Nat /\ width \in Nat \ {0}
         /\ Pow(fli) = SLI_COUNT * width /\ Pow(fli) <= x
         /\ Pow(fli + 1) = 2 * (SLI_COUNT * width) /\ x < Pow(fli + 1)
         /\ mapping_insert(x) = <<fli, (x \div width) - SLI_COUNT>>
         /\ x \div width \in Nat
         /\ SLI_COUNT <= x \div width /\ x \div width < 2 * SLI_COUNT
<1>1. x # 0
  BY Sizes
<1>2. fli \in Nat /\ Pow(fli) <= x /\ x < Pow(fli + 1)
  BY <1>1, FLSPosition, MappingConstants
<1>3. MINIMUM_FLI <= fli
  <2>1. SUFFICES ASSUME fli + 1 <= MINIMUM_FLI PROVE FALSE
    BY <1>2, Levels
  <2>2. fli + 1 \in Nat
    BY <1>2
  <2>3. Pow(fli + 1) <= Pow(MINIMUM_FLI) /\ Pow(fli + 1) \in Nat
    BY <2>1, <2>2, PowMonotone, PowCounts, Levels, Zenon
  <2>4. QED
    BY <1>2, <2>3, Sizes, SizePowers
<1>4. fli - SLI_COUNT_LOG2 \in Nat
  BY <1>2, <1>3, Levels, ConstantTypes
<1>5. width \in Nat \ {0}
  BY <1>4, PowPositive
<1>6. Pow(fli) = SLI_COUNT * width
  <2>1. SLI_COUNT_LOG2 + (fli - SLI_COUNT_LOG2) = fli
    BY <1>2, MappingConstants
  <2>2. Pow(SLI_COUNT_LOG2 + (fli - SLI_COUNT_LOG2)) = Pow(SLI_COUNT_LOG2) * width
    BY <1>4, PowAdd, MappingConstants
  <2>3. QED
    BY <2>1, <2>2 DEF SLI_COUNT, Pow
<1>7. Pow(fli + 1) = 2 * (SLI_COUNT * width)
  BY <1>2, <1>6, PowDouble
<1>8. mapping_insert(x) = <<fli, (x \div width) - SLI_COUNT>>
  <2>1. ~(x < MINIMUM_FLI_ALLOCATION)
    BY Sizes
  <2>2. QED
    BY <2>1 DEF mapping_insert, Pow
<1>9. x \div width \in Nat
  BY <1>5, DivBounds
<1>10. SLI_COUNT <= x \div width
  BY <1>2, <1>5, <1>6, DivAtLeast, Sizes
<1>11. x \div width < 2 * SLI_COUNT
  <2>1. 2 * (SLI_COUNT * width) = (2 * SLI_COUNT) * width
    BY <1>5, Sizes
  <2>2. 2 * SLI_COUNT \in Nat /\ x < (2 * SLI_COUNT) * width
    BY <1>2, <1>7, <2>1, Sizes
  <2>3. QED
    BY <1>5, <2>2, DivBelow
<1>12. QED
  BY <1>2, <1>3, <1>4, <1>5, <1>6, <1>7, <1>8, <1>9, <1>10, <1>11

\* Below it the classes are one word wide.
LEMMA LinearRow ==
  ASSUME NEW x \in Nat, x < MINIMUM_FLI_ALLOCATION
  PROVE  /\ mapping_insert(x) = <<MINIMUM_FLI - 1, x \div WORD_SIZE_BYTES>>
         /\ x \div WORD_SIZE_BYTES \in 0 .. (SLI_COUNT - 1)
<1>1. mapping_insert(x) = <<MINIMUM_FLI - 1, x \div WORD_SIZE_BYTES>>
  BY DEF mapping_insert
<1>2. x \div WORD_SIZE_BYTES \in Nat
  BY DivBounds, Sizes
<1>3. x \div WORD_SIZE_BYTES < SLI_COUNT
  BY DivBelow, Sizes, LinearSizes
<1>4. QED
  BY <1>1, <1>2, <1>3, Sizes

\* A block that is smaller than the largest one has a class in the table.
LEMMA InsertInTable ==
  ASSUME NEW x \in Nat, x < MAXIMUM_BLOCK_SIZE
  PROVE  mapping_insert(x) \in Classes
<1>1. CASE x < MINIMUM_FLI_ALLOCATION
  <2>1. MINIMUM_FLI - 1 \in Rows
    BY Levels, RowRange
  <2>2. QED
    BY <1>1, <2>1, LinearRow DEF Classes, Columns
<1>2. CASE ~(x < MINIMUM_FLI_ALLOCATION)
  <2> DEFINE fli == FLS(x)
             width == Pow(fli - SLI_COUNT_LOG2)
  <2>1. MINIMUM_FLI_ALLOCATION <= x /\ x < UWORD_MOD
    BY <1>2, Sizes
  <2>2. /\ fli \in Nat /\ MINIMUM_FLI <= fli /\ Pow(fli) <= x
        /\ mapping_insert(x) = <<fli, (x \div width) - SLI_COUNT>>
        /\ x \div width \in Nat
        /\ SLI_COUNT <= x \div width /\ x \div width < 2 * SLI_COUNT
    BY <2>1, UpperRow
  <2> HIDE DEF fli, width
  <2>3. fli < MAXIMUM_FLI
    <3>1. SUFFICES ASSUME MAXIMUM_FLI <= fli PROVE FALSE
      BY <2>2, Levels
    <3>2. Pow(MAXIMUM_FLI) <= Pow(fli) /\ Pow(fli) \in Nat
      BY <2>2, <3>1, PowMonotone, PowCounts, Levels, Zenon
    <3>3. QED
      BY <2>2, <3>2, Sizes, SizePowers
  <2>4. fli \in Rows
    BY <2>2, <2>3, Levels, RowRange
  <2>5. (x \div width) - SLI_COUNT \in Columns
    BY <2>2, Sizes DEF Columns
  <2>6. QED
    BY <2>2, <2>4, <2>5 DEF Classes
<1>3. QED
  BY <1>1, <1>2

\* The order in which find_suitable_block searches the classes.
AtMost(c, d) == c[1] < d[1] \/ (c[1] = d[1] /\ c[2] <= d[2])

\* mapping_insert is monotone.
LEMMA InsertMonotone ==
  ASSUME NEW x \in Nat, NEW y \in Nat, x <= y, y < UWORD_MOD
  PROVE  AtMost(mapping_insert(x), mapping_insert(y))
<1>1. UWORD_MOD \in Nat
  BY Sizes
<1>2. CASE y < MINIMUM_FLI_ALLOCATION
  <2>1. x < MINIMUM_FLI_ALLOCATION
    BY <1>2, Sizes
  <2>2. x \div WORD_SIZE_BYTES <= y \div WORD_SIZE_BYTES
    BY DivMonotone, Sizes
  <2>3. QED
    BY <1>2, <2>1, <2>2, LinearRow DEF AtMost
<1>3. CASE ~(y < MINIMUM_FLI_ALLOCATION)
  <2> DEFINE fli == FLS(y)
             width == Pow(fli - SLI_COUNT_LOG2)
  <2>1. MINIMUM_FLI_ALLOCATION <= y /\ y # 0
    BY <1>3, Sizes
  <2>2. /\ fli \in Nat /\ MINIMUM_FLI <= fli /\ width \in Nat \ {0}
        /\ mapping_insert(y) = <<fli, (y \div width) - SLI_COUNT>>
        /\ y \div width \in Nat
    BY <2>1, UpperRow
  <2>3. CASE x < MINIMUM_FLI_ALLOCATION
    <3>1. mapping_insert(x)[1] = MINIMUM_FLI - 1 /\ MINIMUM_FLI - 1 < fli
      BY <2>2, <2>3, LinearRow, Levels
    <3>2. QED
      BY <2>2, <3>1 DEF AtMost
  <2>4. CASE ~(x < MINIMUM_FLI_ALLOCATION)
    <3>1. MINIMUM_FLI_ALLOCATION <= x /\ x < UWORD_MOD /\ x # 0
      BY <1>1, <2>4, Sizes
    <3>2. FLS(x) \in Nat /\ FLS(x) <= fli
      BY <2>1, <3>1, FLSMonotone, UpperRow
    <3>3. CASE FLS(x) < fli
      <4>1. mapping_insert(x)[1] = FLS(x)
        BY <3>1, UpperRow
      <4>2. QED
        BY <2>2, <3>3, <4>1 DEF AtMost
    <3>4. CASE FLS(x) = fli
      <4>1. /\ mapping_insert(x) = <<fli, (x \div width) - SLI_COUNT>>
            /\ x \div width \in Nat
        BY <3>1, <3>4, UpperRow
      <4>2. x \div width <= y \div width
        BY <2>2, DivMonotone
      <4>3. (x \div width) - SLI_COUNT <= (y \div width) - SLI_COUNT
        BY <2>2, <4>1, <4>2, Sizes
      <4>4. QED
        BY <2>2, <4>1, <4>3 DEF AtMost
    <3>5. QED
      BY <2>2, <3>2, <3>3, <3>4
  <2>5. QED
    BY <2>3, <2>4
<1>4. QED
  BY <1>2, <1>3

\* mapping_search rounds up to the lower end of the next class.
LEMMA SearchRounds ==
  ASSUME NEW r \in Nat, MINIMUM_FLI_ALLOCATION <= r, r <= MAXIMUM_BLOCK_SIZE,
         Roundable(r), NEW width, width = Pow(FLS(r) - SLI_COUNT_LOG2)
  PROVE  /\ width \in Nat \ {0} /\ SLI_COUNT * width <= r
         /\ r + width - 1 \in Nat /\ r + width - 1 < UWORD_MOD
         /\ mapping_search(r) = mapping_insert(r + width - 1)
<1> DEFINE fli == FLS(r)
           n == fli - SLI_COUNT_LOG2
<1>1. r < UWORD_MOD
  BY Sizes
<1>2. /\ fli \in Nat /\ n \in Nat /\ width \in Nat \ {0}
      /\ Pow(fli) = SLI_COUNT * width /\ Pow(fli) <= r
  BY <1>1, UpperRow
<1>3. n < INT_BITS - 1
  BY DEF Roundable
<1>4. n % INT_BITS = n /\ n # INT_BITS - 1
  BY <1>2, <1>3, ConstantTypes
<1>5. IntShift(n) = width
  BY <1>4 DEF IntShift, Pow
<1>6. width <= SLI_COUNT * width
  <2>1. 1 * width <= SLI_COUNT * width
    BY <1>2, MulMonotone, Sizes
  <2>2. QED
    BY <1>2, <2>1
<1>7. /\ SLI_COUNT * width <= r /\ SLI_COUNT * width \in Nat
      /\ r + width - 1 \in Nat /\ r + width - 1 < UWORD_MOD
  BY <1>2, <1>6, Sizes
<1>8. (r + width - 1) % UWORD_MOD = r + width - 1
  BY <1>7, Sizes
<1>9. mapping_search(r) = mapping_insert(r + width - 1)
  <2>1. r >= MINIMUM_FLI_ALLOCATION
    BY Sizes
  <2>2. QED
    BY <1>5, <1>8, <2>1 DEF mapping_search
<1>10. QED
  BY <1>2, <1>7, <1>9

\* Every block of a class at or behind the one mapping_search returns is large
\* enough: the assertion "Size needs to be larger" of rtl_tlsf_alloc.
THEOREM SearchFits ==
  ASSUME NEW r \in Nat, r <= MAXIMUM_BLOCK_SIZE, Roundable(r),
         NEW s \in Nat, s < UWORD_MOD,
         r % ALIGNMENT_REQUIREMENT = 0, s % ALIGNMENT_REQUIREMENT = 0,
         AtMost(mapping_search(r), mapping_insert(s))
  PROVE  s >= r
<1>1. SUFFICES ASSUME s < r PROVE FALSE
  OBVIOUS
<1>2. CASE r < MINIMUM_FLI_ALLOCATION
  <2> DEFINE w == WORD_SIZE_BYTES
  <2>1. w \in Nat \ {0} /\ s < MINIMUM_FLI_ALLOCATION
    BY <1>1, <1>2, Sizes
  <2>2. mapping_search(r) = mapping_insert(r)
    BY <1>2, Sizes DEF mapping_search
  <2>3. r \div w \in Nat /\ s \div w \in Nat /\ r \div w <= s \div w
    BY <1>2, <2>1, <2>2, LinearRow, Levels, Sizes DEF AtMost
  <2> HIDE DEF w
  <2>4. s + w <= r
    <3>1. s + ALIGNMENT_REQUIREMENT <= r
      BY <1>1, MultipleDifference, ConstantTypes, Zenon
    <3>2. QED
      BY <2>1, <3>1, AlignmentConstants, ConstantTypes DEF w
  <2>5. (s \div w) * w <= s /\ (s \div w) * w \in Nat
    BY <2>1, <2>3, DivBounds
  <2>6. ((s \div w) + 1) * w <= r
    BY <2>1, <2>3, <2>4, <2>5
  <2>7. (s \div w) + 1 <= r \div w
    <3>1. (s \div w) + 1 \in Nat
      BY <2>3
    <3>2. QED
      BY <2>1, <2>6, <3>1, DivAtLeast
  <2>8. QED
    BY <2>3, <2>7
<1>3. CASE ~(r < MINIMUM_FLI_ALLOCATION)
  <2> DEFINE fli == FLS(r)
             width == Pow(fli - SLI_COUNT_LOG2)
             up == r + width - 1
  <2>1. MINIMUM_FLI_ALLOCATION <= r /\ r < UWORD_MOD /\ r # 0
    BY <1>3, Sizes
  <2>2. /\ width \in Nat \ {0} /\ up \in Nat /\ up < UWORD_MOD
        /\ mapping_search(r) = mapping_insert(up)
    BY <2>1, SearchRounds
  <2>3. r <= up /\ up # 0 /\ MINIMUM_FLI_ALLOCATION <= up
    BY <2>1, <2>2, Sizes
  <2>4. fli <= FLS(up) /\ fli \in Nat /\ MINIMUM_FLI <= fli
    BY <2>1, <2>2, <2>3, FLSMonotone, UpperRow
  <2>5. FLS(up) \in Nat /\ mapping_insert(up)[1] = FLS(up)
    BY <2>2, <2>3, UpperRow
  <2>6. CASE s < MINIMUM_FLI_ALLOCATION
    <3>1. mapping_insert(s)[1] = MINIMUM_FLI - 1
      BY <2>6, LinearRow
    <3>2. MINIMUM_FLI - 1 < FLS(up)
      BY <2>4, <2>5, Levels
    <3>3. QED
      BY <2>2, <2>5, <3>1, <3>2, Levels DEF AtMost
  <2>7. CASE ~(s < MINIMUM_FLI_ALLOCATION)
    <3>1. MINIMUM_FLI_ALLOCATION <= s /\ s # 0 /\ s <= r
      BY <1>1, <2>7, Sizes
    <3>2. FLS(s) <= fli
      BY <2>1, <3>1, FLSMonotone
    <3>3. FLS(s) \in Nat /\ mapping_insert(s)[1] = FLS(s)
      BY <3>1, UpperRow
    <3>4. FLS(s) = fli /\ FLS(up) = fli /\ mapping_insert(up)[2] <= mapping_insert(s)[2]
      BY <2>2, <2>4, <2>5, <3>2, <3>3 DEF AtMost
    <3>5. /\ mapping_insert(s) = <<fli, (s \div width) - SLI_COUNT>>
          /\ s \div width \in Nat
      BY <3>1, <3>4, UpperRow
    <3>6. /\ mapping_insert(up) = <<fli, (up \div width) - SLI_COUNT>>
          /\ up \div width \in Nat
      BY <2>2, <2>3, <3>4, UpperRow
    <3>7. (up \div width) - SLI_COUNT <= (s \div width) - SLI_COUNT
      BY <3>4, <3>5, <3>6
    <3>8. up \div width <= s \div width
      BY <3>5, <3>6, <3>7, Sizes
    <3>9. (s \div width) * width <= s /\ (s \div width) * width \in Nat
      BY <2>2, <3>5, DivBounds
    <3>10. ((s \div width) + 1) * width <= up
      <4>1. ((s \div width) + 1) * width = (s \div width) * width + width
        BY <2>2, <3>5
      <4>2. QED
        BY <1>1, <2>2, <3>9, <4>1
    <3>11. (s \div width) + 1 <= up \div width
      <4>1. (s \div width) + 1 \in Nat
        BY <3>5
      <4>2. QED
        BY <2>2, <3>10, <4>1, DivAtLeast
    <3>12. QED
      BY <3>5, <3>6, <3>8, <3>11
  <2>8. QED
    BY <2>6, <2>7
<1>4. QED
  BY <1>2, <1>3

\* A block that exceeds the request by one part in SLI_COUNT is in a class at
\* or behind the one mapping_search returns: rounding gives up no more.
THEOREM SearchReaches ==
  ASSUME NEW r \in Nat \ {0}, r <= MAXIMUM_BLOCK_SIZE, Roundable(r),
         NEW s \in Nat, s < MAXIMUM_BLOCK_SIZE,
         s * SLI_COUNT >= r * (SLI_COUNT + 1)
  PROVE  /\ AtMost(mapping_search(r), mapping_insert(s))
         /\ mapping_search(r) \in Classes
<1>1. s < UWORD_MOD
  BY Sizes
<1>2. r * (SLI_COUNT + 1) = r * SLI_COUNT + r /\ r * SLI_COUNT \in Nat
  BY Sizes
<1>3. CASE r < MINIMUM_FLI_ALLOCATION
  <2>1. r <= s
    <3>1. SUFFICES ASSUME s <= r PROVE r <= s
      OBVIOUS
    <3>2. s * SLI_COUNT <= r * SLI_COUNT /\ s * SLI_COUNT \in Nat
      BY <3>1, MulMonotone, Sizes
    <3>3. QED
      BY <1>2, <3>2
  <2>2. mapping_search(r) = mapping_insert(r)
    BY <1>3, Sizes DEF mapping_search
  <2>3. r < MAXIMUM_BLOCK_SIZE
    BY <2>1, Sizes
  <2>4. QED
    BY <1>1, <2>1, <2>2, <2>3, InsertMonotone, InsertInTable
<1>4. CASE ~(r < MINIMUM_FLI_ALLOCATION)
  <2> DEFINE width == Pow(FLS(r) - SLI_COUNT_LOG2)
             up == r + width - 1
  <2>1. MINIMUM_FLI_ALLOCATION <= r
    BY <1>4, Sizes
  <2>2. /\ width \in Nat \ {0} /\ SLI_COUNT * width <= r
        /\ up \in Nat /\ mapping_search(r) = mapping_insert(up)
    BY <2>1, SearchRounds
  <2>3. up <= s
    <3>1. SUFFICES ASSUME s <= r + width - 1 PROVE r + width - 1 <= s
      BY <2>2
    <3>2. s * SLI_COUNT <= (r + width - 1) * SLI_COUNT
      BY <2>2, <3>1, MulMonotone, Sizes
    <3>3. (r + width - 1) * SLI_COUNT = r * SLI_COUNT + SLI_COUNT * width - SLI_COUNT
      BY <2>2, Sizes
    <3>4. SLI_COUNT * width \in Nat /\ s * SLI_COUNT \in Nat
      BY <2>2, Sizes
    <3>5. QED
      BY <1>2, <2>2, <3>2, <3>3, <3>4, Sizes
  <2>4. up < MAXIMUM_BLOCK_SIZE
    BY <2>2, <2>3, Sizes
  <2>5. QED
    BY <1>1, <2>2, <2>3, <2>4, InsertMonotone, InsertInTable
<1>5. QED
  BY <1>3, <1>4

\* The block rtl_tlsf_alloc looks for is aligned, as long as a header needs
\* and no longer than the largest one, or the request is refused.
LEMMA BlockSizes ==
  ASSUME NEW sz \in Nat, NEW size, size = BlockSizeFor(sz)
  PROVE  \/ size = 0
         \/ /\ size \in Nat /\ MINIMUM_BLOCK_SIZE <= size
            /\ size <= MAXIMUM_BLOCK_SIZE /\ size % ALIGNMENT_REQUIREMENT = 0
<1> DEFINE x == (sz + START_OF_USER_DATA_OFFSET) % UWORD_MOD
           y == (x + ALIGNMENT_REQUIREMENT - 1) % UWORD_MOD
           rval == AlignDown(y)
<1>1. UWORD_MOD \in Nat \ {0} /\ START_OF_USER_DATA_OFFSET \in Nat
  BY Sizes DEF START_OF_USER_DATA_OFFSET
<1>2. x \in Nat
  BY <1>1
<1>3. y \in Nat
  BY <1>1, <1>2, ConstantTypes
<1>4. rval \in Nat /\ rval % ALIGNMENT_REQUIREMENT = 0
  BY <1>3, AlignedDown
<1>5. size = CASE x = 0 -> 0
               [] x # 0 /\ rval > MAXIMUM_BLOCK_SIZE -> 0
               [] x # 0 /\ rval < MINIMUM_BLOCK_SIZE -> MINIMUM_BLOCK_SIZE
               [] OTHER -> rval
  BY DEF BlockSizeFor, adjust_size
<1> HIDE DEF x, y, rval
<1>6. MINIMUM_BLOCK_SIZE <= MAXIMUM_BLOCK_SIZE
  <2>1. MINIMUM_BLOCK_SIZE = Pow(WORD_SIZE_BYTES_LOG2 + 2)
    <3>1. Pow(2) = 4
      BY DEF Pow
    <3>2. WORD_SIZE_BYTES = Pow(WORD_SIZE_BYTES_LOG2)
      BY DEF WORD_SIZE_BYTES, Pow
    <3>3. Pow(WORD_SIZE_BYTES_LOG2 + 2) = Pow(WORD_SIZE_BYTES_LOG2) * Pow(2)
      BY PowAdd, ConstantTypes
    <3>4. QED
      BY <3>1, <3>2, <3>3, Sizes DEF MINIMUM_BLOCK_SIZE
  <2>2. WORD_SIZE_BYTES_LOG2 + 2 \in Nat /\ WORD_SIZE_BYTES_LOG2 + 2 <= MAXIMUM_FLI
    BY Levels, ConstantTypes
  <2>3. QED
    BY <2>1, <2>2, PowMonotone, Levels, SizePowers
<1>7. QED
  BY <1>4, <1>5, <1>6, Sizes, AlignmentConstants

-----------------------------------------------------------------------------
(* The shape of an arena. *)

\* The types of the bitmaps and the list heads.
Table(a) ==
  /\ a = [fl_bitmap |-> a.fl_bitmap, sl_bitmap |-> a.sl_bitmap,
          free_blocks |-> a.free_blocks, blk |-> a.blk]
  /\ a.fl_bitmap \subseteq Rows
  /\ a.sl_bitmap \in [Rows -> SUBSET Columns]
  /\ a.free_blocks \in [Classes -> Nat \cup {NULL}]

\* The types of the block headers.
Headers(f) == f \in [DOMAIN f -> Header] /\ DOMAIN f \subseteq Nat

\* The class of block b.
Class(a, b) == mapping_insert(a.blk[b].size)

\* The n blocks L[0], L[1], ... are the blocks of S that are of class c, each
\* once, linked in this order in both directions.
List(a, S, c, n, L) ==
  /\ \A i \in 0 .. (n - 1) : L[i] \in S /\ Class(a, L[i]) = c
  /\ \A b \in S : Class(a, b) = c => \E i \in 0 .. (n - 1) : L[i] = b
  /\ \A i, j \in 0 .. (n - 1) : L[i] = L[j] => i = j
  /\ a.free_blocks[c] = IF n = 0 THEN NULL ELSE L[0]
  /\ \A i \in 0 .. (n - 1) :
       /\ a.blk[L[i]].next_free = IF i = n - 1 THEN NULL ELSE L[i + 1]
       /\ a.blk[L[i]].prev_free = IF i = 0 THEN NULL ELSE L[i - 1]

\* The lists hold the blocks of S, and the bits say which are not empty.
Lists(a, S) ==
  /\ S \subseteq DOMAIN a.blk
  /\ \A c \in Classes : \E n \in Nat : \E L : List(a, S, c, n, L)
  /\ \A c \in Classes : c[2] \in a.sl_bitmap[c[1]] <=> a.free_blocks[c] # NULL
  /\ \A r \in Rows : r \in a.fl_bitmap <=> a.sl_bitmap[r] # {}

\* The same blocks in the same places.
SamePlaces(a, e) ==
  /\ DOMAIN e.blk = DOMAIN a.blk
  /\ \A x \in DOMAIN a.blk :
       /\ e.blk[x].size = a.blk[x].size /\ e.blk[x].last = a.blk[x].last
       /\ e.blk[x].prev_physical_block = a.blk[x].prev_physical_block

-----------------------------------------------------------------------------
(* Assignments to a header. *)

\* The types of a header and its fields.
LEMMA HeaderTypes ==
  ASSUME NEW f, Headers(f), NEW b \in DOMAIN f
  PROVE  /\ b \in Nat /\ f[b] \in Header /\ f[b].size \in Nat
         /\ f[b].last \in BOOLEAN /\ f[b].free \in BOOLEAN
<1>1. b \in Nat /\ f[b] \in Header
  BY Zenon DEF Headers
<1>2. QED
  BY <1>1 DEF Header

\* The row and the column of a class.
LEMMA ClassParts ==
  ASSUME NEW c \in Classes
  PROVE  /\ c[1] \in Rows /\ c[2] \in Columns /\ c = <<c[1], c[2]>>
         /\ \A d \in Classes : c # d => d[1] # c[1] \/ d[2] # c[2]
  BY DEF Classes

\* Replacing one header keeps the headers well-formed.
LEMMA SetHeader ==
  ASSUME NEW f, Headers(f), NEW b \in DOMAIN f, NEW h \in Header,
         NEW g, g = [f EXCEPT ![b] = h]
  PROVE  Headers(g) /\ DOMAIN g = DOMAIN f
  BY Zenon DEF Headers

\* Assigning one field of one header keeps the headers well-formed.
LEMMA SetFields ==
  ASSUME NEW f, Headers(f), NEW b \in DOMAIN f
  PROVE  /\ Headers([f EXCEPT ![b].free = TRUE])
         /\ Headers([f EXCEPT ![b].free = FALSE])
         /\ \A v \in Nat : Headers([f EXCEPT ![b].size = v])
         /\ \A v \in Nat \cup {NULL} :
              /\ Headers([f EXCEPT ![b].prev_physical_block = v])
              /\ Headers([f EXCEPT ![b].next_free = v])
              /\ Headers([f EXCEPT ![b].prev_free = v])
<1>1. f[b] \in Header
  BY Zenon DEF Headers
<1>2. /\ [f[b] EXCEPT !.free = TRUE] \in Header
      /\ [f[b] EXCEPT !.free = FALSE] \in Header
  BY <1>1, Zenon DEF Header
<1>3. ASSUME NEW v \in Nat PROVE [f[b] EXCEPT !.size = v] \in Header
  BY <1>1, Zenon DEF Header
<1>4. ASSUME NEW v \in Nat \cup {NULL}
      PROVE  /\ [f[b] EXCEPT !.prev_physical_block = v] \in Header
             /\ [f[b] EXCEPT !.next_free = v] \in Header
             /\ [f[b] EXCEPT !.prev_free = v] \in Header
  BY <1>1, Zenon DEF Header
<1>5. QED
  BY <1>2, <1>3, <1>4, SetHeader, Zenon

\* g differs from f in the links and the free bit of b only.
Relinked(f, g, b, n, p) ==
  /\ DOMAIN g = DOMAIN f
  /\ \A x \in DOMAIN f :
       /\ g[x].size = f[x].size /\ g[x].last = f[x].last
       /\ g[x].prev_physical_block = f[x].prev_physical_block
       /\ x # b => g[x].free = f[x].free
       /\ g[x].next_free = IF x = b THEN n ELSE f[x].next_free
       /\ g[x].prev_free = IF x = b THEN p ELSE f[x].prev_free

Link(f, b, n, p) == [f EXCEPT ![b].next_free = n, ![b].prev_free = p]
MarkFree(f, b)   == [f EXCEPT ![b].free = TRUE]
MarkBusy(f, b)   == [f EXCEPT ![b].free = FALSE]

\* Assigning both links of b touches nothing else.
LEMMA SetLinks ==
  ASSUME NEW f, Headers(f), NEW b \in DOMAIN f,
         NEW n \in Nat \cup {NULL}, NEW p \in Nat \cup {NULL}
  PROVE  /\ Headers(Link(f, b, n, p))
         /\ Relinked(f, Link(f, b, n, p), b, n, p)
         /\ Link(f, b, n, p)[b].free = f[b].free
<1> DEFINE f2 == [f EXCEPT ![b].next_free = n]
           f3 == [f2 EXCEPT ![b].prev_free = p]
<1>1. Headers(f2) /\ DOMAIN f2 = DOMAIN f
  BY SetFields, Zenon
<1> HIDE DEF f2
<1>2. Headers(f3)
  BY <1>1, SetFields, Zenon
<1>3. Link(f, b, n, p) = f3
  BY Zenon DEF f2, f3, Link
<1>4. QED
  BY <1>2, <1>3 DEF f2, f3, Headers, Header, Relinked

\* Setting or clearing the free bit of b touches nothing else.
LEMMA SetMarks ==
  ASSUME NEW f, Headers(f), NEW b \in DOMAIN f
  PROVE  /\ Headers(MarkFree(f, b)) /\ MarkFree(f, b)[b].free
         /\ Relinked(f, MarkFree(f, b), b, f[b].next_free, f[b].prev_free)
         /\ Headers(MarkBusy(f, b)) /\ ~MarkBusy(f, b)[b].free
         /\ Relinked(f, MarkBusy(f, b), b, f[b].next_free, f[b].prev_free)
<1>1. /\ Headers(MarkFree(f, b)) /\ DOMAIN MarkFree(f, b) = DOMAIN f
      /\ Headers(MarkBusy(f, b)) /\ DOMAIN MarkBusy(f, b) = DOMAIN f
  BY SetFields, Zenon DEF MarkFree, MarkBusy
<1>2. MarkFree(f, b)[b].free /\ ~MarkBusy(f, b)[b].free
  BY Zenon DEF Headers, Header, MarkFree, MarkBusy
<1>3. Relinked(f, MarkFree(f, b), b, f[b].next_free, f[b].prev_free)
  BY Zenon DEF Headers, Header, MarkFree, Relinked
<1>4. Relinked(f, MarkBusy(f, b), b, f[b].next_free, f[b].prev_free)
  BY Zenon DEF Headers, Header, MarkBusy, Relinked
<1>5. QED
  BY <1>1, <1>2, <1>3, <1>4, Zenon

\* What tlsf_arena_insert_block does to the header it inserts.
LEMMA LinkFree ==
  ASSUME NEW f, Headers(f), NEW b \in DOMAIN f,
         NEW n \in Nat \cup {NULL}, NEW p \in Nat \cup {NULL},
         NEW g, g = Link(MarkFree(f, b), b, n, p)
  PROVE  Headers(g) /\ Relinked(f, g, b, n, p) /\ g[b].free
<1> DEFINE h == MarkFree(f, b)
<1>1. /\ Headers(h) /\ h[b].free /\ DOMAIN h = DOMAIN f
      /\ Relinked(f, h, b, f[b].next_free, f[b].prev_free)
  BY SetMarks DEF Relinked
<1> HIDE DEF h
<1>2. Headers(g) /\ Relinked(h, g, b, n, p) /\ g[b].free = h[b].free
  BY <1>1, SetLinks, Zenon DEF h
<1>3. QED
  BY <1>1, <1>2 DEF Relinked

\* What remove_block does to the header it removes (Detach).
LEMMA LinkBusy ==
  ASSUME NEW f, Headers(f), NEW b \in DOMAIN f,
         NEW n \in Nat \cup {NULL}, NEW p \in Nat \cup {NULL},
         NEW g, g = Link(MarkBusy(f, b), b, n, p)
  PROVE  Headers(g) /\ Relinked(f, g, b, n, p) /\ ~g[b].free
<1> DEFINE h == MarkBusy(f, b)
<1>1. /\ Headers(h) /\ ~h[b].free /\ DOMAIN h = DOMAIN f
      /\ Relinked(f, h, b, f[b].next_free, f[b].prev_free)
  BY SetMarks DEF Relinked
<1> HIDE DEF h
<1>2. Headers(g) /\ Relinked(h, g, b, n, p) /\ g[b].free = h[b].free
  BY <1>1, SetLinks, Zenon DEF h
<1>3. QED
  BY <1>1, <1>2 DEF Relinked

SetNext(f, b, n) == [f EXCEPT ![b].next_free = n]
SetPrev(f, b, p) == [f EXCEPT ![b].prev_free = p]

\* Assigning one link of b touches nothing else.
LEMMA SetOneLink ==
  ASSUME NEW f, Headers(f), NEW b \in DOMAIN f, NEW v \in Nat \cup {NULL}
  PROVE  /\ Headers(SetNext(f, b, v)) /\ Headers(SetPrev(f, b, v))
         /\ Relinked(f, SetNext(f, b, v), b, v, f[b].prev_free)
         /\ SetNext(f, b, v)[b].free = f[b].free
         /\ Relinked(f, SetPrev(f, b, v), b, f[b].next_free, v)
         /\ SetPrev(f, b, v)[b].free = f[b].free
<1>1. Headers(SetNext(f, b, v)) /\ Headers(SetPrev(f, b, v))
  BY SetFields, Zenon DEF SetNext, SetPrev
<1>2. /\ Relinked(f, SetNext(f, b, v), b, v, f[b].prev_free)
      /\ SetNext(f, b, v)[b].free = f[b].free
  BY Zenon DEF Headers, Header, SetNext, Relinked
<1>3. /\ Relinked(f, SetPrev(f, b, v), b, f[b].next_free, v)
      /\ SetPrev(f, b, v)[b].free = f[b].free
  BY Zenon DEF Headers, Header, SetPrev, Relinked
<1>4. QED
  BY <1>1, <1>2, <1>3, Zenon

-----------------------------------------------------------------------------
(* tlsf_arena_insert_block *)

\* tlsf_arena_insert_block, field by field: bits set, head replaced, the old
\* head points back to b.
LEMMA InsertEffect ==
  ASSUME NEW a, Table(a), Headers(a.blk), NEW b \in DOMAIN a.blk,
         NEW c, c = Class(a, b), c \in Classes,
         NEW head, head = a.free_blocks[c], head # NULL => head \in DOMAIN a.blk \ {b},
         NEW e, e = tlsf_arena_insert_block(a, b)
  PROVE  /\ Table(e) /\ Headers(e.blk) /\ SamePlaces(a, e)
         /\ e.fl_bitmap = a.fl_bitmap \cup {c[1]}
         /\ \A r \in Rows : \A k : k \in e.sl_bitmap[r] <=>
              k \in a.sl_bitmap[r] \/ (r = c[1] /\ k = c[2])
         /\ \A d \in Classes : e.free_blocks[d] =
              IF d = c THEN b ELSE a.free_blocks[d]
         /\ e.blk[b].free
         /\ \A x \in DOMAIN a.blk :
              /\ x # b => e.blk[x].free = a.blk[x].free
              /\ e.blk[x].next_free = IF x = b THEN head ELSE a.blk[x].next_free
              /\ e.blk[x].prev_free = IF x = b THEN NULL
                                      ELSE IF x = head THEN b
                                      ELSE a.blk[x].prev_free
<1> DEFINE mine == Link(MarkFree(a.blk, b), b, head, NULL)
           told == [mine EXCEPT ![head].prev_free = b]
<1>1. c[1] \in Rows /\ c[2] \in Columns /\ c = <<c[1], c[2]>>
  BY DEF Classes
<1>2. b \in Nat /\ head \in Nat \cup {NULL}
  BY Zenon DEF Headers, Table
<1>3. e = [fl_bitmap   |-> a.fl_bitmap \cup {c[1]},
           sl_bitmap   |-> [a.sl_bitmap EXCEPT ![c[1]] = @ \cup {c[2]}],
           free_blocks |-> [a.free_blocks EXCEPT ![c] = b],
           blk         |-> IF head = NULL THEN mine ELSE told]
  BY Zenon DEF tlsf_arena_insert_block, Class, Link, MarkFree
<1>4. Table(e)
  BY <1>1, <1>2, <1>3 DEF Table
<1>5. /\ e.fl_bitmap = a.fl_bitmap \cup {c[1]}
      /\ \A r \in Rows : \A k : k \in e.sl_bitmap[r] <=>
           k \in a.sl_bitmap[r] \/ (r = c[1] /\ k = c[2])
      /\ \A d \in Classes : e.free_blocks[d] = IF d = c THEN b ELSE a.free_blocks[d]
  <2>1. e.fl_bitmap = a.fl_bitmap \cup {c[1]}
    BY <1>3
  <2>2. e.sl_bitmap = [a.sl_bitmap EXCEPT ![c[1]] = @ \cup {c[2]}]
    BY <1>3
  <2>3. e.free_blocks = [a.free_blocks EXCEPT ![c] = b]
    BY <1>3
  <2>4. QED
    BY <2>1, <2>2, <2>3 DEF Table
<1>6. Headers(mine) /\ Relinked(a.blk, mine, b, head, NULL) /\ mine[b].free
  BY <1>2, LinkFree, Zenon
<1> HIDE DEF mine
<1>7. CASE head = NULL
  <2>1. e.blk = mine
    BY <1>3, <1>7
  <2>2. NULL \notin DOMAIN a.blk
    BY TlsfConstants, Zenon DEF Headers
  <2>3. SamePlaces(a, e) /\ Headers(e.blk)
    BY <1>6, <2>1, Zenon DEF SamePlaces, Relinked
  <2>4. e.blk[b].free /\ \A x \in DOMAIN a.blk :
          /\ x # b => e.blk[x].free = a.blk[x].free
          /\ e.blk[x].next_free = IF x = b THEN head ELSE a.blk[x].next_free
          /\ e.blk[x].prev_free = IF x = b THEN NULL
                                  ELSE IF x = head THEN b
                                  ELSE a.blk[x].prev_free
    BY <1>6, <1>7, <2>1, <2>2 DEF Relinked
  <2>5. QED
    BY <1>4, <1>5, <2>3, <2>4, Zenon
<1>8. CASE head # NULL
  <2>1. e.blk = told
    BY <1>3, <1>8
  <2>2. Headers(told)
    BY <1>2, <1>6, <1>8, SetFields, Zenon DEF Relinked
  <2>3. /\ DOMAIN told = DOMAIN a.blk
        /\ \A x \in DOMAIN a.blk :
             /\ told[x].size = mine[x].size /\ told[x].last = mine[x].last
             /\ told[x].prev_physical_block = mine[x].prev_physical_block
             /\ told[x].free = mine[x].free
             /\ told[x].next_free = mine[x].next_free
             /\ told[x].prev_free = IF x = head THEN b ELSE mine[x].prev_free
    BY <1>6, <1>8 DEF Headers, Header, Relinked
  <2> HIDE DEF told
  <2>4. SamePlaces(a, e) /\ Headers(e.blk)
    BY <1>6, <2>1, <2>2, <2>3 DEF SamePlaces, Relinked
  <2>5. e.blk[b].free /\ \A x \in DOMAIN a.blk :
          /\ x # b => e.blk[x].free = a.blk[x].free
          /\ e.blk[x].next_free = IF x = b THEN head ELSE a.blk[x].next_free
          /\ e.blk[x].prev_free = IF x = b THEN NULL
                                  ELSE IF x = head THEN b
                                  ELSE a.blk[x].prev_free
    BY <1>6, <1>8, <2>1, <2>3 DEF Relinked
  <2>6. QED
    BY <1>4, <1>5, <2>4, <2>5, Zenon
<1>9. QED
  BY <1>7, <1>8, Zenon

\* The head of a list is a listed block of that class.
LEMMA HeadListed ==
  ASSUME NEW a, NEW S, Lists(a, S), NEW c \in Classes, a.free_blocks[c] # NULL
  PROVE  a.free_blocks[c] \in S /\ Class(a, a.free_blocks[c]) = c
<1>0. PICK n \in Nat : \E L : List(a, S, c, n, L)
  BY Zenon DEF Lists
<1>1. PICK L : List(a, S, c, n, L)
  BY <1>0, Zenon
<1>2. n # 0 /\ a.free_blocks[c] = L[0] /\ 0 \in 0 .. (n - 1)
  BY <1>1 DEF List
<1>3. QED
  BY <1>1, <1>2, Zenon DEF List

\* tlsf_arena_insert_block adds b at the front of the list of its class and
\* keeps all lists and bits exact.
LEMMA InsertLists ==
  ASSUME NEW a, Table(a), Headers(a.blk), NEW S, Lists(a, S),
         NEW b \in DOMAIN a.blk \ S, Class(a, b) \in Classes,
         NEW e, e = tlsf_arena_insert_block(a, b)
  PROVE  /\ Table(e) /\ Headers(e.blk) /\ SamePlaces(a, e)
         /\ Lists(e, S \cup {b})
         /\ e.blk[b].free
         /\ \A x \in DOMAIN a.blk \ {b} : e.blk[x].free = a.blk[x].free
<1> DEFINE c == Class(a, b)
           head == a.free_blocks[c]
<1>1. head # NULL => head \in S /\ Class(a, head) = c
  BY HeadListed, Zenon
<1>2. S \subseteq DOMAIN a.blk
  BY Zenon DEF Lists
<1>3. head # NULL => head \in DOMAIN a.blk \ {b}
  BY <1>1, <1>2, Zenon
<1>4. /\ Table(e) /\ Headers(e.blk) /\ SamePlaces(a, e) /\ e.blk[b].free
      /\ \A x \in DOMAIN a.blk \ {b} : e.blk[x].free = a.blk[x].free
  BY <1>3, InsertEffect
<1>5. /\ e.fl_bitmap = a.fl_bitmap \cup {c[1]}
      /\ \A r \in Rows : \A k : k \in e.sl_bitmap[r] <=>
           k \in a.sl_bitmap[r] \/ (r = c[1] /\ k = c[2])
      /\ \A d \in Classes : e.free_blocks[d] = IF d = c THEN b ELSE a.free_blocks[d]
  <2> HIDE DEF c, head
  <2>1. c = Class(a, b) /\ c \in Classes /\ head = a.free_blocks[c]
    BY Zenon DEF c, head
  <2>2. e.fl_bitmap = a.fl_bitmap \cup {c[1]}
    BY <1>3, <2>1, InsertEffect
  <2>3. \A r \in Rows : \A k : k \in e.sl_bitmap[r] <=>
          k \in a.sl_bitmap[r] \/ (r = c[1] /\ k = c[2])
    BY <1>3, <2>1, InsertEffect
  <2>4. \A d \in Classes : e.free_blocks[d] = IF d = c THEN b ELSE a.free_blocks[d]
    BY <1>3, <2>1, InsertEffect
  <2>5. QED
    BY <2>2, <2>3, <2>4, Zenon
<1>6. \A x \in DOMAIN a.blk :
        /\ e.blk[x].next_free = IF x = b THEN head ELSE a.blk[x].next_free
        /\ e.blk[x].prev_free = IF x = b THEN NULL
                                ELSE IF x = head THEN b
                                ELSE a.blk[x].prev_free
  BY <1>3, InsertEffect
<1>7. \A x \in DOMAIN a.blk : Class(e, x) = Class(a, x)
  BY <1>4, Zenon DEF SamePlaces, Class
<1> HIDE DEF head
<1>8. ASSUME NEW d \in Classes, d # c
      PROVE  \E n \in Nat : \E L : List(e, S \cup {b}, d, n, L)
  <2>0. PICK n \in Nat : \E L : List(a, S, d, n, L)
    BY Zenon DEF Lists
  <2>1. PICK L : List(a, S, d, n, L)
    BY <2>0, Zenon
  <2>2. \A i \in 0 .. (n - 1) : L[i] \in S /\ Class(a, L[i]) = d
    BY <2>1, Zenon DEF List
  <2>3. \A i \in 0 .. (n - 1) : L[i] # b /\ L[i] # head /\ L[i] \in DOMAIN a.blk
    BY <1>1, <1>2, <1>8, <2>2, TlsfConstants DEF Headers
  <2>4. e.free_blocks[d] = a.free_blocks[d]
    BY <1>5, <1>8, Zenon
  <2>5. \A i \in 0 .. (n - 1) : Class(e, L[i]) = d
    BY <1>7, <2>2, <2>3, Zenon
  <2>6. \A x \in S \cup {b} : Class(e, x) = d => \E i \in 0 .. (n - 1) : L[i] = x
    BY <1>2, <1>7, <1>8, <2>1, Zenon DEF List
  <2>7. \A i \in 0 .. (n - 1) :
          /\ e.blk[L[i]].next_free = a.blk[L[i]].next_free
          /\ e.blk[L[i]].prev_free = a.blk[L[i]].prev_free
    BY <1>6, <2>3, Zenon
  <2>8. List(e, S \cup {b}, d, n, L)
    BY <2>1, <2>2, <2>4, <2>5, <2>6, <2>7, Zenon DEF List
  <2>9. QED
    BY <2>8, Zenon
<1>9. \E n \in Nat : \E L : List(e, S \cup {b}, c, n, L)
  <2>0. PICK n \in Nat : \E L : List(a, S, c, n, L)
    BY Zenon DEF Lists
  <2>1. PICK L : List(a, S, c, n, L)
    BY <2>0, Zenon
  <2> DEFINE M == [i \in 0 .. n |-> IF i = 0 THEN b ELSE L[i - 1]]
  <2>2. M[0] = b /\ \A i \in 1 .. n : M[i] = L[i - 1] /\ i - 1 \in 0 .. (n - 1)
    OBVIOUS
  <2>3. \A i \in 0 .. (n - 1) : M[i + 1] = L[i] /\ i + 1 \in 1 .. n
    OBVIOUS
  <2> HIDE DEF M
  <2>4. \A i \in 0 .. (n - 1) : L[i] \in S /\ L[i] # b /\ Class(e, L[i]) = c
    BY <1>2, <1>7, <2>1 DEF List
  <2>5. head = IF n = 0 THEN NULL ELSE L[0]
    BY <2>1, Zenon DEF List, head
  <2>6. \A i \in 0 .. (n - 1) :
          /\ e.blk[L[i]].next_free = IF i = n - 1 THEN NULL ELSE L[i + 1]
          /\ e.blk[L[i]].prev_free = IF i = 0 THEN b ELSE L[i - 1]
    <3>1. SUFFICES ASSUME NEW i \in 0 .. (n - 1)
                   PROVE  /\ e.blk[L[i]].next_free = IF i = n - 1 THEN NULL ELSE L[i + 1]
                          /\ e.blk[L[i]].prev_free = IF i = 0 THEN b ELSE L[i - 1]
      BY Zenon
    <3>2. n # 0 /\ head = L[0] /\ 0 \in 0 .. (n - 1)
      BY <2>5
    <3>3. L[i] = head <=> i = 0
      BY <2>1, <3>2, Zenon DEF List
    <3>4. QED
      BY <1>2, <1>6, <2>1, <2>4, <3>3 DEF List
  <2>7. \A i \in 0 .. ((n + 1) - 1) : M[i] \in S \cup {b} /\ Class(e, M[i]) = c
    <3>1. Class(e, b) = c
      BY <1>7, Zenon
    <3>2. QED
      BY <2>2, <2>4, <3>1
  <2>8. \A x \in S \cup {b} : Class(e, x) = c => \E i \in 0 .. ((n + 1) - 1) : M[i] = x
    <3>1. ASSUME NEW x \in S, Class(e, x) = c PROVE \E i \in 0 .. n : M[i] = x
      <4>1. PICK i \in 0 .. (n - 1) : L[i] = x
        BY <1>2, <1>7, <2>1, <3>1, Zenon DEF List
      <4>2. QED
        BY <2>3, <4>1
    <3>2. QED
      BY <2>2, <3>1
  <2>9. \A i, j \in 0 .. ((n + 1) - 1) : M[i] = M[j] => i = j
    <3>1. \A i, j \in 0 .. (n - 1) : L[i] = L[j] => i = j
      BY <2>1, Zenon DEF List
    <3>2. QED
      BY <2>2, <2>4, <3>1
  <2>10. \A i \in 0 .. ((n + 1) - 1) :
           /\ e.blk[M[i]].next_free = IF i = (n + 1) - 1 THEN NULL ELSE M[i + 1]
           /\ e.blk[M[i]].prev_free = IF i = 0 THEN NULL ELSE M[i - 1]
    <3>1. e.blk[b].next_free = head /\ e.blk[b].prev_free = NULL
      BY <1>6, Zenon
    <3>2. n # 0 => M[1] = L[0]
      BY <2>3
    <3>3. CASE n = 0
      BY <2>2, <2>5, <3>1, <3>3
    <3>4. ASSUME n # 0
          PROVE  /\ e.blk[M[0]].next_free = M[1] /\ e.blk[M[0]].prev_free = NULL
      BY <2>2, <2>5, <3>1, <3>2, <3>4, Zenon
    <3>5. ASSUME NEW i \in 1 .. n
          PROVE  /\ e.blk[M[i]].next_free = IF i = (n + 1) - 1 THEN NULL ELSE M[i + 1]
                 /\ e.blk[M[i]].prev_free = M[i - 1]
      <4>1. i - 1 \in 0 .. (n - 1) /\ M[i] = L[i - 1] /\ (i - 1) + 1 = i
        BY <2>2
      <4>2. i # n => M[i + 1] = L[i]
        BY <2>3
      <4>3. i # 1 => M[i - 1] = L[(i - 1) - 1]
        BY <2>2
      <4>4. i = 1 => M[i - 1] = b
        BY <2>2
      <4>5. /\ e.blk[L[i - 1]].next_free = IF i - 1 = n - 1 THEN NULL ELSE L[(i - 1) + 1]
            /\ e.blk[L[i - 1]].prev_free = IF i - 1 = 0 THEN b ELSE L[(i - 1) - 1]
        BY <2>6, <4>1, Zenon
      <4>6. QED
        BY <4>1, <4>2, <4>3, <4>4, <4>5
    <3>6. QED
      BY <3>3, <3>4, <3>5
  <2>11. e.free_blocks[c] = M[0]
    BY <1>5, <2>2, Zenon
  <2>12. n + 1 \in Nat /\ n + 1 # 0
    OBVIOUS
  <2>13. List(e, S \cup {b}, c, n + 1, M)
    BY <2>7, <2>8, <2>9, <2>10, <2>11, <2>12, Zenon DEF List
  <2>14. QED
    BY <2>12, <2>13, Zenon
<1>10. b \in DOMAIN a.blk /\ b # NULL
  BY TlsfConstants, Zenon DEF Headers
<1>11. \A d \in Classes : d[2] \in e.sl_bitmap[d[1]] <=> e.free_blocks[d] # NULL
  <2>1. \A d \in Classes : d[1] \in Rows /\ (d[1] = c[1] /\ d[2] = c[2] => d = c)
    BY DEF Classes
  <2>2. c \in Classes
    BY Zenon
  <2> HIDE DEF c
  <2>3. ASSUME NEW d \in Classes
        PROVE  d[2] \in e.sl_bitmap[d[1]] <=> e.free_blocks[d] # NULL
    <3>1. d[2] \in a.sl_bitmap[d[1]] <=> a.free_blocks[d] # NULL
      BY Zenon DEF Lists
    <3>2. CASE d = c
      BY <1>5, <1>10, <2>1, <3>2, Zenon
    <3>3. CASE d # c
      BY <1>5, <2>1, <3>1, <3>3
    <3>4. QED
      BY <3>2, <3>3, Zenon
  <2>4. QED
    BY <2>3, Zenon
<1>12. \A r \in Rows : r \in e.fl_bitmap <=> e.sl_bitmap[r] # {}
  BY <1>5, Zenon DEF Lists
<1>13. S \cup {b} \subseteq DOMAIN e.blk
  BY <1>2, <1>4, Zenon DEF SamePlaces
<1>14. Lists(e, S \cup {b})
  BY <1>8, <1>9, <1>11, <1>12, <1>13, Zenon DEF Lists
<1>15. QED
  BY <1>4, <1>14, Zenon

-----------------------------------------------------------------------------
(* remove_block *)

\* What remove_block does to the headers, whatever the neighbours are.
Unlinked(f, g, b, prev, next) ==
  /\ DOMAIN g = DOMAIN f /\ ~g[b].free
  /\ \A x \in DOMAIN f :
       /\ g[x].size = f[x].size /\ g[x].last = f[x].last
       /\ g[x].prev_physical_block = f[x].prev_physical_block
       /\ x # b => g[x].free = f[x].free
       /\ g[x].next_free = IF x = b THEN NULL ELSE IF x = prev THEN next
                           ELSE f[x].next_free
       /\ g[x].prev_free = IF x = b THEN NULL ELSE IF x = next THEN prev
                           ELSE f[x].prev_free

RemovedBlk(f, b, prev, next) ==
  LET off == Link(MarkBusy(f, b), b, NULL, NULL)
      one == IF prev = NULL THEN off ELSE SetNext(off, prev, next)
  IN  IF next = NULL THEN one ELSE SetPrev(one, next, prev)

\* The four cases of remove_block do one and the same thing to the headers:
\* the neighbours in the list point to each other, b to nothing.
LEMMA RemovedBlkEffect ==
  ASSUME NEW f, Headers(f), NEW b \in DOMAIN f,
         NEW prev \in (DOMAIN f \ {b}) \cup {NULL},
         NEW next \in (DOMAIN f \ {b}) \cup {NULL},
         NEW g, g = RemovedBlk(f, b, prev, next)
  PROVE  Headers(g) /\ Unlinked(f, g, b, prev, next)
<1> DEFINE off == Link(MarkBusy(f, b), b, NULL, NULL)
           one == IF prev = NULL THEN off ELSE SetNext(off, prev, next)
<1>1. /\ NULL \notin DOMAIN f /\ prev \in Nat \cup {NULL} /\ next \in Nat \cup {NULL}
      /\ NULL \in Nat \cup {NULL}
  BY TlsfConstants, Zenon DEF Headers
<1>2. Headers(off) /\ Relinked(f, off, b, NULL, NULL) /\ ~off[b].free
  BY <1>1, LinkBusy, Zenon
<1> HIDE DEF off
<1>3. /\ Headers(one) /\ DOMAIN one = DOMAIN f /\ ~one[b].free
      /\ \A x \in DOMAIN f :
           /\ one[x].size = f[x].size /\ one[x].last = f[x].last
           /\ one[x].prev_physical_block = f[x].prev_physical_block
           /\ x # b => one[x].free = f[x].free
           /\ one[x].next_free = IF x = b THEN NULL ELSE IF x = prev THEN next
                                 ELSE f[x].next_free
           /\ one[x].prev_free = IF x = b THEN NULL ELSE f[x].prev_free
  <2>1. CASE prev = NULL
    BY <1>1, <1>2, <2>1, Zenon DEF Relinked
  <2>2. CASE prev # NULL
    <3>1. one = SetNext(off, prev, next) /\ prev \in DOMAIN off /\ prev # b
      BY <1>2, <2>2, Zenon DEF Relinked
    <3> HIDE DEF one
    <3>2. /\ Headers(one) /\ Relinked(off, one, prev, next, off[prev].prev_free)
          /\ one[prev].free = off[prev].free
      BY <1>1, <1>2, <3>1, SetOneLink, Zenon
    <3>3. QED
      BY <1>2, <3>1, <3>2 DEF Relinked
  <2>3. QED
    BY <2>1, <2>2, Zenon
<1>4. g = IF next = NULL THEN one ELSE SetPrev(one, next, prev)
  BY Zenon DEF RemovedBlk, off
<1> HIDE DEF one
<1>5. CASE next = NULL
  BY <1>1, <1>3, <1>4, <1>5 DEF Unlinked
<1>6. CASE next # NULL
  <2>1. g = SetPrev(one, next, prev) /\ next \in DOMAIN one /\ next # b
    BY <1>3, <1>4, <1>6, Zenon
  <2>2. /\ Headers(g) /\ Relinked(one, g, next, one[next].next_free, prev)
        /\ g[next].free = one[next].free
    <3>1. Headers(one) /\ prev \in Nat \cup {NULL}
      BY <1>1, <1>3, Zenon
    <3>2. QED
      BY <2>1, <3>1, SetOneLink, Zenon
  <2>3. QED
    BY <1>3, <2>1, <2>2 DEF Relinked, Unlinked
<1>7. QED
  BY <1>5, <1>6, Zenon

\* remove_block, field by field: the head moves on if b was first, and the
\* bits are cleared if b was alone.
LEMMA RemoveEffect ==
  ASSUME NEW a, Table(a), Headers(a.blk), NEW b \in DOMAIN a.blk, NEW c \in Classes,
         NEW prev, prev = a.blk[b].prev_free,
         NEW next, next = a.blk[b].next_free,
         prev \in (DOMAIN a.blk \ {b}) \cup {NULL},
         next \in (DOMAIN a.blk \ {b}) \cup {NULL},
         NEW e, e = remove_block(a, b, c)
  PROVE  /\ Table(e) /\ Headers(e.blk) /\ Unlinked(a.blk, e.blk, b, prev, next)
         /\ \A d \in Classes : e.free_blocks[d] =
              IF d = c /\ prev = NULL THEN next ELSE a.free_blocks[d]
         /\ \A r \in Rows : \A k : k \in e.sl_bitmap[r] <=>
              k \in a.sl_bitmap[r] /\ ~(prev = NULL /\ next = NULL /\ r = c[1] /\ k = c[2])
         /\ \A r \in Rows : r \in e.fl_bitmap <=>
              r \in a.fl_bitmap /\ ~(prev = NULL /\ next = NULL /\ r = c[1]
                                     /\ e.sl_bitmap[r] = {})
<1> DEFINE off == Link(MarkBusy(a.blk, b), b, NULL, NULL)
           row == a.sl_bitmap[c[1]] \ {c[2]}
<1>1. c[1] \in Rows /\ c[2] \in Columns /\ c = <<c[1], c[2]>>
  BY ClassParts
<1>2. prev \in Nat \cup {NULL} /\ next \in Nat \cup {NULL}
  BY Zenon DEF Headers
<1>3. off = Detach(a, b)
  BY Zenon DEF Link, MarkBusy, Detach
<1> DEFINE blk == RemovedBlk(a.blk, b, prev, next)
<1>4. Headers(blk) /\ Unlinked(a.blk, blk, b, prev, next)
  BY RemovedBlkEffect, Zenon
<1>5. CASE prev = NULL /\ next = NULL
  <2>1. blk = off
    BY <1>5, Zenon DEF RemovedBlk
  <2> HIDE DEF blk, off, row
  <2>2. e = [fl_bitmap   |-> IF row = {} THEN a.fl_bitmap \ {c[1]} ELSE a.fl_bitmap,
             sl_bitmap   |-> [a.sl_bitmap EXCEPT ![c[1]] = row],
             free_blocks |-> [a.free_blocks EXCEPT ![c] = NULL],
             blk         |-> blk]
    BY <1>3, <1>5, <2>1, Zenon DEF remove_block, row
  <2>3. row \subseteq Columns
    BY <1>1, Zenon DEF Table, row
  <2>4. Table(e)
    BY <1>1, <2>2, <2>3 DEF Table
  <2>5. e.blk = blk
    BY <2>2
  <2>6. e.free_blocks = [a.free_blocks EXCEPT ![c] = NULL]
    BY <2>2
  <2>7. e.sl_bitmap = [a.sl_bitmap EXCEPT ![c[1]] = row]
    BY <2>2
  <2>8. e.fl_bitmap = IF row = {} THEN a.fl_bitmap \ {c[1]} ELSE a.fl_bitmap
    BY <2>2
  <2>9. \A d \in Classes : e.free_blocks[d] =
              IF d = c /\ prev = NULL THEN next ELSE a.free_blocks[d]
    BY <1>5, <2>6, Zenon DEF Table
  <2>10. e.sl_bitmap[c[1]] = row /\ \A r \in Rows \ {c[1]} : e.sl_bitmap[r] = a.sl_bitmap[r]
    BY <1>1, <2>7, Zenon DEF Table
  <2>11. \A r \in Rows : \A k : k \in e.sl_bitmap[r] <=>
              k \in a.sl_bitmap[r] /\ ~(prev = NULL /\ next = NULL /\ r = c[1] /\ k = c[2])
    BY <1>5, <2>10, Zenon DEF row
  <2>12. \A r \in Rows : r \in e.fl_bitmap <=>
              r \in a.fl_bitmap /\ ~(prev = NULL /\ next = NULL /\ r = c[1]
                                     /\ e.sl_bitmap[r] = {})
    BY <1>5, <2>8, <2>10, Zenon
  <2>13. QED
    BY <1>4, <2>4, <2>5, <2>9, <2>11, <2>12, Zenon
<1>6. CASE prev = NULL /\ next # NULL
  <2>1. blk = SetPrev(off, next, NULL)
    BY <1>6, Zenon DEF RemovedBlk
  <2> DEFINE heads == [a.free_blocks EXCEPT ![c] = next]
  <2> HIDE DEF blk, off, row
  <2>2. e = [a EXCEPT !.free_blocks[c] = next, !.blk = blk]
    BY <1>3, <1>6, <2>1, Zenon DEF remove_block, SetPrev
  <2>3. e = [fl_bitmap |-> a.fl_bitmap, sl_bitmap |-> a.sl_bitmap,
             free_blocks |-> heads, blk |-> blk]
    BY <2>2, Zenon DEF Table
  <2>4. heads \in [Classes -> Nat \cup {NULL}]
    BY <1>2, Zenon DEF Table
  <2>5. \A d \in Classes : heads[d] =
              IF d = c /\ prev = NULL THEN next ELSE a.free_blocks[d]
    BY <1>6, Zenon DEF Table
  <2> HIDE DEF heads
  <2>6. Table(e)
    BY <2>3, <2>4 DEF Table
  <2>7. QED
    BY <1>4, <1>6, <2>3, <2>5, <2>6
<1>7. CASE prev # NULL
  <2>1. blk = IF next = NULL THEN SetNext(off, prev, NULL)
              ELSE SetPrev(SetNext(off, prev, next), next, prev)
    BY <1>7, Zenon DEF RemovedBlk
  <2> HIDE DEF blk, off, row
  <2>2. e = [a EXCEPT !.blk = blk]
    BY <1>3, <1>7, <2>1, Zenon DEF remove_block, SetPrev, SetNext
  <2>3. e = [fl_bitmap |-> a.fl_bitmap, sl_bitmap |-> a.sl_bitmap,
             free_blocks |-> a.free_blocks, blk |-> blk]
    BY <2>2, Zenon DEF Table
  <2>6. Table(e)
    BY <2>3 DEF Table
  <2>7. QED
    BY <1>4, <1>7, <2>3, <2>6
<1>8. QED
  BY <1>5, <1>6, <1>7, Zenon

\* e is a after remove_block has taken b, between prev and next, out of list c.
Removed(a, e, b, c, prev, next) ==
  /\ Table(e) /\ Headers(e.blk) /\ Unlinked(a.blk, e.blk, b, prev, next)
  /\ \A d \in Classes : e.free_blocks[d] =
       IF d = c /\ prev = NULL THEN next ELSE a.free_blocks[d]
  /\ \A r \in Rows : \A j : j \in e.sl_bitmap[r] <=>
       j \in a.sl_bitmap[r] /\ ~(prev = NULL /\ next = NULL /\ r = c[1] /\ j = c[2])
  /\ \A r \in Rows : r \in e.fl_bitmap <=>
       r \in a.fl_bitmap /\ ~(prev = NULL /\ next = NULL /\ r = c[1]
                              /\ e.sl_bitmap[r] = {})

\* The same with the links as the header of b has them.
LEMMA RemoveRemoves ==
  ASSUME NEW a, Table(a), Headers(a.blk), NEW b \in DOMAIN a.blk, NEW c \in Classes,
         a.blk[b].prev_free \in (DOMAIN a.blk \ {b}) \cup {NULL},
         a.blk[b].next_free \in (DOMAIN a.blk \ {b}) \cup {NULL}
  PROVE  Removed(a, remove_block(a, b, c), b, c, a.blk[b].prev_free, a.blk[b].next_free)
  BY RemoveEffect DEF Removed

\* Where a listed block is in its list, and what its links say there.
LEMMA Position ==
  ASSUME NEW a, NEW S, NEW c, NEW n \in Nat, NEW L, List(a, S, c, n, L),
         NEW b \in S, Class(a, b) = c, S \subseteq Nat
  PROVE  \E k \in 0 .. (n - 1) :
           /\ L[k] = b
           /\ a.blk[b].prev_free = IF k = 0 THEN NULL ELSE L[k - 1]
           /\ a.blk[b].next_free = IF k = n - 1 THEN NULL ELSE L[k + 1]
           /\ k # 0 => k - 1 \in 0 .. (n - 1) /\ L[k - 1] \in S \ {b}
           /\ k # n - 1 => k + 1 \in 0 .. (n - 1) /\ L[k + 1] \in S \ {b}
           /\ a.blk[b].prev_free = NULL <=> k = 0
           /\ a.blk[b].next_free = NULL <=> k = n - 1
<1>1. PICK k \in 0 .. (n - 1) : L[k] = b
  BY Zenon DEF List
<1>2. /\ a.blk[b].prev_free = IF k = 0 THEN NULL ELSE L[k - 1]
      /\ a.blk[b].next_free = IF k = n - 1 THEN NULL ELSE L[k + 1]
  BY <1>1, Zenon DEF List
<1>3. k # 0 => k - 1 \in 0 .. (n - 1) /\ L[k - 1] \in S \ {b}
  <2>1. ASSUME k # 0 PROVE k - 1 \in 0 .. (n - 1) /\ k - 1 # k
    BY <2>1
  <2>2. QED
    BY <1>1, <2>1, Zenon DEF List
<1>4. k # n - 1 => k + 1 \in 0 .. (n - 1) /\ L[k + 1] \in S \ {b}
  <2>1. ASSUME k # n - 1 PROVE k + 1 \in 0 .. (n - 1) /\ k + 1 # k
    BY <2>1
  <2>2. QED
    BY <1>1, <2>1, Zenon DEF List
<1>5. NULL \notin S
  BY TlsfConstants, Zenon
<1>6. /\ a.blk[b].prev_free = NULL <=> k = 0
      /\ a.blk[b].next_free = NULL <=> k = n - 1
  BY <1>2, <1>3, <1>4, <1>5, Zenon
<1>7. QED
  BY <1>1, <1>2, <1>3, <1>4, <1>6, Zenon

\* The list of b's class without b is what remove_block leaves.
LEMMA ShortenedList ==
  ASSUME NEW a, NEW S, NEW c, NEW n \in Nat, NEW L, List(a, S, c, n, L),
         S \subseteq DOMAIN a.blk, Headers(a.blk),
         NEW k \in 0 .. (n - 1), NEW b, L[k] = b,
         NEW e, \A x \in S : Class(e, x) = Class(a, x),
         Unlinked(a.blk, e.blk, b, a.blk[b].prev_free, a.blk[b].next_free),
         e.free_blocks[c] = IF a.blk[b].prev_free = NULL THEN a.blk[b].next_free
                            ELSE a.free_blocks[c]
  PROVE  \E M : List(e, S \ {b}, c, n - 1, M)
<1> DEFINE M == [i \in 0 .. (n - 2) |-> IF i < k THEN L[i] ELSE L[i + 1]]
           at(i) == IF i < k THEN i ELSE i + 1
           prev == a.blk[b].prev_free
           next == a.blk[b].next_free
<1>1. /\ \A i \in 0 .. (n - 1) : L[i] \in S /\ Class(a, L[i]) = c
      /\ \A x \in S : Class(a, x) = c => \E i \in 0 .. (n - 1) : L[i] = x
      /\ \A i, j \in 0 .. (n - 1) : L[i] = L[j] => i = j
      /\ a.free_blocks[c] = L[0]
  BY DEF List
<1>2. \A i \in 0 .. (n - 1) :
       /\ a.blk[L[i]].next_free = IF i = n - 1 THEN NULL ELSE L[i + 1]
       /\ a.blk[L[i]].prev_free = IF i = 0 THEN NULL ELSE L[i - 1]
  BY Zenon DEF List
<1>3. \A i \in 0 .. (n - 2) : at(i) \in 0 .. (n - 1) /\ at(i) # k /\ M[i] = L[at(i)]
  OBVIOUS
<1>4. \A i \in 0 .. (n - 1) : i # k => \E j \in 0 .. (n - 2) : at(j) = i
  <2>1. ASSUME NEW i \in 0 .. (n - 1), i # k PROVE \E j \in 0 .. (n - 2) : at(j) = i
    <3>1. CASE i < k
      <4>1. i \in 0 .. (n - 2) /\ at(i) = i
        BY <3>1
      <4>2. QED
        BY <4>1, Zenon
    <3>2. CASE i > k
      <4>1. i - 1 \in 0 .. (n - 2) /\ at(i - 1) = i
        BY <3>2
      <4>2. QED
        BY <4>1, Zenon
    <3>3. QED
      BY <2>1, <3>1, <3>2
  <2>2. QED
    BY <2>1, Zenon
<1>5. \A i, j \in 0 .. (n - 2) : at(i) = at(j) => i = j
  OBVIOUS
<1>6. /\ prev = IF k = 0 THEN NULL ELSE L[k - 1]
      /\ next = IF k = n - 1 THEN NULL ELSE L[k + 1]
      /\ k # 0 => k - 1 \in 0 .. (n - 1) /\ L[k - 1] \in S
      /\ k # n - 1 => k + 1 \in 0 .. (n - 1) /\ L[k + 1] \in S
  <2>1. k # 0 => k - 1 \in 0 .. (n - 1)
    OBVIOUS
  <2>2. k # n - 1 => k + 1 \in 0 .. (n - 1)
    OBVIOUS
  <2>3. QED
    BY <1>1, <1>2, <2>1, <2>2, Zenon
<1>7. NULL \notin S
  BY TlsfConstants, Zenon DEF Headers
<1>8. \A i \in 0 .. (n - 2) : M[i] \in S \ {b} /\ Class(e, M[i]) = c
  <2>1. SUFFICES ASSUME NEW i \in 0 .. (n - 2) PROVE M[i] \in S \ {b} /\ Class(e, M[i]) = c
    BY Zenon
  <2>2. at(i) \in 0 .. (n - 1) /\ at(i) # k /\ M[i] = L[at(i)]
    BY <1>3, Zenon
  <2> HIDE DEF at, M
  <2>3. QED
    BY <1>1, <2>2, Zenon
<1>9. \A x \in S \ {b} : Class(e, x) = c => \E i \in 0 .. (n - 2) : M[i] = x
  <2>1. SUFFICES ASSUME NEW x \in S \ {b}, Class(e, x) = c
                 PROVE  \E i \in 0 .. (n - 2) : M[i] = x
    BY Zenon
  <2> HIDE DEF at, M
  <2>2. PICK j \in 0 .. (n - 1) : L[j] = x
    BY <1>1, <2>1, Zenon
  <2>3. PICK i \in 0 .. (n - 2) : at(i) = j
    BY <1>4, <2>1, <2>2, Zenon
  <2>4. QED
    BY <1>3, <2>2, <2>3, Zenon
<1>10. \A i, j \in 0 .. (n - 2) : M[i] = M[j] => i = j
  <2> HIDE DEF at, M
  <2>1. QED
    BY <1>1, <1>3, <1>5
<1>11. ASSUME NEW i \in 0 .. (n - 2)
       PROVE  /\ e.blk[M[i]].next_free = IF i = n - 2 THEN NULL ELSE M[i + 1]
              /\ e.blk[M[i]].prev_free = IF i = 0 THEN NULL ELSE M[i - 1]
  <2>1. M[i] \in S \ {b} /\ M[i] \in DOMAIN a.blk
    BY <1>8, Zenon
  <2>2. /\ e.blk[M[i]].next_free = IF M[i] = prev THEN next ELSE a.blk[M[i]].next_free
        /\ e.blk[M[i]].prev_free = IF M[i] = next THEN prev ELSE a.blk[M[i]].prev_free
    <3> HIDE DEF M
    <3>1. QED
      BY <2>1, Zenon DEF Unlinked
  <2>3. M[i] = prev <=> at(i) = k - 1
    BY <1>1, <1>3, <1>6, <1>7, <2>1
  <2>4. M[i] = next <=> at(i) = k + 1
    BY <1>1, <1>3, <1>6, <1>7, <2>1
  <2>5. i # n - 2 => M[i + 1] = L[at(i + 1)]
    OBVIOUS
  <2>6. i # 0 => M[i - 1] = L[at(i - 1)]
    OBVIOUS
  <2>7. /\ a.blk[M[i]].next_free = IF at(i) = n - 1 THEN NULL ELSE L[at(i) + 1]
        /\ a.blk[M[i]].prev_free = IF at(i) = 0 THEN NULL ELSE L[at(i) - 1]
    <3>1. at(i) \in 0 .. (n - 1) /\ M[i] = L[at(i)]
      BY <1>3, Zenon
    <3> HIDE DEF M, at
    <3>2. QED
      BY <1>2, <3>1, Zenon
  <2> HIDE DEF M
  <2>8. e.blk[M[i]].next_free = IF i = n - 2 THEN NULL ELSE M[i + 1]
    <3>1. CASE i = k - 1
      <4>1. at(i) = k - 1 /\ at(i + 1) = k + 1 /\ (i = n - 2 <=> k = n - 1)
        BY <3>1
      <4> HIDE DEF at
      <4>2. QED
        BY <1>6, <2>2, <2>3, <2>5, <4>1, Zenon
    <3>2. CASE i # k - 1
      BY <1>6, <2>2, <2>3, <2>5, <2>7, <3>2
    <3>3. QED
      BY <3>1, <3>2, Zenon
  <2>9. e.blk[M[i]].prev_free = IF i = 0 THEN NULL ELSE M[i - 1]
    <3>1. CASE i = k
      <4>1. at(i) = k + 1 /\ (i # 0 => at(i - 1) = k - 1) /\ (i = 0 <=> k = 0)
        BY <3>1
      <4> HIDE DEF at
      <4>2. QED
        BY <1>6, <2>2, <2>4, <2>6, <4>1, Zenon
    <3>2. CASE i # k
      BY <1>6, <2>2, <2>4, <2>6, <2>7, <3>2
    <3>3. QED
      BY <3>1, <3>2, Zenon
  <2>10. QED
    BY <2>8, <2>9, Zenon
<1>12. e.free_blocks[c] = IF n - 1 = 0 THEN NULL ELSE M[0]
  <2>1. n - 1 # 0 => M[0] = IF k = 0 THEN L[1] ELSE L[0]
    OBVIOUS
  <2> HIDE DEF M
  <2>2. CASE k = 0
    <3>1. prev = NULL
      BY <1>6, <2>2, Zenon
    <3>2. QED
      BY <1>6, <2>1, <2>2, <3>1
  <2>3. CASE k # 0
    <3>1. prev # NULL /\ n - 1 # 0
      BY <1>6, <1>7, <2>3
    <3>2. QED
      BY <1>1, <2>1, <2>3, <3>1, Zenon
  <2>4. QED
    BY <2>2, <2>3, Zenon
<1>13. (n - 1) - 1 = n - 2
  OBVIOUS
<1> HIDE DEF M
<1>14. List(e, S \ {b}, c, n - 1, M)
  BY <1>8, <1>9, <1>10, <1>11, <1>12, <1>13, Zenon DEF List
<1>15. QED
  BY <1>14, Zenon

\* remove_block takes b out of the list of its class and keeps all lists and
\* bits exact.
LEMMA RemoveLists ==
  ASSUME NEW a, Table(a), Headers(a.blk), NEW S, Lists(a, S),
         NEW b \in S, Class(a, b) \in Classes,
         NEW e, e = remove_block(a, b, Class(a, b))
  PROVE  /\ Table(e) /\ Headers(e.blk) /\ SamePlaces(a, e)
         /\ Lists(e, S \ {b})
         /\ ~e.blk[b].free
         /\ \A x \in DOMAIN a.blk \ {b} : e.blk[x].free = a.blk[x].free
<1> DEFINE c == Class(a, b)
           prev == a.blk[b].prev_free
           next == a.blk[b].next_free
<1>1. S \subseteq DOMAIN a.blk /\ S \subseteq Nat /\ NULL \notin S
  BY TlsfConstants, Zenon DEF Lists, Headers
<1>2a. PICK n \in Nat : \E L : List(a, S, c, n, L)
  BY Zenon DEF Lists
<1>2. PICK L : List(a, S, c, n, L)
  BY <1>2a, Zenon
<1>3. PICK k \in 0 .. (n - 1) :
           /\ L[k] = b
           /\ prev = IF k = 0 THEN NULL ELSE L[k - 1]
           /\ next = IF k = n - 1 THEN NULL ELSE L[k + 1]
           /\ k # 0 => k - 1 \in 0 .. (n - 1) /\ L[k - 1] \in S \ {b}
           /\ k # n - 1 => k + 1 \in 0 .. (n - 1) /\ L[k + 1] \in S \ {b}
  BY <1>1, <1>2, Position
<1>4. prev \in (S \ {b}) \cup {NULL} /\ next \in (S \ {b}) \cup {NULL}
  BY <1>3, Zenon
<1>5. /\ prev \in (DOMAIN a.blk \ {b}) \cup {NULL}
      /\ next \in (DOMAIN a.blk \ {b}) \cup {NULL}
  BY <1>1, <1>4, Zenon
<1>6. prev # NULL => Class(a, prev) = c
  BY <1>2, <1>3 DEF List
<1>7. next # NULL => Class(a, next) = c
  BY <1>2, <1>3 DEF List
<1> HIDE DEF c, prev, next
<1>8. c \in Classes /\ e = remove_block(a, b, c) /\ b \in DOMAIN a.blk
      /\ prev = a.blk[b].prev_free /\ next = a.blk[b].next_free
  BY <1>1, Zenon DEF c, prev, next
<1>9a. Removed(a, e, b, c, prev, next)
  <2>1. Removed(a, remove_block(a, b, c), b, c, a.blk[b].prev_free, a.blk[b].next_free)
    BY <1>5, <1>8, RemoveRemoves, Zenon
  <2>2. QED
    BY <1>8, <2>1, Zenon
<1>9. Table(e) /\ Headers(e.blk) /\ Unlinked(a.blk, e.blk, b, prev, next)
  BY <1>9a, Zenon DEF Removed
<1>10. \A d \in Classes : e.free_blocks[d] =
         IF d = c /\ prev = NULL THEN next ELSE a.free_blocks[d]
  BY <1>9a, Zenon DEF Removed
<1>11. \A r \in Rows : \A j : j \in e.sl_bitmap[r] <=>
         j \in a.sl_bitmap[r] /\ ~(prev = NULL /\ next = NULL /\ r = c[1] /\ j = c[2])
  BY <1>9a, Zenon DEF Removed
<1>12. \A r \in Rows : r \in e.fl_bitmap <=>
         r \in a.fl_bitmap /\ ~(prev = NULL /\ next = NULL /\ r = c[1]
                                /\ e.sl_bitmap[r] = {})
  BY <1>9a DEF Removed
<1>13. SamePlaces(a, e) /\ ~e.blk[b].free
       /\ \A x \in DOMAIN a.blk \ {b} : e.blk[x].free = a.blk[x].free
  BY <1>9, Zenon DEF Unlinked, SamePlaces
<1>14. \A x \in DOMAIN a.blk : Class(e, x) = Class(a, x)
  BY <1>13, Zenon DEF SamePlaces, Class
<1>15. ASSUME NEW d \in Classes, d # c
       PROVE  \E m \in Nat : \E M : List(e, S \ {b}, d, m, M)
  <2>0. PICK m \in Nat : \E M : List(a, S, d, m, M)
    BY Zenon DEF Lists
  <2>1. PICK M : List(a, S, d, m, M)
    BY <2>0, Zenon
  <2>2. \A i \in 0 .. (m - 1) : M[i] \in S /\ Class(a, M[i]) = d
    BY <2>1, Zenon DEF List
  <2>3. \A i \in 0 .. (m - 1) : M[i] # b /\ M[i] # prev /\ M[i] # next /\ M[i] \in DOMAIN a.blk
    BY <1>1, <1>6, <1>7, <1>15, <2>2 DEF c
  <2>4. e.free_blocks[d] = a.free_blocks[d]
    BY <1>10, <1>15, Zenon
  <2>5. \A i \in 0 .. (m - 1) : Class(e, M[i]) = d
    BY <1>14, <2>2, <2>3, Zenon
  <2>6. \A x \in S \ {b} : Class(e, x) = d => \E i \in 0 .. (m - 1) : M[i] = x
    BY <1>1, <1>14, <2>1, Zenon DEF List
  <2>7. \A i \in 0 .. (m - 1) :
          /\ e.blk[M[i]].next_free = a.blk[M[i]].next_free
          /\ e.blk[M[i]].prev_free = a.blk[M[i]].prev_free
    BY <1>9, <2>3, Zenon DEF Unlinked
  <2>8. List(e, S \ {b}, d, m, M)
    BY <2>1, <2>2, <2>3, <2>4, <2>5, <2>6, <2>7, Zenon DEF List
  <2>9. QED
    BY <2>8, Zenon
<1>16. \E m \in Nat : \E M : List(e, S \ {b}, c, m, M)
  <2>1. n - 1 \in Nat
    OBVIOUS
  <2>2. \E M : List(e, S \ {b}, c, n - 1, M)
    <3>1. \A x \in S : Class(e, x) = Class(a, x)
      BY <1>1, <1>14, Zenon
    <3>2. e.free_blocks[c] = IF a.blk[b].prev_free = NULL THEN a.blk[b].next_free
                             ELSE a.free_blocks[c]
      BY <1>8, <1>10, Zenon
    <3>3. Unlinked(a.blk, e.blk, b, a.blk[b].prev_free, a.blk[b].next_free)
      BY <1>8, <1>9, Zenon
    <3>4. S \subseteq DOMAIN a.blk /\ k \in 0 .. (n - 1) /\ L[k] = b
      BY <1>1, <1>3, Zenon
    <3>5. QED
      BY <1>2, <3>1, <3>2, <3>3, <3>4, ShortenedList, Zenon
  <2>3. QED
    BY <2>1, <2>2, Zenon
<1>17. ASSUME NEW d \in Classes
       PROVE  d[2] \in e.sl_bitmap[d[1]] <=> e.free_blocks[d] # NULL
  <2>1. d[2] \in a.sl_bitmap[d[1]] <=> a.free_blocks[d] # NULL
    BY Zenon DEF Lists
  <2>2. d[1] \in Rows /\ (d # c => d[1] # c[1] \/ d[2] # c[2])
    BY <1>8, ClassParts
  <2>3. a.free_blocks[c] # NULL
    BY <1>1, <1>2 DEF List
  <2>4. QED
    BY <1>10, <1>11, <2>1, <2>2, <2>3, Zenon
<1>18. ASSUME NEW r \in Rows
       PROVE  r \in e.fl_bitmap <=> e.sl_bitmap[r] # {}
  <2>1. r \in a.fl_bitmap <=> a.sl_bitmap[r] # {}
    BY Zenon DEF Lists
  <2>2. QED
    BY <1>11, <1>12, <2>1, Zenon
<1>19. S \ {b} \subseteq DOMAIN e.blk
  BY <1>1, <1>13, Zenon DEF SamePlaces
<1>20. Lists(e, S \ {b})
  BY <1>15, <1>16, <1>17, <1>18, <1>19, Zenon DEF Lists
<1>21. QED
  BY <1>9, <1>13, <1>20, Zenon

-----------------------------------------------------------------------------
(* split_blk and blk_merge *)

Resize(f, b, s)     == [f EXCEPT ![b].size = s, ![b].last = FALSE]
ResizeLast(f, b, s) == [f EXCEPT ![b].size = s, ![b].last = TRUE]
SetPhys(f, b, p)    == [f EXCEPT ![b].prev_physical_block = p]

\* g differs from f in the size and the last bit of b only.
Resized(f, g, b, s) ==
  /\ Headers(g) /\ DOMAIN g = DOMAIN f /\ g[b].size = s
  /\ \A x \in DOMAIN f :
       /\ x # b => g[x].size = f[x].size /\ (g[x].last <=> f[x].last)
       /\ g[x].free <=> f[x].free
       /\ g[x].prev_physical_block = f[x].prev_physical_block
       /\ g[x].next_free = f[x].next_free /\ g[x].prev_free = f[x].prev_free

\* Assigning size and last bit of b touches nothing else.
LEMMA ResizeEffect ==
  ASSUME NEW f, Headers(f), NEW b \in DOMAIN f, NEW s \in Nat
  PROVE  /\ Resized(f, Resize(f, b, s), b, s) /\ ~Resize(f, b, s)[b].last
         /\ Resized(f, ResizeLast(f, b, s), b, s) /\ ResizeLast(f, b, s)[b].last
<1>1. /\ [f[b] EXCEPT !.size = s, !.last = FALSE] \in Header
      /\ [f[b] EXCEPT !.size = s, !.last = TRUE] \in Header
  <2>1. f[b] \in Header
    BY Zenon DEF Headers
  <2>2. QED
    BY <2>1, Zenon DEF Header
<1>2. /\ Resize(f, b, s) = [f EXCEPT ![b] = [f[b] EXCEPT !.size = s, !.last = FALSE]]
      /\ ResizeLast(f, b, s) = [f EXCEPT ![b] = [f[b] EXCEPT !.size = s, !.last = TRUE]]
  BY Zenon DEF Resize, ResizeLast, Headers, Header
<1>3. Headers(Resize(f, b, s)) /\ Headers(ResizeLast(f, b, s))
  <2>1. Headers(Resize(f, b, s))
    BY <1>1, <1>2, SetHeader, Zenon
  <2>2. Headers(ResizeLast(f, b, s))
    BY <1>1, <1>2, SetHeader, Zenon
  <2>3. QED
    BY <2>1, <2>2, Zenon
<1>4. Resized(f, Resize(f, b, s), b, s) /\ ~Resize(f, b, s)[b].last
  BY <1>3, Zenon DEF Headers, Header, Resize, Resized
<1>5. Resized(f, ResizeLast(f, b, s), b, s) /\ ResizeLast(f, b, s)[b].last
  <2> DEFINE h == [f[b] EXCEPT !.size = s, !.last = TRUE]
  <2>1. Resized(f, ResizeLast(f, b, s), b, s)
    <3>1. \A x \in DOMAIN f : ResizeLast(f, b, s)[x] = IF x = b THEN h ELSE f[x]
      BY <1>2, Zenon DEF Headers
    <3>2. DOMAIN ResizeLast(f, b, s) = DOMAIN f
      BY <1>2, Zenon DEF Headers
    <3>3. /\ h.size = s /\ h.prev_physical_block = f[b].prev_physical_block
          /\ h.next_free = f[b].next_free /\ h.prev_free = f[b].prev_free
          /\ h.free <=> f[b].free
      BY Zenon DEF Headers, Header
    <3> HIDE DEF h
    <3>4. QED
      BY <1>3, <3>1, <3>2, <3>3, Zenon DEF Resized
  <2>2. ResizeLast(f, b, s)[b] = [f[b] EXCEPT !.size = s, !.last = TRUE]
    BY <1>2, Zenon DEF Headers
  <2>3. [f[b] EXCEPT !.size = s, !.last = TRUE].last
    BY Zenon DEF Headers, Header
  <2>4. QED
    BY <2>1, <2>2, <2>3, Zenon
<1>6. QED
  BY <1>4, <1>5, Zenon

\* g differs from f in the physical predecessor of b only.
Repointed(f, g, b, p) ==
  /\ Headers(g) /\ DOMAIN g = DOMAIN f
  /\ \A x \in DOMAIN f :
       /\ g[x].size = f[x].size /\ (g[x].last <=> f[x].last)
       /\ g[x].free <=> f[x].free
       /\ g[x].prev_physical_block = IF x = b THEN p ELSE f[x].prev_physical_block
       /\ g[x].next_free = f[x].next_free /\ g[x].prev_free = f[x].prev_free

\* Assigning prev_physical_block of b touches nothing else.
LEMMA SetPhysEffect ==
  ASSUME NEW f, Headers(f), NEW b \in DOMAIN f, NEW p \in Nat
  PROVE  Repointed(f, SetPhys(f, b, p), b, p)
<1>1. Headers(SetPhys(f, b, p))
  BY SetFields, Zenon DEF SetPhys
<1>2. QED
  BY <1>1, Zenon DEF SetPhys, Headers, Header, Repointed

\* The headers f of the blocks tile the bytes from 0 to N - 1.
Chain(f, N) ==
  /\ 0 \in DOMAIN f /\ f[0].prev_physical_block = NULL
  /\ \A b \in DOMAIN f :
       /\ f[b].size >= MINIMUM_BLOCK_SIZE
       /\ f[b].size % ALIGNMENT_REQUIREMENT = 0
       /\ b % ALIGNMENT_REQUIREMENT = 0
       /\ b + f[b].size <= N
       /\ f[b].last => b + f[b].size = N
       /\ ~f[b].last => /\ b + f[b].size \in DOMAIN f
                        /\ f[b + f[b].size].prev_physical_block = b
       /\ b # 0 => /\ f[b].prev_physical_block \in DOMAIN f
                   /\ f[b].prev_physical_block + f[f[b].prev_physical_block].size = b
                   /\ ~f[f[b].prev_physical_block].last
  /\ \A b, c \in DOMAIN f : b < c => b + f[b].size <= c /\ ~f[b].last
  /\ \E b \in DOMAIN f : f[b].last

\* g is f with block b divided at m.
Divided(f, g, b, m) ==
  /\ Headers(g) /\ DOMAIN g = DOMAIN f \cup {m}
  /\ g[b].size = m - b /\ ~g[b].last
  /\ g[m].size = f[b].size - (m - b) /\ (g[m].last <=> f[b].last)
  /\ g[m].prev_physical_block = b
  /\ \A x \in DOMAIN f :
       /\ x # b => g[x].size = f[x].size /\ (g[x].last <=> f[x].last)
       /\ g[x].free <=> f[x].free
       /\ g[x].next_free = f[x].next_free /\ g[x].prev_free = f[x].prev_free
       /\ g[x].prev_physical_block =
            IF ~f[b].last /\ x = b + f[b].size THEN m ELSE f[x].prev_physical_block

\* g is f with block c joined to the block p in front of it.
Joined(f, g, p, c) ==
  /\ Headers(g) /\ DOMAIN g = DOMAIN f \ {c}
  /\ g[p].size = f[p].size + f[c].size /\ (g[p].last <=> f[c].last)
  /\ \A x \in DOMAIN f \ {c} :
       /\ x # p => g[x].size = f[x].size /\ (g[x].last <=> f[x].last)
       /\ g[x].free <=> f[x].free
       /\ g[x].next_free = f[x].next_free /\ g[x].prev_free = f[x].prev_free
       /\ g[x].prev_physical_block =
            IF ~f[c].last /\ x = c + f[c].size THEN p ELSE f[x].prev_physical_block

\* The same bitmaps and list heads.
SameTable(a, e) ==
  /\ e.fl_bitmap = a.fl_bitmap /\ e.sl_bitmap = a.sl_bitmap
  /\ e.free_blocks = a.free_blocks

\* e is a with the headers g.
Rewritten(a, e, g) == e = [a EXCEPT !.blk = g]

\* New headers leave bitmaps and heads alone.
LEMMA SetBlocks ==
  ASSUME NEW a, Table(a), NEW g, NEW e, Rewritten(a, e, g)
  PROVE  Table(e) /\ SameTable(a, e) /\ e.blk = g
  BY Zenon DEF Table, SameTable, Rewritten

\* Where a block of size s at b is cut.
LEMMA CutSums ==
  ASSUME NEW b \in Nat, NEW r \in Nat, NEW s \in Nat, r < s
  PROVE  b + r \in Nat /\ b + r # b + s /\ (b + r) - b = r
  OBVIOUS

\* split_blk divides b and tells the block behind it.
LEMMA SplitEffect ==
  ASSUME NEW a, Table(a), Headers(a.blk), NEW N, Chain(a.blk, N),
         NEW b \in DOMAIN a.blk, NEW r \in Nat \ {0}, r < a.blk[b].size,
         NEW e, e = split_blk(a, b, r)
  PROVE  /\ Table(e) /\ SameTable(a, e) /\ Divided(a.blk, e.blk, b, b + r)
         /\ b + r \notin DOMAIN a.blk
<1> DEFINE f == a.blk
           m == b + r
           rest == [size |-> f[b].size - r, free |-> TRUE, last |-> f[b].last,
                    prev_physical_block |-> b, next_free |-> NULL, prev_free |-> NULL]
           cut == With(Resize(f, b, r), m, rest)
           g == IF f[b].last THEN cut ELSE SetPhys(cut, b + f[b].size, m)
<1> HIDE DEF f, m, rest, cut, g
<1>f. Headers(f) /\ Chain(f, N) /\ b \in DOMAIN f /\ r < f[b].size
  BY Zenon DEF f
<1>0. b \in Nat /\ f[b].size \in Nat /\ f[b].last \in BOOLEAN
  BY <1>f, HeaderTypes, Zenon
<1>1. m \in Nat /\ m # b + f[b].size /\ m - b = r
  BY <1>0, <1>f, CutSums, Zenon DEF m
<1>2. m \notin DOMAIN f
  BY <1>0, <1>f DEF Chain, Headers, m
<1>3. Rewritten(a, e, g)
  BY Zenon DEF f, m, rest, cut, g, split_blk, Resize, SetPhys, Rewritten
<1>4. rest \in Header
  BY <1>0, <1>f DEF Header, rest
<1>5. Resized(f, Resize(f, b, r), b, r) /\ ~Resize(f, b, r)[b].last
  BY <1>f, ResizeEffect, Zenon
<1>6. /\ Headers(cut) /\ DOMAIN cut = DOMAIN f \cup {m} /\ cut[m] = rest
      /\ \A x \in DOMAIN f : cut[x] = Resize(f, b, r)[x]
  <2> DEFINE R == Resize(f, b, r)
  <2>1. Headers(R) /\ DOMAIN R = DOMAIN f /\ m \in Nat /\ m \notin DOMAIN R
    BY <1>1, <1>2, <1>5, Zenon DEF Resized
  <2>2. cut = With(R, m, rest)
    BY Zenon DEF cut
  <2> HIDE DEF R
  <2>3. /\ Headers(cut) /\ DOMAIN cut = DOMAIN R \cup {m} /\ cut[m] = rest
        /\ \A x \in DOMAIN R : cut[x] = R[x]
    BY <1>4, <2>1, <2>2, Zenon DEF With, Headers
  <2>4. QED
    BY <2>1, <2>3, Zenon DEF R
<1>7. /\ rest.size = f[b].size - r /\ (rest.last <=> f[b].last)
      /\ rest.prev_physical_block = b
  BY Zenon DEF rest
<1>8. Table(e) /\ SameTable(a, e) /\ e.blk = g
  BY <1>3, SetBlocks, Zenon
<1>a. cut[b].size = r /\ ~cut[b].last
  BY <1>5, <1>6, <1>f, Zenon DEF Resized
<1>b. ASSUME NEW x \in DOMAIN f
      PROVE  /\ x # b => cut[x].size = f[x].size /\ (cut[x].last <=> f[x].last)
             /\ cut[x].free <=> f[x].free
             /\ cut[x].prev_physical_block = f[x].prev_physical_block
             /\ cut[x].next_free = f[x].next_free /\ cut[x].prev_free = f[x].prev_free
  BY <1>5, <1>6, Zenon DEF Resized
<1>9. Divided(f, g, b, m)
  <2>1. CASE f[b].last
    <3>1. g = cut
      BY <2>1, Zenon DEF g
    <3>2. QED
      BY <1>1, <1>6, <1>7, <1>a, <1>b, <2>1, <3>1, Zenon DEF Divided
  <2>2. CASE ~f[b].last
    <3>1. b + f[b].size \in DOMAIN f
      BY <1>f, <2>2, Zenon DEF Chain
    <3>2. g = SetPhys(cut, b + f[b].size, m)
      BY <2>2, Zenon DEF g
    <3> DEFINE k == b + f[b].size
    <3>4. k \in DOMAIN cut /\ k # m /\ g = SetPhys(cut, k, m)
      BY <1>1, <1>6, <3>1, <3>2, Zenon
    <3> HIDE DEF k
    <3>5. Repointed(cut, g, k, m)
      BY <1>1, <1>6, <3>4, SetPhysEffect, Zenon
    <3>7. g[m].size = f[b].size - (m - b) /\ (g[m].last <=> f[b].last)
          /\ g[m].prev_physical_block = b
      BY <1>1, <1>6, <1>7, <3>4, <3>5, Zenon DEF Repointed
    <3>8. g[b].size = m - b /\ ~g[b].last
      <4>1. b \in DOMAIN cut
        BY <1>6, <1>f, Zenon
      <4>2. QED
        BY <1>1, <1>a, <3>5, <4>1, Zenon DEF Repointed
    <3>9. ASSUME NEW x \in DOMAIN f
          PROVE  /\ x # b => g[x].size = f[x].size /\ (g[x].last <=> f[x].last)
                 /\ g[x].free <=> f[x].free
                 /\ g[x].next_free = f[x].next_free /\ g[x].prev_free = f[x].prev_free
                 /\ g[x].prev_physical_block = IF x = k THEN m ELSE f[x].prev_physical_block
      <4>1. x \in DOMAIN cut
        BY <1>6, Zenon
      <4>2. QED
        BY <1>b, <3>5, <4>1, Zenon DEF Repointed
    <3>10. QED
      BY <1>6, <2>2, <3>5, <3>7, <3>8, <3>9, Zenon DEF Divided, Repointed, k
  <2>3. QED
    BY <1>0, <2>1, <2>2, Zenon
<1>10. QED
  BY <1>2, <1>8, <1>9, Zenon DEF f, m

\* Where two neighbours of sizes s and t end.
LEMMA MergeSums ==
  ASSUME NEW p \in Nat, NEW s \in Nat, NEW t \in Nat, NEW m \in Nat \ {0},
         s >= m, t >= m, NEW c, c = p + s
  PROVE  p # c /\ s + t \in Nat /\ p + (s + t) = c + t /\ c + t # c
  OBVIOUS

\* blk_merge joins two neighbours and tells the block behind them.
LEMMA MergeEffect ==
  ASSUME NEW a, Table(a), Headers(a.blk), NEW N, Chain(a.blk, N),
         NEW p \in DOMAIN a.blk, NEW c \in DOMAIN a.blk,
         ~a.blk[p].last, c = p + a.blk[p].size,
         NEW e, e = blk_merge(a, p, c)
  PROVE  Table(e) /\ SameTable(a, e) /\ Joined(a.blk, e.blk, p, c)
<1> DEFINE f == a.blk
           w == Without(f, c)
           s == f[p].size + f[c].size
<1> HIDE DEF f, w, s
<1>f. /\ Headers(f) /\ Chain(f, N) /\ p \in DOMAIN f /\ c \in DOMAIN f
      /\ ~f[p].last /\ c = p + f[p].size
  BY Zenon DEF f
<1>1. /\ p \in Nat /\ c \in Nat /\ f[p].size \in Nat /\ f[c].size \in Nat
      /\ f[c].last \in BOOLEAN /\ f[p].last \in BOOLEAN
  BY <1>f, HeaderTypes, Zenon
<1>2. p # c /\ s \in Nat /\ p + s = c + f[c].size /\ c + f[c].size # c
  <2>1. f[p].size >= MINIMUM_BLOCK_SIZE /\ f[c].size >= MINIMUM_BLOCK_SIZE
    BY <1>f, Zenon DEF Chain
  <2>2. MINIMUM_BLOCK_SIZE \in Nat \ {0}
    BY Sizes
  <2>3. QED
    BY <1>1, <1>f, <2>1, <2>2, MergeSums DEF s
<1>3. /\ Headers(w) /\ DOMAIN w = DOMAIN f \ {c}
      /\ \A x \in DOMAIN f \ {c} : w[x] = f[x]
  BY <1>f DEF Without, Headers, w
<1>4. CASE f[c].last
  <2> DEFINE g == ResizeLast(w, p, s)
  <2>1. (f[c].last \/ f[p].last) = TRUE
    BY <1>4
  <2>2. Rewritten(a, e, g)
    BY <1>4, <2>1, Zenon DEF blk_merge, f, w, s, ResizeLast, Rewritten
  <2>3. Resized(w, g, p, s) /\ g[p].last
    BY <1>2, <1>3, <1>f, ResizeEffect, Zenon
  <2> HIDE DEF g
  <2>4. Joined(f, g, p, c)
    <3>1. /\ Headers(g) /\ DOMAIN g = DOMAIN f \ {c} /\ g[p].size = s
          /\ g[p].last <=> f[c].last
      BY <1>3, <1>4, <2>3, Zenon DEF Resized
    <3>2. ASSUME NEW x \in DOMAIN f \ {c}
          PROVE  /\ x # p => g[x].size = f[x].size /\ (g[x].last <=> f[x].last)
                 /\ g[x].free <=> f[x].free
                 /\ g[x].next_free = f[x].next_free /\ g[x].prev_free = f[x].prev_free
                 /\ g[x].prev_physical_block = f[x].prev_physical_block
      BY <1>3, <2>3, Zenon DEF Resized
    <3>3. QED
      BY <1>4, <3>1, <3>2, Zenon DEF Joined, s
  <2>5. QED
    BY <2>2, <2>4, SetBlocks, Zenon DEF f
<1>5. CASE ~f[c].last
  <2> DEFINE h == Resize(w, p, s)
             k == c + f[c].size
             g == SetPhys(h, k, p)
  <2>1. (f[c].last \/ f[p].last) = FALSE
    BY <1>5, <1>f
  <2>2. p + s = k
    BY <1>2, Zenon
  <2>3. Rewritten(a, e, g)
    BY <1>5, <2>1, <2>2, Zenon DEF blk_merge, f, w, s, Resize, SetPhys, Rewritten
  <2>4. Resized(w, h, p, s) /\ ~h[p].last
    BY <1>2, <1>3, <1>f, ResizeEffect, Zenon
  <2>5. k \in DOMAIN f /\ k # c
    BY <1>2, <1>5, <1>f, Zenon DEF Chain
  <2> HIDE DEF h, k
  <2>6. Headers(h) /\ k \in DOMAIN h /\ DOMAIN h = DOMAIN f \ {c}
    BY <1>3, <2>4, <2>5, Zenon DEF Resized
  <2>7. g = SetPhys(h, k, p)
    BY Zenon
  <2> HIDE DEF g
  <2>8. Repointed(h, g, k, p)
    BY <1>1, <2>6, <2>7, SetPhysEffect
  <2>9. g[p].size = s /\ ~g[p].last
    <3>1. p \in DOMAIN h /\ h[p].size = s
      BY <1>2, <1>f, <2>4, <2>6, Zenon DEF Resized
    <3>2. QED
      BY <2>4, <2>8, <3>1, Zenon DEF Repointed
  <2>10. ASSUME NEW x \in DOMAIN f \ {c}
         PROVE  /\ x # p => g[x].size = f[x].size /\ (g[x].last <=> f[x].last)
                /\ g[x].free <=> f[x].free
                /\ g[x].next_free = f[x].next_free /\ g[x].prev_free = f[x].prev_free
                /\ g[x].prev_physical_block = IF x = k THEN p ELSE f[x].prev_physical_block
    <3>1. /\ x # p => h[x].size = f[x].size /\ (h[x].last <=> f[x].last)
          /\ h[x].free <=> f[x].free
          /\ h[x].next_free = f[x].next_free /\ h[x].prev_free = f[x].prev_free
          /\ h[x].prev_physical_block = f[x].prev_physical_block
      BY <1>3, <2>4, Zenon DEF Resized
    <3>2. x \in DOMAIN h
      BY <2>6, Zenon
    <3>3. QED
      BY <2>8, <3>1, <3>2, Zenon DEF Repointed
  <2>11. Joined(f, g, p, c)
    BY <1>5, <2>6, <2>8, <2>9, <2>10, Zenon DEF Joined, Repointed, k, s
  <2>12. QED
    BY <2>3, <2>11, SetBlocks, Zenon DEF f
<1>6. QED
  BY <1>1, <1>4, <1>5, Zenon

\* The lists only depend on sizes and links of the listed blocks.
LEMMA KeepLists ==
  ASSUME NEW a, NEW S, Lists(a, S), NEW e, SameTable(a, e), S \subseteq DOMAIN e.blk,
         \A x \in S : /\ e.blk[x].size = a.blk[x].size
                      /\ e.blk[x].next_free = a.blk[x].next_free
                      /\ e.blk[x].prev_free = a.blk[x].prev_free
  PROVE  Lists(e, S)
<1>1. \A x \in S : Class(e, x) = Class(a, x)
  BY Zenon DEF Class
<1>2. ASSUME NEW c \in Classes PROVE \E n \in Nat : \E L : List(e, S, c, n, L)
  <2>0. PICK n \in Nat : \E L : List(a, S, c, n, L)
    BY Zenon DEF Lists
  <2>1. PICK L : List(a, S, c, n, L)
    BY <2>0, Zenon
  <2>2. List(e, S, c, n, L)
    BY <1>1, <2>1, Zenon DEF List, SameTable
  <2>3. QED
    BY <2>2, Zenon
<1>3. QED
  BY <1>2, Zenon DEF Lists, SameTable

\* The physical chain does not depend on lists and free bits.
LEMMA SameChain ==
  ASSUME NEW a, NEW e, SamePlaces(a, e), NEW N, Chain(a.blk, N)
  PROVE  Chain(e.blk, N)
<1>1. 0 \in DOMAIN e.blk /\ e.blk[0].prev_physical_block = NULL
  BY Zenon DEF Chain, SamePlaces
<1>2. ASSUME NEW b \in DOMAIN e.blk
      PROVE  /\ e.blk[b].size >= MINIMUM_BLOCK_SIZE
             /\ e.blk[b].size % ALIGNMENT_REQUIREMENT = 0
             /\ b % ALIGNMENT_REQUIREMENT = 0
             /\ b + e.blk[b].size <= N
             /\ e.blk[b].last => b + e.blk[b].size = N
             /\ ~e.blk[b].last => /\ b + e.blk[b].size \in DOMAIN e.blk
                                  /\ e.blk[b + e.blk[b].size].prev_physical_block = b
  <2>1. b \in DOMAIN a.blk /\ e.blk[b].size = a.blk[b].size /\ e.blk[b].last = a.blk[b].last
    BY Zenon DEF SamePlaces
  <2>2. /\ a.blk[b].size >= MINIMUM_BLOCK_SIZE
        /\ a.blk[b].size % ALIGNMENT_REQUIREMENT = 0
        /\ b % ALIGNMENT_REQUIREMENT = 0
        /\ b + a.blk[b].size <= N
        /\ a.blk[b].last => b + a.blk[b].size = N
    BY <2>1, Zenon DEF Chain
  <2>3. ASSUME ~a.blk[b].last, NEW k, k = b + a.blk[b].size
        PROVE  k \in DOMAIN e.blk /\ e.blk[k].prev_physical_block = b
    <3>1. k \in DOMAIN a.blk /\ a.blk[k].prev_physical_block = b
      BY <2>1, <2>3, Zenon DEF Chain
    <3>2. QED
      BY <3>1, Zenon DEF SamePlaces
  <2>4. QED
    BY <2>1, <2>2, <2>3, Zenon
<1>3. \A b \in DOMAIN e.blk : b # 0 =>
        /\ e.blk[b].prev_physical_block \in DOMAIN e.blk
        /\ e.blk[b].prev_physical_block + e.blk[e.blk[b].prev_physical_block].size = b
        /\ ~e.blk[e.blk[b].prev_physical_block].last
  BY DEF Chain, SamePlaces
<1>4. \A b, c \in DOMAIN e.blk : b < c => b + e.blk[b].size <= c /\ ~e.blk[b].last
  BY Zenon DEF Chain, SamePlaces
<1>5. \E b \in DOMAIN e.blk : e.blk[b].last
  BY Zenon DEF Chain, SamePlaces
<1>6. QED
  BY <1>1, <1>2, <1>3, <1>4, <1>5, Zenon DEF Chain

\* Dividing a block keeps the physical chain.
LEMMA SplitChain ==
  ASSUME NEW f, Headers(f), NEW N \in Nat, Chain(f, N), NEW b \in DOMAIN f,
         NEW r \in Nat, MINIMUM_BLOCK_SIZE <= r, r + MINIMUM_BLOCK_SIZE <= f[b].size,
         r % ALIGNMENT_REQUIREMENT = 0,
         NEW g, Divided(f, g, b, b + r), b + r \notin DOMAIN f
  PROVE  Chain(g, N)
<1> DEFINE m == b + r
           s == f[b].size
<1>1. /\ b \in Nat /\ s \in Nat /\ m \in Nat /\ m - b = r /\ m # b /\ m # 0 /\ m < b + s
      /\ MINIMUM_BLOCK_SIZE \in Nat /\ m + (s - r) = b + s /\ s - r >= MINIMUM_BLOCK_SIZE
  <2>1. b \in Nat /\ s \in Nat
    BY HeaderTypes, Zenon
  <2>2. QED
    BY <2>1, Sizes
<1>2. DOMAIN f \subseteq Nat /\ \A x \in DOMAIN f : f[x].size \in Nat
  BY Zenon DEF Headers, Header
<1>3. /\ b % ALIGNMENT_REQUIREMENT = 0 /\ s % ALIGNMENT_REQUIREMENT = 0
      /\ b + s <= N /\ (f[b].last => b + s = N)
      /\ ~f[b].last => b + s \in DOMAIN f
  BY Zenon DEF Chain
<1>4. m % ALIGNMENT_REQUIREMENT = 0 /\ (s - r) % ALIGNMENT_REQUIREMENT = 0
  <2>1. ALIGNMENT_REQUIREMENT \in Nat \ {0} /\ r < s
    BY <1>1, Sizes, ConstantTypes
  <2>2. QED
    BY <1>1, <1>3, <2>1, MultipleSum, MultipleDifference, Zenon
<1> HIDE DEF m, s
<1>5. /\ DOMAIN g = DOMAIN f \cup {m}
      /\ g[b].size = r /\ ~g[b].last
      /\ g[m].size = s - r /\ (g[m].last <=> f[b].last)
      /\ g[m].prev_physical_block = b
      /\ \A x \in DOMAIN f : x # b => g[x].size = f[x].size /\ (g[x].last <=> f[x].last)
  BY <1>1, Zenon DEF Divided, m, s
<1>6. \A x \in DOMAIN f : g[x].prev_physical_block =
        IF ~f[b].last /\ x = b + s THEN m ELSE f[x].prev_physical_block
  BY Zenon DEF Divided, m, s
<1>7. m \notin DOMAIN f
  BY Zenon DEF m
<1>8. 0 \in DOMAIN g /\ g[0].prev_physical_block = NULL
  BY <1>1, <1>5, <1>6 DEF Chain
<1>9. ASSUME NEW x \in DOMAIN g
      PROVE  /\ g[x].size >= MINIMUM_BLOCK_SIZE
             /\ g[x].size % ALIGNMENT_REQUIREMENT = 0
             /\ x % ALIGNMENT_REQUIREMENT = 0
             /\ x + g[x].size <= N
             /\ g[x].last => x + g[x].size = N
  <2>1. CASE x = b
    BY <1>1, <1>3, <1>5, <2>1 DEF m
  <2>2. CASE x = m
    BY <1>1, <1>3, <1>4, <1>5, <2>2, Zenon
  <2>3. CASE x # b /\ x # m
    BY <1>5, <2>3 DEF Chain
  <2>4. QED
    BY <2>1, <2>2, <2>3, Zenon
<1>10. ASSUME NEW x \in DOMAIN g, ~g[x].last
       PROVE  /\ x + g[x].size \in DOMAIN g
              /\ g[x + g[x].size].prev_physical_block = x
  <2>1. CASE x = b
    BY <1>5, <2>1, Zenon DEF m
  <2>2. CASE x = m
    BY <1>1, <1>3, <1>5, <1>6, <1>10, <2>2
  <2>3. CASE x # b /\ x # m
    <3>1. /\ x \in DOMAIN f /\ g[x].size = f[x].size /\ x + f[x].size \in DOMAIN f
          /\ f[x + f[x].size].prev_physical_block = x
      BY <1>5, <1>10, <2>3, Zenon DEF Chain
    <3>2. ~f[b].last => f[b + s].prev_physical_block = b
      BY Zenon DEF Chain, s
    <3>3. QED
      BY <1>5, <1>6, <2>3, <3>1, <3>2, Zenon
  <2>4. QED
    BY <2>1, <2>2, <2>3, Zenon
<1>11. ASSUME NEW x \in DOMAIN g, x # 0, NEW p, p = g[x].prev_physical_block
       PROVE  p \in DOMAIN g /\ p + g[p].size = x /\ ~g[p].last
  <2>1. CASE x = m
    BY <1>5, <1>11, <2>1, Zenon DEF m
  <2>2. CASE x # m /\ ~f[b].last /\ x = b + s
    BY <1>1, <1>5, <1>6, <1>11, <2>2, Zenon
  <2>3. CASE x # m /\ ~(~f[b].last /\ x = b + s)
    <3>1. x \in DOMAIN f /\ p = f[x].prev_physical_block
      BY <1>5, <1>6, <1>11, <2>3, Zenon
    <3>2. p \in DOMAIN f /\ p + f[p].size = x /\ ~f[p].last
      BY <1>11, <3>1 DEF Chain
    <3>3. p # b
      BY <2>3, <3>2, Zenon DEF s
    <3>4. QED
      BY <1>5, <3>2, <3>3, Zenon
  <2>4. QED
    BY <2>1, <2>2, <2>3, Zenon
<1>12. ASSUME NEW x \in DOMAIN g, NEW y \in DOMAIN g, x < y
       PROVE  x + g[x].size <= y /\ ~g[x].last
  <2>1. CASE x = b
    <3>1. y \in DOMAIN f => b + s <= y
      BY <1>12, <2>1, Zenon DEF Chain, s
    <3>2. QED
      BY <1>1, <1>2, <1>5, <2>1, <3>1 DEF m
  <2>2. CASE x = m
    <3>1. y \in DOMAIN f /\ b < y
      BY <1>1, <1>2, <1>5, <1>12, <2>2
    <3>2. b + s <= y /\ ~f[b].last
      BY <3>1, Zenon DEF Chain, s
    <3>3. QED
      BY <1>1, <1>5, <2>2, <3>2, Zenon
  <2>3. CASE x # b /\ x # m /\ y = m
    <3>1. x \in DOMAIN f /\ g[x].size = f[x].size /\ (g[x].last <=> f[x].last)
      BY <1>5, <2>3, Zenon
    <3>2. x < b
      <4>1. b < x => b + s <= x
        BY <3>1, Zenon DEF Chain, s
      <4>2. QED
        BY <1>1, <1>2, <1>12, <2>3, <3>1, <4>1
    <3>3. x + f[x].size <= b /\ ~f[x].last
      BY <3>1, <3>2, Zenon DEF Chain
    <3>4. QED
      BY <1>1, <1>2, <2>3, <3>1, <3>3 DEF m
  <2>4. CASE x # b /\ x # m /\ y # m
    BY <1>5, <1>12, <2>4 DEF Chain
  <2>5. QED
    BY <2>1, <2>2, <2>3, <2>4, Zenon
<1>13. \E x \in DOMAIN g : g[x].last
  <2>1. PICK x \in DOMAIN f : f[x].last
    BY Zenon DEF Chain
  <2>2. CASE x = b
    BY <1>5, <2>1, <2>2, Zenon
  <2>3. CASE x # b
    BY <1>5, <2>1, <2>3, Zenon
  <2>4. QED
    BY <2>2, <2>3, Zenon
<1>14. QED
  BY <1>8, <1>9, <1>10, <1>11, <1>12, <1>13, Zenon DEF Chain

\* Joining two neighbours keeps the physical chain.
LEMMA MergeChain ==
  ASSUME NEW f, Headers(f), NEW N \in Nat, Chain(f, N), NEW p \in DOMAIN f,
         NEW c \in DOMAIN f, ~f[p].last, c = p + f[p].size,
         NEW g, Joined(f, g, p, c)
  PROVE  Chain(g, N)
<1> DEFINE s == f[p].size
           t == f[c].size
<1>1. /\ p \in Nat /\ c \in Nat /\ s \in Nat /\ t \in Nat /\ s > 0 /\ t > 0 /\ c # 0
      /\ p < c /\ p + (s + t) = c + t /\ s >= MINIMUM_BLOCK_SIZE /\ s + t >= MINIMUM_BLOCK_SIZE
  BY Sizes DEF Headers, Header, Chain
<1>2. DOMAIN f \subseteq Nat /\ \A x \in DOMAIN f : f[x].size \in Nat
  BY Zenon DEF Headers, Header
<1>3. (s + t) % ALIGNMENT_REQUIREMENT = 0
  <2>1. /\ ALIGNMENT_REQUIREMENT \in Nat \ {0}
        /\ s % ALIGNMENT_REQUIREMENT = 0 /\ t % ALIGNMENT_REQUIREMENT = 0
    BY ConstantTypes, Zenon DEF Chain
  <2>2. QED
    BY <1>1, <2>1, MultipleSum, Zenon
<1>4. /\ f[c].prev_physical_block = p /\ c + t <= N /\ (f[c].last => c + t = N)
      /\ ~f[c].last => c + t \in DOMAIN f /\ f[c + t].prev_physical_block = c
  BY <1>1, Zenon DEF Chain
<1>5. c = p + s
  BY Zenon
<1> HIDE DEF s, t
<1>6. /\ DOMAIN g = DOMAIN f \ {c}
      /\ g[p].size = s + t /\ (g[p].last <=> f[c].last)
      /\ \A x \in DOMAIN f \ {c} :
           x # p => g[x].size = f[x].size /\ (g[x].last <=> f[x].last)
  BY Zenon DEF Joined, s, t
<1>7. \A x \in DOMAIN f \ {c} : g[x].prev_physical_block =
        IF ~f[c].last /\ x = c + t THEN p ELSE f[x].prev_physical_block
  BY Zenon DEF Joined, t
<1>8. 0 \in DOMAIN g /\ g[0].prev_physical_block = NULL
  BY <1>1, <1>6, <1>7 DEF Chain
<1>9. ASSUME NEW x \in DOMAIN g
      PROVE  /\ g[x].size >= MINIMUM_BLOCK_SIZE
             /\ g[x].size % ALIGNMENT_REQUIREMENT = 0
             /\ x % ALIGNMENT_REQUIREMENT = 0
             /\ x + g[x].size <= N
             /\ g[x].last => x + g[x].size = N
  <2>1. CASE x = p
    <3>1. p % ALIGNMENT_REQUIREMENT = 0
      BY Zenon DEF Chain
    <3>2. QED
      BY <1>1, <1>3, <1>4, <1>6, <2>1, <3>1, Zenon
  <2>2. CASE x # p
    BY <1>6, <2>2 DEF Chain
  <2>3. QED
    BY <2>1, <2>2, Zenon
<1>10. ASSUME NEW x \in DOMAIN g, ~g[x].last
       PROVE  /\ x + g[x].size \in DOMAIN g
              /\ g[x + g[x].size].prev_physical_block = x
  <2>1. CASE x = p
    BY <1>1, <1>4, <1>6, <1>7, <1>10, <2>1
  <2>2. CASE x # p
    <3>1. /\ x \in DOMAIN f /\ x # c /\ g[x].size = f[x].size
          /\ x + f[x].size \in DOMAIN f
          /\ f[x + f[x].size].prev_physical_block = x
      BY <1>6, <1>10, <2>2, Zenon DEF Chain
    <3>2. x + f[x].size # c /\ (~f[c].last => x + f[x].size # c + t)
      BY <1>4, <2>2, <3>1, Zenon
    <3>3. QED
      BY <1>6, <1>7, <3>1, <3>2, Zenon
  <2>3. QED
    BY <2>1, <2>2, Zenon
<1>11. ASSUME NEW x \in DOMAIN g, x # 0, NEW q, q = g[x].prev_physical_block
       PROVE  q \in DOMAIN g /\ q + g[q].size = x /\ ~g[q].last
  <2>1. CASE ~f[c].last /\ x = c + t
    BY <1>1, <1>6, <1>7, <1>11, <2>1
  <2>2. CASE ~(~f[c].last /\ x = c + t)
    <3>1. x \in DOMAIN f /\ x # c /\ q = f[x].prev_physical_block
      BY <1>6, <1>7, <1>11, <2>2, Zenon
    <3>2. q \in DOMAIN f /\ q + f[q].size = x /\ ~f[q].last
      BY <1>11, <3>1 DEF Chain
    <3>3. q # c /\ q # p
      BY <1>5, <2>2, <3>1, <3>2, Zenon DEF s, t
    <3>4. QED
      BY <1>6, <3>2, <3>3, Zenon
  <2>3. QED
    BY <2>1, <2>2, Zenon
<1>12. ASSUME NEW x \in DOMAIN g, NEW y \in DOMAIN g, x < y
       PROVE  x + g[x].size <= y /\ ~g[x].last
  <2>1. CASE x = p
    <3>1. c <= y /\ c # y
      <4>1. y \in DOMAIN f /\ y # c /\ p < y
        BY <1>6, <1>12, <2>1, Zenon
      <4>2. p + f[p].size <= y
        BY <4>1, Zenon DEF Chain
      <4>3. QED
        BY <4>1, <4>2, Zenon
    <3>2. y \in DOMAIN f /\ y \in Nat
      BY <1>2, <1>6, Zenon
    <3>3. c < y
      BY <1>1, <3>1, <3>2
    <3>4. c + t <= y /\ ~f[c].last
      BY <3>2, <3>3, Zenon DEF Chain, t
    <3>5. QED
      BY <1>1, <1>6, <2>1, <3>4, Zenon
  <2>2. CASE x # p
    BY <1>6, <1>12, <2>2 DEF Chain
  <2>3. QED
    BY <2>1, <2>2, Zenon
<1>13. \E x \in DOMAIN g : g[x].last
  <2>1. PICK x \in DOMAIN f : f[x].last
    BY Zenon DEF Chain
  <2>2. CASE x = c
    BY <1>1, <1>6, <2>1, <2>2, Zenon
  <2>3. CASE x # c
    BY <1>6, <2>1, <2>3, Zenon
  <2>4. QED
    BY <2>2, <2>3, Zenon
<1>14. QED
  BY <1>8, <1>9, <1>10, <1>11, <1>12, <1>13, Zenon DEF Chain

-----------------------------------------------------------------------------
(* The steps of the interface, on an arena whose lists hold the blocks S. *)

\* The blocks tile N bytes, and those of S are listed.
Shape(a, S, N) ==
  Table(a) /\ Headers(a.blk) /\ Chain(a.blk, N) /\ Lists(a, S)

\* A pool of N bytes has a list for each block it can hold.
PoolSize(N) == N \in Nat /\ N < MAXIMUM_BLOCK_SIZE

\* Every block of the pool has a list: its class is within the arrays of
\* struct rtl_tlsf_arena.
LEMMA ClassInTable ==
  ASSUME NEW a, NEW S, NEW N, PoolSize(N), Shape(a, S, N), NEW b \in DOMAIN a.blk
  PROVE  Class(a, b) \in Classes
<1>1. b \in Nat /\ a.blk[b].size \in Nat /\ b + a.blk[b].size <= N
  BY Zenon DEF Shape, Headers, Header, Chain
<1>2. a.blk[b].size < MAXIMUM_BLOCK_SIZE
  BY <1>1, Sizes DEF PoolSize
<1>3. QED
  BY <1>1, <1>2, InsertInTable, Zenon DEF Class

\* e is a with the same blocks in the same places, of which only b may have
\* changed its free bit.
Marked(a, e, b) ==
  /\ SamePlaces(a, e)
  /\ \A x \in DOMAIN a.blk : x # b => e.blk[x].free = a.blk[x].free

\* tlsf_arena_insert_block on a well-shaped arena.
LEMMA ShapeInsert ==
  ASSUME NEW a, NEW S, NEW N, PoolSize(N), Shape(a, S, N), NEW b \in DOMAIN a.blk \ S,
         NEW e, e = tlsf_arena_insert_block(a, b)
  PROVE  Shape(e, S \cup {b}, N) /\ Marked(a, e, b) /\ e.blk[b].free
<1>1. Class(a, b) \in Classes
  BY ClassInTable, Zenon
<1>2. /\ Table(e) /\ Headers(e.blk) /\ SamePlaces(a, e) /\ Lists(e, S \cup {b})
      /\ e.blk[b].free
      /\ \A x \in DOMAIN a.blk \ {b} : e.blk[x].free = a.blk[x].free
  BY <1>1, InsertLists DEF Shape
<1>3. Chain(e.blk, N)
  BY <1>2, SameChain, Zenon DEF Shape
<1>4. QED
  BY <1>2, <1>3, Zenon DEF Shape, Marked

\* remove_block on a well-shaped arena.
LEMMA ShapeRemove ==
  ASSUME NEW a, NEW S, NEW N, PoolSize(N), Shape(a, S, N), NEW b \in S,
         NEW e, e = remove_block(a, b, Class(a, b))
  PROVE  Shape(e, S \ {b}, N) /\ Marked(a, e, b) /\ ~e.blk[b].free
<1>1. b \in DOMAIN a.blk
  BY Zenon DEF Shape, Lists
<1>2. Class(a, b) \in Classes
  BY <1>1, ClassInTable, Zenon
<1>3. /\ Table(e) /\ Headers(e.blk) /\ SamePlaces(a, e) /\ Lists(e, S \ {b})
      /\ ~e.blk[b].free
      /\ \A x \in DOMAIN a.blk \ {b} : e.blk[x].free = a.blk[x].free
  <2>1. Table(a) /\ Headers(a.blk) /\ Lists(a, S)
    BY Zenon DEF Shape
  <2>2. QED
    BY <1>2, <2>1, RemoveLists
<1>4. Chain(e.blk, N)
  BY <1>3, SameChain, Zenon DEF Shape
<1>5. QED
  BY <1>3, <1>4, Zenon DEF Shape, Marked

\* set_free on a well-shaped arena.
LEMMA ShapeMark ==
  ASSUME NEW a, NEW S, NEW N, Shape(a, S, N), NEW b \in DOMAIN a.blk,
         NEW e, e = set_free(a, b)
  PROVE  Shape(e, S, N) /\ Marked(a, e, b) /\ e.blk[b].free
<1>1. Table(a) /\ Headers(a.blk) /\ S \subseteq DOMAIN a.blk
  BY Zenon DEF Shape, Lists
<1>2. /\ Headers(MarkFree(a.blk, b)) /\ MarkFree(a.blk, b)[b].free
      /\ Relinked(a.blk, MarkFree(a.blk, b), b, a.blk[b].next_free, a.blk[b].prev_free)
  BY <1>1, SetMarks, Zenon
<1>3. Rewritten(a, e, MarkFree(a.blk, b))
  BY <1>1, Zenon DEF set_free, MarkFree, Table, Rewritten
<1>4. Table(e) /\ SameTable(a, e) /\ e.blk = MarkFree(a.blk, b)
  BY <1>1, <1>3, SetBlocks, Zenon
<1>5. SamePlaces(a, e) /\ Marked(a, e, b)
  <2>1. Relinked(a.blk, e.blk, b, a.blk[b].next_free, a.blk[b].prev_free)
    BY <1>2, <1>4, Zenon
  <2>2. SamePlaces(a, e)
    BY <2>1, Zenon DEF Relinked, SamePlaces
  <2>3. QED
    BY <2>1, <2>2, Zenon DEF Relinked, Marked
<1>6. Chain(e.blk, N)
  BY <1>5, SameChain, Zenon DEF Shape
<1>7. Lists(e, S)
  <2>1. S \subseteq DOMAIN e.blk
    BY <1>1, <1>5, Zenon DEF SamePlaces
  <2>2. \A x \in S : /\ e.blk[x].size = a.blk[x].size
                     /\ e.blk[x].next_free = a.blk[x].next_free
                     /\ e.blk[x].prev_free = a.blk[x].prev_free
    BY <1>1, <1>2, <1>4 DEF Relinked
  <2>3. QED
    BY <1>4, <2>1, <2>2, KeepLists, Zenon DEF Shape
<1>8. QED
  BY <1>2, <1>4, <1>5, <1>6, <1>7, Zenon DEF Shape

\* split_blk on a well-shaped arena, for a block that is in no list.
LEMMA ShapeSplit ==
  ASSUME NEW a, NEW S, NEW N, PoolSize(N), Shape(a, S, N), NEW b \in DOMAIN a.blk \ S,
         NEW r \in Nat, MINIMUM_BLOCK_SIZE <= r, r + MINIMUM_BLOCK_SIZE <= a.blk[b].size,
         r % ALIGNMENT_REQUIREMENT = 0,
         NEW e, e = split_blk(a, b, r)
  PROVE  Shape(e, S, N) /\ Divided(a.blk, e.blk, b, b + r) /\ b + r \notin DOMAIN a.blk
<1>1. /\ Table(a) /\ Headers(a.blk) /\ Chain(a.blk, N) /\ S \subseteq DOMAIN a.blk
      /\ b \in DOMAIN a.blk /\ N \in Nat
  BY Zenon DEF Shape, Lists, PoolSize
<1>2. r \in Nat \ {0} /\ r < a.blk[b].size
  BY <1>1, Sizes DEF Headers, Header
<1>3. /\ Table(e) /\ SameTable(a, e) /\ Divided(a.blk, e.blk, b, b + r)
      /\ b + r \notin DOMAIN a.blk
  BY <1>1, <1>2, SplitEffect, Zenon
<1>4. Chain(e.blk, N)
  BY <1>1, <1>3, SplitChain, Zenon
<1>5. Lists(e, S)
  <2>1. S \subseteq DOMAIN e.blk
    BY <1>1, <1>3, Zenon DEF Divided
  <2>2. \A x \in S : /\ e.blk[x].size = a.blk[x].size
                     /\ e.blk[x].next_free = a.blk[x].next_free
                     /\ e.blk[x].prev_free = a.blk[x].prev_free
    BY <1>1, <1>3, Zenon DEF Divided
  <2>3. QED
    BY <1>3, <2>1, <2>2, KeepLists DEF Shape
<1>6. Headers(e.blk)
  BY <1>3, Zenon DEF Divided
<1>7. QED
  BY <1>3, <1>4, <1>5, <1>6, Zenon DEF Shape

\* blk_merge on a well-shaped arena, for blocks that are in no list.
LEMMA ShapeMerge ==
  ASSUME NEW a, NEW S, NEW N, PoolSize(N), Shape(a, S, N),
         NEW p \in DOMAIN a.blk \ S, NEW c \in DOMAIN a.blk \ S,
         ~a.blk[p].last, c = p + a.blk[p].size,
         NEW e, e = blk_merge(a, p, c)
  PROVE  Shape(e, S, N) /\ Joined(a.blk, e.blk, p, c)
<1>1. /\ Table(a) /\ Headers(a.blk) /\ Chain(a.blk, N) /\ S \subseteq DOMAIN a.blk
      /\ p \in DOMAIN a.blk /\ c \in DOMAIN a.blk /\ N \in Nat
  BY Zenon DEF Shape, Lists, PoolSize
<1>2. Table(e) /\ SameTable(a, e) /\ Joined(a.blk, e.blk, p, c)
  BY <1>1, MergeEffect, Zenon
<1>3. Chain(e.blk, N)
  BY <1>1, <1>2, MergeChain, Zenon
<1>4. Lists(e, S)
  <2>1. S \subseteq DOMAIN e.blk
    BY <1>1, <1>2, Zenon DEF Joined
  <2>2. \A x \in S : /\ e.blk[x].size = a.blk[x].size
                     /\ e.blk[x].next_free = a.blk[x].next_free
                     /\ e.blk[x].prev_free = a.blk[x].prev_free
    BY <1>1, <1>2, Zenon DEF Joined
  <2>3. Lists(a, S) /\ SameTable(a, e)
    BY <1>2, Zenon DEF Shape
  <2>4. QED
    BY <2>1, <2>2, <2>3, KeepLists
<1>5. Headers(e.blk)
  BY <1>2, Zenon DEF Joined
<1>6. QED
  BY <1>2, <1>3, <1>4, <1>5, Zenon DEF Shape

\* The free blocks and the blocks in use.
FreeOf(a) == {x \in DOMAIN a.blk : a.blk[x].free}
BusyOf(a) == {x \in DOMAIN a.blk : ~a.blk[x].free}

\* Two free blocks are never neighbours.
Merged(a) ==
  \A x \in FreeOf(a) : ~a.blk[x].last => x + a.blk[x].size \notin FreeOf(a)

\* An arena between two calls.
Good(a, N) == Shape(a, FreeOf(a), N) /\ Merged(a)

\* The body of rtl_tlsf_alloc once it has found a block: the arena is good
\* again, b is the one more block in use, and it is large enough.
LEMMA TakeGood ==
  ASSUME NEW a, NEW N, PoolSize(N), Good(a, N), NEW b \in FreeOf(a),
         NEW size \in Nat, MINIMUM_BLOCK_SIZE <= size, size <= a.blk[b].size,
         size % ALIGNMENT_REQUIREMENT = 0,
         NEW e, e = Take(a, Class(a, b), b, size)
  PROVE  /\ Good(e, N) /\ BusyOf(e) = BusyOf(a) \cup {b}
         /\ \A x \in BusyOf(a) : e.blk[x].size = a.blk[x].size
         /\ e.blk[b].size >= size
<1> DEFINE S == FreeOf(a)
           d == remove_block(a, b, Class(a, b))
<1>1. /\ Shape(a, S, N) /\ Merged(a) /\ S \subseteq DOMAIN a.blk /\ b \in DOMAIN a.blk
      /\ \A x \in DOMAIN a.blk : a.blk[x].free <=> x \in S
  BY Zenon DEF Good, FreeOf
<1>2. Shape(d, S \ {b}, N) /\ Marked(a, d, b) /\ ~d.blk[b].free
  BY <1>1, ShapeRemove, Zenon
<1>3. e = IF a.blk[b].size >= size + MINIMUM_BLOCK_SIZE
            THEN tlsf_arena_insert_block(split_blk(d, b, size), b + size) ELSE d
  BY Zenon DEF Take
<1>4. \A x \in DOMAIN a.blk : x \in BusyOf(a) <=> x \notin S
  BY Zenon DEF BusyOf, FreeOf
<1> HIDE DEF S, d
<1>5. /\ DOMAIN d.blk = DOMAIN a.blk
      /\ \A x \in DOMAIN a.blk : /\ d.blk[x].size = a.blk[x].size
                                 /\ d.blk[x].last = a.blk[x].last
                                 /\ d.blk[x].free <=> x \in S \ {b}
  BY <1>1, <1>2, Zenon DEF Marked, SamePlaces
<1>6. CASE ~(a.blk[b].size >= size + MINIMUM_BLOCK_SIZE)
  <2>1. e = d
    BY <1>3, <1>6, Zenon
  <2>2. FreeOf(e) = S \ {b}
    BY <1>1, <1>5, <2>1, Zenon DEF FreeOf
  <2>3. BusyOf(e) = BusyOf(a) \cup {b}
    BY <1>1, <1>4, <1>5, <2>1, Zenon DEF BusyOf
  <2>4. Merged(e)
    BY <1>1, <1>5, <2>1, <2>2, Zenon DEF Merged, S
  <2>5. QED
    BY <1>1, <1>2, <1>5, <2>1, <2>2, <2>3, <2>4, Zenon DEF Good, BusyOf
<1>7. CASE a.blk[b].size >= size + MINIMUM_BLOCK_SIZE
  <2> DEFINE g == split_blk(d, b, size)
             m == b + size
  <2>1. /\ b \in Nat /\ a.blk[b].size \in Nat /\ size + MINIMUM_BLOCK_SIZE <= d.blk[b].size
        /\ MINIMUM_BLOCK_SIZE \in Nat
    BY <1>1, <1>5, <1>7, Sizes, Zenon DEF Shape, Headers, Header
  <2>2. b \in DOMAIN d.blk \ (S \ {b})
    BY <1>1, <1>5, Zenon
  <2>3. Shape(g, S \ {b}, N) /\ Divided(d.blk, g.blk, b, m) /\ m \notin DOMAIN d.blk
    BY <1>2, <2>1, <2>2, ShapeSplit, Zenon
  <2> HIDE DEF g
  <2>4. m \in DOMAIN g.blk \ (S \ {b})
    BY <1>1, <1>5, <2>3, Zenon DEF Divided
  <2>5. e = tlsf_arena_insert_block(g, m)
    BY <1>3, <1>7, Zenon DEF g
  <2>6. Shape(e, (S \ {b}) \cup {m}, N) /\ Marked(g, e, m) /\ e.blk[m].free
    BY <2>3, <2>4, <2>5, ShapeInsert, Zenon
  <2> HIDE DEF m
  <2>7. /\ DOMAIN e.blk = DOMAIN a.blk \cup {m} /\ m \notin DOMAIN a.blk
        /\ \A x \in DOMAIN a.blk :
             /\ x # b => e.blk[x].size = a.blk[x].size /\ (e.blk[x].last <=> a.blk[x].last)
             /\ e.blk[x].free <=> x \in S \ {b}
    <3>1. /\ DOMAIN e.blk = DOMAIN g.blk
          /\ \A x \in DOMAIN g.blk :
               /\ e.blk[x].size = g.blk[x].size /\ (e.blk[x].last <=> g.blk[x].last)
               /\ x # m => (e.blk[x].free <=> g.blk[x].free)
      BY <2>6, Zenon DEF Marked, SamePlaces
    <3>2. /\ DOMAIN g.blk = DOMAIN d.blk \cup {m}
          /\ \A x \in DOMAIN d.blk :
               /\ x # b => g.blk[x].size = d.blk[x].size /\ (g.blk[x].last <=> d.blk[x].last)
               /\ g.blk[x].free <=> d.blk[x].free
      BY <2>3, Zenon DEF Divided
    <3>3. DOMAIN e.blk = DOMAIN a.blk \cup {m} /\ m \notin DOMAIN a.blk
      BY <1>5, <2>3, <3>1, <3>2, Zenon
    <3>4. ASSUME NEW x \in DOMAIN a.blk
          PROVE  /\ x # b => e.blk[x].size = a.blk[x].size /\ (e.blk[x].last <=> a.blk[x].last)
                 /\ e.blk[x].free <=> x \in S \ {b}
      <4>1. x \in DOMAIN d.blk /\ x \in DOMAIN g.blk /\ x # m
        BY <1>5, <3>2, <3>3, Zenon
      <4>2. QED
        BY <1>5, <3>1, <3>2, <4>1, Zenon
    <3>5. QED
      BY <3>3, <3>4, Zenon
  <2>8. /\ e.blk[b].size = size /\ e.blk[m].size = a.blk[b].size - size
        /\ e.blk[m].last <=> a.blk[b].last
        /\ m + (a.blk[b].size - size) = b + a.blk[b].size /\ b + size = m
    <3>1. m - b = size /\ b + size = m
          /\ m + (a.blk[b].size - size) = b + a.blk[b].size
      BY <2>1 DEF m
    <3>2. /\ e.blk[b].size = g.blk[b].size /\ e.blk[m].size = g.blk[m].size
          /\ e.blk[m].last <=> g.blk[m].last
      <4>1. b \in DOMAIN g.blk /\ m \in DOMAIN g.blk
        BY <1>1, <1>5, <2>3, Zenon DEF Divided
      <4>2. QED
        BY <2>6, <4>1, Zenon DEF Marked, SamePlaces
    <3>3. /\ g.blk[b].size = m - b /\ g.blk[m].size = d.blk[b].size - (m - b)
          /\ g.blk[m].last <=> d.blk[b].last
      BY <2>3, Zenon DEF Divided
    <3>4. d.blk[b].size = a.blk[b].size /\ (d.blk[b].last <=> a.blk[b].last)
      BY <1>1, <1>5, Zenon
    <3>5. QED
      BY <3>1, <3>2, <3>3, <3>4, Zenon
  <2>9. FreeOf(e) = (S \ {b}) \cup {m}
    BY <1>1, <2>6, <2>7, Zenon DEF FreeOf
  <2>10. BusyOf(e) = BusyOf(a) \cup {b}
    BY <1>1, <1>4, <2>6, <2>7, Zenon DEF BusyOf
  <2>11. Merged(e)
    <3>1. SUFFICES ASSUME NEW x \in (S \ {b}) \cup {m}, ~e.blk[x].last
                   PROVE  x + e.blk[x].size \notin (S \ {b}) \cup {m}
      BY <2>9, Zenon DEF Merged
    <3>2. CASE x = m
      <4>1. ~a.blk[b].last /\ b \in S
        BY <2>8, <3>1, <3>2, Zenon DEF S
      <4>2. b + a.blk[b].size \notin S /\ b + a.blk[b].size \in DOMAIN a.blk
        BY <1>1, <4>1, Zenon DEF Merged, S, Shape, Chain
      <4>3. QED
        BY <2>7, <2>8, <3>2, <4>2
    <3>3. CASE x # m
      <4>1. x \in S /\ x # b /\ x \in DOMAIN a.blk /\ ~a.blk[x].last
            /\ e.blk[x].size = a.blk[x].size
        BY <1>1, <2>7, <3>1, <3>3, Zenon
      <4>2. x + a.blk[x].size \notin S /\ x + a.blk[x].size \in DOMAIN a.blk
        BY <1>1, <4>1, Zenon DEF Merged, S, Shape, Chain
      <4>3. QED
        BY <2>7, <4>1, <4>2, Zenon
    <3>4. QED
      BY <3>2, <3>3, Zenon
  <2>12. \A x \in BusyOf(a) : e.blk[x].size = a.blk[x].size
    BY <1>1, <1>4, <2>7, Zenon DEF BusyOf, S
  <2>13. e.blk[b].size >= size
    <3>1. size >= size
      OBVIOUS
    <3>2. QED
      BY <2>8, <3>1, Zenon
  <2>14. QED
    BY <2>6, <2>9, <2>10, <2>11, <2>12, <2>13, Zenon DEF Good
<1>8. QED
  BY <1>6, <1>7, Zenon

=============================================================================
