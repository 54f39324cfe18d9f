-------------------------- MODULE RingBufferProofs --------------------------
(***************************************************************************)
(* Proofs about RingBuffer for every capacity, every set of sizes and any  *)
(* number of bytes.  The inductive invariant is IInv.                      *)
(***************************************************************************)
EXTENDS RingBuffer, TLAPS

IInv == TypeOK /\ IndicesTrackBytes /\ UnreadIntact /\ DecisionsHold

-----------------------------------------------------------------------------
(* Arithmetic of the indices. *)

\* A remainder by m of a number below 2 * m needs no division.
LEMMA SmallMod ==
  ASSUME NEW m \in Nat \ {0}, NEW x \in 0 .. (2 * m - 1)
  PROVE  x % m = IF x < m THEN x ELSE x - m
  OBVIOUS

\* Advancing an index by less than the capacity goes to the slot that many
\* places further on: the sum does not overflow uint32_t.
LEMMA AdvanceIsSlot ==
  ASSUME NEW i \in Slots, NEW n \in Slots
  PROVE  Advance(i, n) = Slot(i, n) /\ Slot(i, n) \in Slots
<1>1. i + n \in 0 .. (2 * m_capacity - 1) /\ i + n < UINT_MOD
  BY RingConstants DEF Slots
<1>2. (i + n) % UINT_MOD = i + n
  BY <1>1, SmallMod, RingConstants
<1>3. (i + n) % m_capacity = IF i + n < m_capacity THEN i + n ELSE (i + n) - m_capacity
  BY <1>1, SmallMod, RingConstants
<1>4. QED
  BY <1>1, <1>2, <1>3, RingConstants DEF Advance, Slot, Slots

-----------------------------------------------------------------------------
(* Facts of a state in which the indices track the bytes. *)

\* get_bytes_written applied to the two indices is the number of unread bytes.
LEMMA BytesWrittenIsUnread ==
  ASSUME TypeOK, IndicesTrackBytes
  PROVE  BytesWritten = Unread /\ SpaceLeft = m_writable_capacity - Unread
  BY RingConstants
  DEF TypeOK, IndicesTrackBytes, BytesWritten, SpaceLeft, get_bytes_written,
      m_writable_capacity, Slot, Slots, Unread

\* alloc_contig never gives more than is free; up to the end of the buffer it
\* gives exactly what lies before the end.
LEMMA ContigFreeFits ==
  ASSUME TypeOK, IndicesTrackBytes
  PROVE  /\ ContigFree(m_write_index, m_read_index) \in 0 .. (m_writable_capacity - Unread)
         /\ FreeUpToEnd(m_write_index, m_read_index) =>
              ContigFree(m_write_index, m_read_index) = m_capacity - m_write_index
  BY RingConstants
  DEF TypeOK, IndicesTrackBytes, ContigFree, FreeUpToEnd,
      m_writable_capacity, Slot, Slots, Unread

\* read_contig gives unread bytes that do not wrap.
LEMMA ContigUsedFits ==
  ASSUME TypeOK, IndicesTrackBytes
  PROVE  /\ ContigUsed(m_write_index, m_read_index) \in 0 .. Unread
         /\ m_read_index + ContigUsed(m_write_index, m_read_index) <= m_capacity
  BY RingConstants
  DEF TypeOK, IndicesTrackBytes, ContigUsed, m_writable_capacity, Slot, Slots, Unread

\* compound_alloc_contig gives all the free space.
LEMMA CompoundFits ==
  ASSUME TypeOK, IndicesTrackBytes
  PROVE  CompoundCoversFreeSpace
  BY RingConstants
  DEF TypeOK, IndicesTrackBytes, CompoundCoversFreeSpace, CompoundSizes, ContigFree,
      get_bytes_written, m_writable_capacity, Slot, Slots, Unread

-----------------------------------------------------------------------------
(* The two ways an index moves. *)

\* The writer fills slots that hold no unread byte, among them the next n in
\* order, and moves its index over them.
LEMMA PublishStep ==
  ASSUME TypeOK, IndicesTrackBytes, UnreadIntact,
         NEW S, NEW amt \in Slots, NEW n \in 0 .. amt,
         amt <= m_writable_capacity - Unread,
         \A k \in 0 .. (amt - 1) : Slot(m_write_index, k) \in S,
         \A k \in 0 .. (Unread - 1) : Slot(m_read_index, k) \notin S,
         m_buf' = Fill(S, amt), m_write_index' = Slot(m_write_index, n),
         sent' = sent + n, got' = got, m_read_index' = m_read_index
  PROVE  /\ m_buf' \in [Slots -> Nat \cup {Junk}]
         /\ m_write_index' \in Slots /\ sent' \in Nat
         /\ IndicesTrackBytes' /\ UnreadIntact'
<1>1. m_write_index' \in Slots /\ sent' \in Nat
  BY RingConstants DEF TypeOK, Slot, Slots
<1>2. m_buf' \in [Slots -> Nat \cup {Junk}]
  BY RingConstants DEF TypeOK, Fill, Ahead, Slots
<1>3. Unread' = Unread + n /\ Unread \in Nat
  BY DEF Unread, TypeOK, IndicesTrackBytes, Slots
<1>4. IndicesTrackBytes'
  BY <1>3, RingConstants
  DEF TypeOK, IndicesTrackBytes, Slot, Slots, m_writable_capacity
<1>5. ASSUME NEW k \in 0 .. (Unread' - 1)
      PROVE  m_buf'[Slot(m_read_index, k)] = got + k
  <2>1. k \in Int /\ Slot(m_read_index, k) \in Slots
    BY <1>3, RingConstants DEF TypeOK, IndicesTrackBytes, Slot, Slots, m_writable_capacity
  <2>2. CASE k < Unread
    BY <2>1, <2>2, <1>3 DEF Fill, UnreadIntact
  <2>3. CASE k >= Unread
    <3>1. /\ k - Unread \in 0 .. (amt - 1)
          /\ Slot(m_write_index, k - Unread) = Slot(m_read_index, k)
          /\ Ahead(Slot(m_read_index, k), m_write_index) = k - Unread
      BY <2>1, <2>3, <1>3, RingConstants
      DEF TypeOK, IndicesTrackBytes, Slot, Slots, m_writable_capacity, Ahead
    <3>2. m_buf'[Slot(m_read_index, k)] = sent + (k - Unread)
      BY <2>1, <3>1, <1>3 DEF Fill, Slots
    <3>3. QED
      BY <2>1, <3>2 DEF Unread, TypeOK
  <2>4. QED
    BY <2>1, <2>2, <2>3, <1>3
<1>6. QED
  BY <1>1, <1>2, <1>4, <1>5 DEF UnreadIntact

\* The reader moves its index over n unread bytes.
LEMMA ConsumeStep ==
  ASSUME TypeOK, IndicesTrackBytes, UnreadIntact,
         NEW n \in 0 .. Unread,
         m_buf' = m_buf, m_write_index' = m_write_index, sent' = sent,
         got' = got + n, m_read_index' = Slot(m_read_index, n)
  PROVE  /\ m_read_index' \in Slots /\ got' \in Nat
         /\ IndicesTrackBytes' /\ UnreadIntact'
<1>1. m_read_index' \in Slots /\ got' \in Nat /\ n \in Nat
  BY RingConstants
  DEF TypeOK, Slot, Slots, Unread, IndicesTrackBytes, m_writable_capacity
<1>2. Unread' = Unread - n /\ Unread \in Nat
  BY <1>1 DEF Unread, TypeOK, IndicesTrackBytes, Slots
<1>3. IndicesTrackBytes'
  BY <1>2, <1>1, RingConstants
  DEF TypeOK, IndicesTrackBytes, Slot, Slots, m_writable_capacity
<1>4. ASSUME NEW k \in 0 .. (Unread' - 1)
      PROVE  m_buf[Slot(m_read_index', k)] = got' + k
  <2>1. /\ k + n \in 0 .. (Unread - 1)
        /\ Slot(m_read_index', k) = Slot(m_read_index, k + n)
        /\ got' + k = got + (k + n)
    BY <1>2, <1>1, RingConstants
    DEF TypeOK, IndicesTrackBytes, Slot, Slots, m_writable_capacity
  <2>2. QED
    BY <2>1 DEF UnreadIntact
<1>5. QED
  BY <1>1, <1>3, <1>4 DEF UnreadIntact

-----------------------------------------------------------------------------
(* The inductive invariant. *)

\* A thread between two calls is in a proper state.
LEMMA IdleType == Idle \in ThreadState
  BY RingConstants DEF Idle, Doing, ThreadState, Slots

\* The constructor leaves an empty ring with both indices at 0.
LEMMA InitIInv == Init => IInv
  BY RingConstants, IdleType
  DEF Init, IInv, TypeOK, IndicesTrackBytes, UnreadIntact, DecisionsHold, Unread,
      Slots, Slot, Idle, Doing, m_writable_capacity

\* Steps of the writing thread that only decide something.
LEMMA DecideProducer ==
  ASSUME IInv,
         UNCHANGED <<m_buf, m_write_index, m_read_index, cons, sent, got>>,
         prod' \in ThreadState,
         prod'.pc \in {"checked", "granted"} =>
           prod'.n <= m_writable_capacity - Unread,
         prod'.pc = "granted" /\ prod'.end =>
           /\ m_write_index >= m_read_index /\ m_read_index # 0
           /\ prod'.n = m_capacity - m_write_index,
         prod'.pc = "copy" =>
           /\ prod'.other = m_read_index
           /\ prod'.n <= m_writable_capacity - Unread
           /\ prod'.adv = prod'.n
  PROVE  IInv'
<1>1. TypeOK' /\ IndicesTrackBytes' /\ UnreadIntact' /\ Unread' = Unread
  BY DEF IInv, TypeOK, IndicesTrackBytes, UnreadIntact, Unread
<1>2. get_bytes_written(m_write_index, m_read_index) = Unread /\ Unread \in Int
  BY BytesWrittenIsUnread DEF IInv, BytesWritten, Unread, TypeOK
<1>3. DecisionsHold'
  BY <1>1, <1>2 DEF IInv, DecisionsHold
<1>4. QED
  BY <1>1, <1>3 DEF IInv

\* Steps of the reading thread that only decide something.
LEMMA DecideConsumer ==
  ASSUME IInv,
         UNCHANGED <<m_buf, m_write_index, m_read_index, prod, sent, got>>,
         cons' \in ThreadState,
         cons'.pc \in {"checked", "granted"} => cons'.n <= Unread,
         cons'.pc = "granted" => m_read_index + cons'.n <= m_capacity,
         cons'.pc = "copy" => cons'.other = m_write_index /\ cons'.n <= Unread
  PROVE  IInv'
<1>1. TypeOK' /\ IndicesTrackBytes' /\ UnreadIntact' /\ Unread' = Unread
  BY DEF IInv, TypeOK, IndicesTrackBytes, UnreadIntact, Unread
<1>2. get_bytes_written(m_write_index, m_read_index) = Unread /\ Unread \in Int
  BY BytesWrittenIsUnread DEF IInv, BytesWritten, Unread, TypeOK
<1>3. DecisionsHold'
  BY <1>1, <1>2 DEF IInv, DecisionsHold
<1>4. QED
  BY <1>1, <1>3 DEF IInv

\* Publishing n more bytes leaves the reader's decisions good.
LEMMA PublishKeepsReader ==
  ASSUME TypeOK, DecisionsHold, NEW n \in Nat,
         sent' = sent + n, got' = got, m_read_index' = m_read_index,
         cons' = cons, prod' = Idle
  PROVE  DecisionsHold'
<1>1. Unread' = Unread + n /\ Unread \in Int
  BY DEF Unread, TypeOK
<1>2. cons.n \in Int /\ cons.other \in Int /\ m_read_index \in Int
  BY RingConstants DEF TypeOK, ThreadState, Slots
<1>3. prod'.pc = "idle"
  BY DEF Idle, Doing
<1>4. cons.pc = "copy" => get_bytes_written(cons.other, m_read_index) \in Int
  BY <1>2, RingConstants DEF get_bytes_written, m_writable_capacity
<1>5. QED
  BY <1>1, <1>2, <1>3, <1>4 DEF DecisionsHold

\* The writer's copy covers the next n slots and no unread byte.
LEMMA CopySlots ==
  ASSUME IInv, prod.pc = "copy"
  PROVE  LET S == WrittenSlots(m_write_index, prod.other, prod.n)
         IN  /\ \A k \in 0 .. (prod.n - 1) : Slot(m_write_index, k) \in S
             /\ \A k \in 0 .. (Unread - 1) : Slot(m_read_index, k) \notin S
             /\ prod.n <= m_writable_capacity - Unread
             /\ prod.adv = prod.n
<1> DEFINE S == WrittenSlots(m_write_index, prod.other, prod.n)
<1> USE RingConstants
<1>1. /\ m_write_index \in Slots /\ m_read_index \in Slots
      /\ prod.other \in Slots /\ prod.n \in Slots /\ Unread \in Int
  BY DEF IInv, TypeOK, ThreadState, Unread
<1>2. /\ Unread <= get_bytes_written(m_write_index, prod.other)
      /\ prod.n <= m_writable_capacity - get_bytes_written(m_write_index, prod.other)
      /\ prod.adv = prod.n
  BY DEF IInv, DecisionsHold
<1>3. m_write_index = Slot(m_read_index, Unread)
      /\ Unread >= 0 /\ Unread <= m_writable_capacity
  BY DEF IInv, IndicesTrackBytes
<1>4. prod.n <= m_writable_capacity - Unread
  BY <1>1, <1>2, <1>3 DEF get_bytes_written, Slots, m_writable_capacity
<1>5. CASE m_write_index >= prod.other
  <2> DEFINE b == prod.n - (m_capacity - m_write_index)
  <2>1. S = (m_write_index .. (m_capacity - 1))
              \cup (0 .. ((IF b < 0 THEN 0 ELSE b) - 1))
    BY <1>1, <1>5 DEF WrittenSlots, WrapChunks, Slots, m_writable_capacity
  <2>2. \A k \in 0 .. (prod.n - 1) : Slot(m_write_index, k) \in S
    BY <1>1, <1>2, <2>1 DEF Slot, Slots
  <2>3. \A k \in 0 .. (Unread - 1) : Slot(m_read_index, k) \notin S
    BY <1>1, <1>2, <1>3, <1>5, <2>1
    DEF Slot, Slots, get_bytes_written, m_writable_capacity
  <2>4. QED
    BY <1>2, <1>4, <2>2, <2>3
<1>6. CASE m_write_index < prod.other
  <2>1. S = m_write_index .. (m_write_index + prod.n - 1)
    BY <1>1, <1>6 DEF WrittenSlots, Slots
  <2>2. \A k \in 0 .. (prod.n - 1) : Slot(m_write_index, k) \in S
    BY <1>1, <1>2, <1>6, <2>1
    DEF Slot, Slots, get_bytes_written, m_writable_capacity
  <2>3. prod.n <= prod.other - m_write_index - 1
    BY <1>1, <1>2, <1>6 DEF Slots, get_bytes_written, m_writable_capacity
  <2>4. \A k \in 0 .. (Unread - 1) :
           Slot(m_read_index, k) < m_write_index \/ Slot(m_read_index, k) >= prod.other
    <3>1. Unread <= m_capacity - prod.other + m_write_index
      BY <1>1, <1>2, <1>6 DEF Slots, get_bytes_written, m_writable_capacity
    <3>2. CASE m_read_index + Unread < m_capacity
      BY <1>1, <1>3, <3>2 DEF Slot, Slots
    <3>3. CASE m_read_index + Unread >= m_capacity
      BY <1>1, <1>3, <3>1, <3>3 DEF Slot, Slots
    <3>4. QED
      BY <1>1, <3>2, <3>3 DEF Slots
  <2>5. \A k \in 0 .. (Unread - 1) : Slot(m_read_index, k) \notin S
    BY <1>1, <2>1, <2>3, <2>4 DEF Slots
  <2>6. QED
    BY <1>2, <1>4, <2>2, <2>5
<1>7. QED
  BY <1>1, <1>5, <1>6 DEF Slots

\* The slots alloc_contig and compound_alloc_contig gave away hold no unread
\* byte.
LEMMA GrantSlots ==
  ASSUME IInv, prod.pc = "granted"
  PROVE  /\ \A k \in 0 .. (prod.n - 1) : Slot(m_write_index, k) \in GrantedSlots
         /\ \A k \in 0 .. (Unread - 1) : Slot(m_read_index, k) \notin GrantedSlots
<1> USE RingConstants
<1>1. /\ m_write_index \in Slots /\ m_read_index \in Slots
      /\ prod.n \in Slots /\ Unread \in Int
  BY DEF IInv, TypeOK, ThreadState, Unread
<1>2. prod.n <= m_writable_capacity - Unread
  BY DEF IInv, DecisionsHold
<1>3. m_write_index = Slot(m_read_index, Unread)
      /\ Unread >= 0 /\ Unread <= m_writable_capacity
  BY DEF IInv, IndicesTrackBytes
<1>4. QED
  BY <1>1, <1>2, <1>3 DEF GrantedSlots, Ahead, Slot, Slots, m_writable_capacity

-----------------------------------------------------------------------------
(* One lemma per operation: it keeps the inductive invariant. *)

\* What approx_free_bytes reports is free.
LEMMA approx_free_bytes_IInv == ASSUME IInv, approx_free_bytes PROVE IInv'
<1>1. SpaceLeft = m_writable_capacity - Unread /\ SpaceLeft \in Slots
  BY BytesWrittenIsUnread, RingConstants
  DEF IInv, IndicesTrackBytes, TypeOK, Unread, m_writable_capacity, Slots
<1>2. prod' \in ThreadState /\ prod'.pc = "checked" /\ prod'.n = SpaceLeft
  BY <1>1, RingConstants DEF approx_free_bytes, Doing, ThreadState, Slots
<1>3. prod'.n <= m_writable_capacity - Unread
  BY <1>1, <1>2 DEF Slots
<1>4. QED
  BY <1>2, <1>3, DecideProducer DEF approx_free_bytes

\* write copies only what fits behind the indices it has loaded, and then
\* advances by what it copies.
LEMMA write_IInv ==
  ASSUME IInv, NEW sz \in Sizes, write(sz) PROVE IInv'
<1>1. SpaceLeft = m_writable_capacity - Unread /\ SpaceLeft \in Int
  BY BytesWrittenIsUnread, RingConstants
  DEF IInv, TypeOK, Unread, m_writable_capacity
<1>2. CASE prod' = Idle
  BY <1>2, IdleType, DecideProducer DEF write, Idle, Doing
<1>3. CASE prod' # Idle
  <2>0. /\ ~(sz > m_writable_capacity \/ sz = 0 \/ sz > SpaceLeft)
        /\ prod' = Doing("copy", m_read_index, sz, sz, FALSE)
    BY <1>3 DEF write
  <2>1. sz \in Slots /\ sz <= SpaceLeft
    BY <1>1, <2>0, RingConstants DEF Slots, m_writable_capacity
  <2>2. prod' \in ThreadState /\ prod'.pc = "copy" /\ prod'.other = m_read_index
        /\ prod'.n = sz /\ prod'.adv = sz
    BY <2>0, <2>1, RingConstants DEF IInv, TypeOK, Doing, ThreadState, Slots
  <2>3. QED
    BY <1>1, <2>1, <2>2, DecideProducer DEF write
<1>4. QED
  BY <1>2, <1>3

\* write_bytes, given no more than approx_free_bytes reported, truncates
\* nothing: it advances by what it copies.
LEMMA write_bytes_IInv ==
  ASSUME CheckedWriter, IInv, NEW sz \in Sizes, write_bytes(sz) PROVE IInv'
<1>1. SpaceLeft = m_writable_capacity - Unread /\ SpaceLeft \in Int
  BY BytesWrittenIsUnread, RingConstants
  DEF IInv, TypeOK, Unread, m_writable_capacity
<1>2. CASE prod' = Idle
  BY <1>2, IdleType, DecideProducer DEF write_bytes, Idle, Doing
<1>3. CASE prod' # Idle
  <2>1. sz <= SpaceLeft /\ sz \in Slots
    BY <1>1, RingConstants
    DEF write_bytes, IInv, DecisionsHold, TypeOK, ThreadState, Slots,
        IndicesTrackBytes, Unread, m_writable_capacity
  <2>2. Min2(sz, m_writable_capacity) = sz /\ Min2(sz, SpaceLeft) = sz
    BY <2>1, RingConstants DEF Min2, Slots, m_writable_capacity
  <2>3. prod' = Doing("copy", m_read_index, sz, sz, FALSE)
    BY <1>3, <2>2 DEF write_bytes
  <2>4. prod' \in ThreadState /\ prod'.pc = "copy" /\ prod'.other = m_read_index
        /\ prod'.n = sz /\ prod'.adv = sz
    BY <2>1, <2>3, RingConstants DEF IInv, TypeOK, Doing, ThreadState, Slots
  <2>5. QED
    BY <1>1, <2>1, <2>4, DecideProducer DEF write_bytes
<1>4. QED
  BY <1>2, <1>3

\* What alloc_contig grants is free, and end_of_buffer means that it reaches
\* the end of the buffer.
LEMMA alloc_contig_IInv ==
  ASSUME IInv, NEW sz \in Sizes, alloc_contig(sz) PROVE IInv'
<1> DEFINE largest == ContigFree(m_write_index, m_read_index)
<1>1. /\ largest \in 0 .. (m_writable_capacity - Unread)
      /\ FreeUpToEnd(m_write_index, m_read_index) => largest = m_capacity - m_write_index
  BY ContigFreeFits DEF IInv
<1>2. /\ Min2(sz, largest) \in Slots
      /\ Min2(sz, largest) <= m_writable_capacity - Unread
      /\ largest < sz => Min2(sz, largest) = largest
  BY <1>1, RingConstants
  DEF Min2, Slots, IInv, IndicesTrackBytes, TypeOK, Unread, m_writable_capacity
<1> HIDE DEF largest
<1>3. prod' = Doing("granted", 0, Min2(sz, largest), sz,
                  largest < sz /\ FreeUpToEnd(m_write_index, m_read_index))
  BY DEF alloc_contig, largest
<1>4. /\ prod' \in ThreadState /\ prod'.pc = "granted" /\ prod'.n = Min2(sz, largest)
      /\ prod'.end = (largest < sz /\ FreeUpToEnd(m_write_index, m_read_index))
  BY <1>2, <1>3, RingConstants DEF Doing, ThreadState, Slots, FreeUpToEnd
<1>5. QED
  BY <1>1, <1>2, <1>4, DecideProducer DEF alloc_contig, FreeUpToEnd

\* The two blocks of compound_alloc_contig together are free.
LEMMA compound_alloc_contig_IInv ==
  ASSUME IInv, compound_alloc_contig PROVE IInv'
<1> DEFINE sz == CompoundSizes(m_write_index, m_read_index)
<1>1. sz[1] + sz[2] = m_writable_capacity - Unread
  BY CompoundFits DEF IInv, CompoundCoversFreeSpace
<1>2. m_writable_capacity - Unread \in Slots
  BY RingConstants
  DEF IInv, IndicesTrackBytes, TypeOK, Unread, m_writable_capacity, Slots
<1> HIDE DEF sz
<1>3. prod' = Doing("granted", 0, sz[1] + sz[2], sz[1] + sz[2], FALSE)
  BY DEF compound_alloc_contig, sz
<1>4. prod' \in ThreadState /\ prod'.pc = "granted" /\ ~prod'.end
      /\ prod'.n = m_writable_capacity - Unread
  BY <1>1, <1>2, <1>3, RingConstants DEF Doing, ThreadState, Slots
<1>5. prod'.n <= m_writable_capacity - Unread
  BY <1>2, <1>4 DEF Slots
<1>6. QED
  BY <1>4, <1>5, DecideProducer DEF compound_alloc_contig

\* The copy of priv_write and the store of the write index keep all unread
\* bytes and add the new ones behind them.
LEMMA WriteEnd_IInv == ASSUME IInv, WriteEnd PROVE IInv'
<1> DEFINE S == WrittenSlots(m_write_index, prod.other, prod.n)
<1>1. prod.n \in Slots /\ m_write_index \in Slots
  BY DEF IInv, TypeOK, ThreadState
<1>2. /\ \A k \in 0 .. (prod.n - 1) : Slot(m_write_index, k) \in S
      /\ \A k \in 0 .. (Unread - 1) : Slot(m_read_index, k) \notin S
      /\ prod.n <= m_writable_capacity - Unread
      /\ prod.adv = prod.n
  BY CopySlots DEF WriteEnd
<1>3. /\ m_buf' = Fill(S, prod.n) /\ m_write_index' = Slot(m_write_index, prod.n)
      /\ sent' = sent + prod.n /\ got' = got /\ m_read_index' = m_read_index
      /\ cons' = cons /\ prod' = Idle
  BY <1>1, <1>2, AdvanceIsSlot DEF WriteEnd
<1>4. prod.n \in 0 .. prod.n
  BY <1>1 DEF Slots
<1> HIDE DEF S
<1>5. /\ m_buf' \in [Slots -> Nat \cup {Junk}]
      /\ m_write_index' \in Slots /\ sent' \in Nat
      /\ IndicesTrackBytes' /\ UnreadIntact'
  BY <1>1, <1>2, <1>3, <1>4, PublishStep DEF IInv
<1>6. TypeOK'
  BY <1>3, <1>5, IdleType DEF IInv, TypeOK
<1>7. DecisionsHold'
  BY <1>1, <1>3, PublishKeepsReader DEF IInv, Slots
<1>8. QED
  BY <1>5, <1>6, <1>7 DEF IInv

\* commit_write of at most what was granted adds bytes behind the unread ones.
LEMMA commit_write_IInv ==
  ASSUME IInv, NEW sz \in Slots, commit_write(sz) PROVE IInv'
<1>1. prod.n \in Slots /\ m_write_index \in Slots /\ prod.pc = "granted"
  BY DEF IInv, TypeOK, ThreadState, commit_write
<1>2. /\ \A k \in 0 .. (prod.n - 1) : Slot(m_write_index, k) \in GrantedSlots
      /\ \A k \in 0 .. (Unread - 1) : Slot(m_read_index, k) \notin GrantedSlots
      /\ prod.n <= m_writable_capacity - Unread
  BY <1>1, GrantSlots DEF IInv, DecisionsHold
<1>3. m_write_index' = Slot(m_write_index, sz)
  BY <1>1, AdvanceIsSlot, RingConstants DEF commit_write, Slot, Slots
<1>4. /\ m_buf' = Fill(GrantedSlots, prod.n)
      /\ sent' = sent + sz /\ got' = got /\ m_read_index' = m_read_index
      /\ cons' = cons /\ prod' = Idle
  BY DEF commit_write
<1>5. sz \in 0 .. prod.n
  BY <1>1 DEF Slots, commit_write
<1>6. /\ m_buf' \in [Slots -> Nat \cup {Junk}]
      /\ m_write_index' \in Slots /\ sent' \in Nat
      /\ IndicesTrackBytes' /\ UnreadIntact'
  BY <1>1, <1>2, <1>3, <1>4, <1>5, PublishStep DEF IInv
<1>7. TypeOK'
  BY <1>4, <1>6, IdleType DEF IInv, TypeOK
<1>8. DecisionsHold'
  BY <1>4, PublishKeepsReader DEF IInv, Slots
<1>9. QED
  BY <1>6, <1>7, <1>8 DEF IInv

\* What approx_size reports can be read.
LEMMA approx_size_IInv == ASSUME IInv, approx_size PROVE IInv'
<1>1. BytesWritten = Unread /\ Unread \in Slots
  BY BytesWrittenIsUnread, RingConstants
  DEF IInv, IndicesTrackBytes, TypeOK, Unread, m_writable_capacity, Slots
<1>2. cons' \in ThreadState /\ cons'.pc = "checked" /\ cons'.n = Unread
  BY <1>1, RingConstants DEF approx_size, Doing, ThreadState, Slots
<1>3. cons'.n <= Unread
  BY <1>1, <1>2 DEF Slots
<1>4. QED
  BY <1>2, <1>3, DecideConsumer DEF approx_size

\* read decides on no more than the bytes between the indices it has loaded.
LEMMA read_IInv ==
  ASSUME IInv, NEW sz \in Sizes, read(sz) PROVE IInv'
<1>1. BytesWritten = Unread /\ Unread \in Slots
  BY BytesWrittenIsUnread, RingConstants
  DEF IInv, IndicesTrackBytes, TypeOK, Unread, m_writable_capacity, Slots
<1>2. CASE cons' = Idle
  BY <1>2, IdleType, DecideConsumer DEF read, Idle, Doing
<1>3. CASE cons' # Idle
  <2> DEFINE max == Min2(sz, m_writable_capacity)
  <2>1. max \in Nat /\ Min2(max, Unread) \in Slots /\ Min2(max, Unread) <= Unread
    BY <1>1, RingConstants DEF Min2, Slots, m_writable_capacity
  <2> HIDE DEF max
  <2>2. cons' = Doing("copy", m_write_index, Min2(max, Unread), max, FALSE)
    BY <1>1, <1>3 DEF read, max
  <2>3. cons' \in ThreadState /\ cons'.pc = "copy" /\ cons'.other = m_write_index
        /\ cons'.n = Min2(max, Unread)
    BY <2>1, <2>2 DEF IInv, TypeOK, Doing, ThreadState
  <2>4. QED
    BY <2>1, <2>3, DecideConsumer DEF read
<1>4. QED
  BY <1>2, <1>3

\* What read_contig gives are unread bytes up to the end of the buffer.
LEMMA read_contig_IInv ==
  ASSUME IInv, NEW sz \in Sizes, read_contig(sz) PROVE IInv'
<1> DEFINE largest == ContigUsed(m_write_index, m_read_index)
<1>1. largest \in 0 .. Unread /\ m_read_index + largest <= m_capacity
  BY ContigUsedFits DEF IInv
<1>2. /\ Min2(sz, largest) \in Slots /\ Min2(sz, largest) <= Unread
      /\ m_read_index + Min2(sz, largest) <= m_capacity
  BY <1>1, RingConstants
  DEF Min2, Slots, IInv, IndicesTrackBytes, TypeOK, Unread, m_writable_capacity
<1> HIDE DEF largest
<1>3. cons' = Doing("granted", 0, Min2(sz, largest), sz,
                    largest < sz /\ m_write_index < m_read_index)
  BY DEF read_contig, largest
<1>4. cons' \in ThreadState /\ cons'.pc = "granted" /\ cons'.n = Min2(sz, largest)
  BY <1>2, <1>3, RingConstants DEF Doing, ThreadState, Slots
<1>5. QED
  BY <1>2, <1>4, DecideConsumer DEF read_contig

\* Consuming n unread bytes leaves the writer's decisions good.
LEMMA ConsumeKeepsWriter ==
  ASSUME IInv, NEW n \in 0 .. Unread,
         m_write_index' = m_write_index, sent' = sent, prod' = prod,
         got' = got + n, m_read_index' = Slot(m_read_index, n), cons' = Idle
  PROVE  DecisionsHold'
<1>1. Unread' = Unread - n /\ Unread \in Int /\ n \in Int
  BY DEF Unread, IInv, TypeOK
<1>2. prod.n \in Int /\ prod.other \in Int /\ m_write_index \in Slots
      /\ m_read_index \in Slots
  BY RingConstants DEF IInv, TypeOK, ThreadState, Slots
<1>3. cons'.pc = "idle"
  BY DEF Idle, Doing
<1>4. get_bytes_written(m_write_index, prod.other) \in Int
      /\ m_writable_capacity \in Int
  BY <1>2, RingConstants DEF get_bytes_written, m_writable_capacity, Slots
<1>5. m_write_index >= m_read_index /\ m_read_index # 0 =>
        m_write_index >= m_read_index' /\ m_read_index' # 0
  BY <1>1, <1>2, RingConstants
  DEF IInv, IndicesTrackBytes, Slot, Slots, m_writable_capacity
<1>6. QED
  BY <1>1, <1>2, <1>3, <1>4, <1>5 DEF IInv, DecisionsHold

\* Advancing the read index over unread bytes keeps the invariant, whatever
\* the producer has decided on in the meantime.
LEMMA ConsumeIInv ==
  ASSUME IInv, NEW n \in 0 .. Unread, m_buf' = m_buf,
         m_write_index' = m_write_index, sent' = sent, prod' = prod,
         got' = got + n, m_read_index' = Slot(m_read_index, n), cons' = Idle
  PROVE  IInv'
<1>1. m_read_index' \in Slots /\ got' \in Nat /\ IndicesTrackBytes' /\ UnreadIntact'
  BY ConsumeStep DEF IInv
<1>2. TypeOK'
  BY <1>1, IdleType DEF IInv, TypeOK
<1>3. DecisionsHold'
  BY ConsumeKeepsWriter
<1>4. QED
  BY <1>1, <1>2, <1>3 DEF IInv

\* A read in progress and a commit_read take unread bytes.
LEMMA ReadEndTakes ==
  ASSUME IInv, ReadEnd
  PROVE  cons.n \in 0 .. Unread /\ m_read_index' = Slot(m_read_index, cons.n)
<1>1. cons.n \in Slots /\ cons.other \in Slots /\ m_read_index \in Slots /\ Unread \in Int
  BY DEF IInv, TypeOK, ThreadState, Unread
<1>2. cons.n <= Unread
  BY <1>1, RingConstants
  DEF IInv, DecisionsHold, ReadEnd, get_bytes_written, Slots, m_writable_capacity
<1>3. m_read_index' = Slot(m_read_index, cons.n)
  BY <1>1, AdvanceIsSlot DEF ReadEnd
<1>4. QED
  BY <1>1, <1>2, <1>3 DEF Slots

\* commit_read advances over bytes that read_contig has given.
LEMMA commit_readTakes ==
  ASSUME IInv, NEW sz \in Slots, commit_read(sz)
  PROVE  sz \in 0 .. Unread /\ m_read_index' = Slot(m_read_index, sz)
<1>1. cons.n \in Slots /\ m_read_index \in Slots /\ Unread \in Int
  BY DEF IInv, TypeOK, ThreadState, Unread
<1>2. cons.n <= Unread
  BY DEF IInv, DecisionsHold, commit_read
<1>3. sz \in 0 .. Unread
  BY <1>1, <1>2 DEF commit_read, Slots
<1>4. QED
  BY <1>1, <1>3, AdvanceIsSlot, RingConstants DEF commit_read, Slots, Slot

\* The store of the read index at the end of read keeps the invariant.
LEMMA ReadEnd_IInv == ASSUME IInv, ReadEnd PROVE IInv'
  BY ReadEndTakes, ConsumeIInv DEF ReadEnd

\* commit_read keeps the invariant.
LEMMA commit_read_IInv ==
  ASSUME IInv, NEW sz \in Slots, commit_read(sz) PROVE IInv'
  BY commit_readTakes, ConsumeIInv DEF commit_read

-----------------------------------------------------------------------------
(* The theorems.  They are about a writer that gives write_bytes no more   *)
(* than approx_free_bytes reported; without that they are false.           *)

\* Every step of either thread keeps the invariant.
LEMMA NextIInv ==
  ASSUME CheckedWriter, IInv, [Next]_vars PROVE IInv'
<1>1. CASE UNCHANGED vars
  BY <1>1
  DEF vars, IInv, TypeOK, IndicesTrackBytes, UnreadIntact, DecisionsHold, Unread
<1>2. CASE Producer
  BY <1>2, approx_free_bytes_IInv, write_IInv, write_bytes_IInv, alloc_contig_IInv,
     compound_alloc_contig_IInv, WriteEnd_IInv, commit_write_IInv
  DEF Producer
<1>3. CASE Consumer
  BY <1>3, approx_size_IInv, read_IInv, read_contig_IInv, ReadEnd_IInv,
     commit_read_IInv
  DEF Consumer
<1>4. QED
  BY <1>1, <1>2, <1>3 DEF Next

\* The inductive invariant holds of every behaviour of the two threads.
THEOREM Invariance == ASSUME CheckedWriter PROVE Spec => []IInv
<1>1. Init => IInv
  BY InitIInv
<1>2. IInv /\ [Next]_vars => IInv'
  BY NextIInv
<1>3. QED
  BY <1>1, <1>2, PTL DEF Spec

\* In a state of IInv the slots the reader looks at hold unread bytes.
LEMMA ReaderSlots == IInv => ReaderSeesAcceptedBytes
<1> SUFFICES ASSUME IInv, NEW s \in ConsumerSlots PROVE s \in UnreadSlots
  BY DEF ReaderSeesAcceptedBytes
<1> USE RingConstants
<1>1. /\ cons.n \in Slots /\ cons.other \in Slots /\ m_read_index \in Slots
      /\ m_write_index \in Slots /\ Unread \in Int
      /\ Unread <= m_writable_capacity
  BY DEF IInv, TypeOK, ThreadState, Unread, IndicesTrackBytes
<1>2. CASE cons.pc = "granted"
  <2>1. s \in m_read_index .. (m_read_index + cons.n - 1)
    BY <1>2 DEF ConsumerSlots
  <2>2. cons.n <= Unread /\ m_read_index + cons.n <= m_capacity
    BY <1>2 DEF IInv, DecisionsHold
  <2>3. /\ s - m_read_index \in 0 .. (Unread - 1)
        /\ s = Slot(m_read_index, s - m_read_index)
    BY <1>1, <2>1, <2>2 DEF Slot, Slots
  <2>4. QED
    BY <2>3 DEF UnreadSlots
<1>3. CASE cons.pc = "copy"
  <2>1. s \in ReadSlots(cons.other, m_read_index, cons.n)
    BY <1>3 DEF ConsumerSlots
  <2>2. /\ cons.n <= get_bytes_written(cons.other, m_read_index)
        /\ get_bytes_written(cons.other, m_read_index) <= Unread
    BY <1>3 DEF IInv, DecisionsHold
  <2>3. CASE cons.other >= m_read_index
    <3>1. s \in m_read_index .. (m_read_index + cons.n - 1)
      BY <2>1, <2>3 DEF ReadSlots
    <3>2. /\ s - m_read_index \in 0 .. (Unread - 1)
          /\ s = Slot(m_read_index, s - m_read_index)
      BY <1>1, <2>2, <2>3, <3>1
      DEF Slot, Slots, get_bytes_written, m_writable_capacity
    <3>3. QED
      BY <3>2 DEF UnreadSlots
  <2>4. CASE cons.other < m_read_index
    <3> DEFINE b == cons.n - (m_capacity - m_read_index)
    <3>1. s \in (m_read_index .. (m_capacity - 1))
                \cup (0 .. ((IF b < 0 THEN 0 ELSE b) - 1))
      BY <1>1, <2>1, <2>4 DEF ReadSlots, WrapChunks, Slots, m_writable_capacity
    <3>2. /\ Ahead(s, m_read_index) \in 0 .. (Unread - 1)
          /\ s = Slot(m_read_index, Ahead(s, m_read_index))
      BY <1>1, <2>2, <2>4, <3>1
      DEF Slot, Slots, get_bytes_written, m_writable_capacity, Ahead
    <3>3. QED
      BY <3>2 DEF UnreadSlots
  <2>5. QED
    BY <1>1, <2>3, <2>4 DEF Slots
<1>4. QED
  BY <1>2, <1>3 DEF ConsumerSlots

\* In a state of IInv the slots the writer changes hold no unread byte.
LEMMA WriterSlots == IInv => ProducerSlots \cap UnreadSlots = {}
<1> SUFFICES ASSUME IInv, NEW k \in 0 .. (Unread - 1)
             PROVE  Slot(m_read_index, k) \notin ProducerSlots
  BY DEF UnreadSlots
<1>1. CASE prod.pc = "copy"
  BY <1>1, CopySlots DEF ProducerSlots
<1>2. CASE prod.pc = "granted"
  BY <1>2, GrantSlots DEF ProducerSlots
<1>3. QED
  BY <1>1, <1>2 DEF ProducerSlots

\* Type correctness: the indices never leave the buffer.
THEOREM TypeCorrect == ASSUME CheckedWriter PROVE Spec => []TypeOK
<1>1. IInv => TypeOK
  BY DEF IInv
<1>2. QED
  BY <1>1, Invariance, PTL

\* The distance of the two indices is the number of accepted bytes that have
\* not been read, over any number of laps and for every capacity.
THEOREM IndicesExact == ASSUME CheckedWriter PROVE Spec => []IndicesTrackBytes
<1>1. IInv => IndicesTrackBytes
  BY DEF IInv
<1>2. QED
  BY <1>1, Invariance, PTL

\* No accepted byte is lost or overwritten before it is read.
THEOREM NothingLost == ASSUME CheckedWriter PROVE Spec => []UnreadIntact
<1>1. IInv => UnreadIntact
  BY DEF IInv
<1>2. QED
  BY <1>1, Invariance, PTL

\* What a thread has decided on an index of the other thread that may be old
\* by now is still sound when it acts on it.
THEOREM StaleIndicesAreSafe == ASSUME CheckedWriter PROVE Spec => []DecisionsHold
<1>1. IInv => DecisionsHold
  BY DEF IInv
<1>2. QED
  BY <1>1, Invariance, PTL

\* The two threads never touch the same slot and the reader only looks at
\* accepted bytes: the lock-free protocol needs no more than the two indices.
THEOREM RaceFreedom ==
  ASSUME CheckedWriter PROVE Spec => [](NoDataRace /\ ReaderSeesAcceptedBytes)
<1>1. IInv => NoDataRace /\ ReaderSeesAcceptedBytes
  BY ReaderSlots, WriterSlots DEF NoDataRace, ReaderSeesAcceptedBytes
<1>2. QED
  BY <1>1, Invariance, PTL

\* Once alloc_contig has reported the end of the buffer, no progress of the
\* reader makes the block before the end any longer.
THEOREM Grants == ASSUME CheckedWriter PROVE Spec => []EndOfBufferIsFinal
<1>1. IInv => EndOfBufferIsFinal
  BY RingConstants
  DEF IInv, DecisionsHold, EndOfBufferIsFinal, ContigFree, TypeOK, Slots,
      m_writable_capacity
<1>2. QED
  BY <1>1, Invariance, PTL

\* compound_alloc_contig gives all the free space.
THEOREM CompoundGrants ==
  ASSUME CheckedWriter PROVE Spec => []CompoundCoversFreeSpace
<1>1. IInv => CompoundCoversFreeSpace
  BY CompoundFits DEF IInv
<1>2. QED
  BY <1>1, Invariance, PTL

\* The reader is handed the bytes of the stream in the order in which they
\* were accepted, each exactly once.
THEOREM FIFO == ASSUME CheckedWriter PROVE Spec => FirstInFirstOut
<1> DEFINE InOrder == \A k \in 0 .. (got' - got - 1) :
                        m_buf[Slot(m_read_index, k)] = got + k
<1>1. ASSUME IInv, NEW n \in 0 .. Unread, got' = got + n PROVE InOrder
  BY <1>1 DEF IInv, UnreadIntact, Unread, TypeOK
<1>2. ASSUME IInv, got' = got PROVE InOrder
  BY <1>2 DEF IInv, TypeOK
<1> HIDE DEF InOrder
<1>3. ASSUME IInv, Producer PROVE InOrder
  BY <1>2, <1>3
  DEF Producer, approx_free_bytes, write, write_bytes, alloc_contig,
      compound_alloc_contig, WriteEnd, commit_write
<1>4. ASSUME IInv, Consumer PROVE InOrder
  <2>1. CASE ReadEnd
    BY <1>1, <1>4, <2>1, ReadEndTakes DEF ReadEnd
  <2>2. CASE \E sz \in Slots : commit_read(sz)
    BY <1>1, <1>4, <2>2, commit_readTakes DEF commit_read
  <2>3. QED
    BY <1>2, <1>4, <2>1, <2>2 DEF Consumer, approx_size, read, read_contig
<1>5. IInv /\ [Next]_vars => [InOrder]_vars
  BY <1>3, <1>4 DEF Next
<1>6. Spec => [][InOrder]_vars
  BY <1>5, Invariance, PTL DEF Spec
<1>7. QED
  BY <1>6 DEF FirstInFirstOut, InOrder

=============================================================================
