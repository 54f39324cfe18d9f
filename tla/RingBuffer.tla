----------------------------- MODULE RingBuffer -----------------------------
(***************************************************************************)
(* The single producer, single consumer ring buffer of                     *)
(* librtlcpp/ring_buffer.cpp.                                              *)
(*                                                                         *)
(* The writing thread and the reading thread interleave.  A call is split  *)
(* where the other thread can get in between: the loads of the two indices *)
(* begin it, the memcpy runs in between, and the release store of the      *)
(* thread's own index ends it.  Each index has one writer and is stored    *)
(* with release and loaded with acquire order, so interleaving these steps *)
(* covers the executions of the C++ memory model as long as the plain      *)
(* accesses to the buffer do not race (NoDataRace).                        *)
(*                                                                         *)
(* The i-th byte the ring accepts has the value i, so losing, repeating or *)
(* reordering bytes is visible; Junk stands for bytes from behind the      *)
(* caller's input.                                                         *)
(***************************************************************************)
EXTENDS Integers, FiniteSets

CONSTANTS
  m_capacity,     \* bytes of the buffer
  UINT_MOD,       \* uint32_t arithmetic is modulo this number
  Sizes,          \* sizes the callers pass
  MaxBytes,       \* bound on the number of bytes written in a behaviour
  CheckedWriter   \* TRUE: write_bytes is only given what approx_free_bytes
                  \* reported to be free

ASSUME RingConstants ==
  /\ m_capacity \in Nat \ {0}
  /\ UINT_MOD \in Nat /\ 2 * m_capacity <= UINT_MOD
  /\ Sizes \subseteq Nat
  /\ MaxBytes \in Nat
  /\ CheckedWriter \in BOOLEAN

VARIABLES
  m_buf,          \* the bytes of the buffer
  m_write_index,  \* owned by the writing thread
  m_read_index,   \* owned by the reading thread
  prod,           \* what the writing thread is doing
  cons,           \* what the reading thread is doing
  sent,           \* number of bytes accepted so far
  got             \* number of bytes handed to the reader so far

vars == <<m_buf, m_write_index, m_read_index, prod, cons, sent, got>>

Junk  == -1
Slots == 0 .. (m_capacity - 1)

m_writable_capacity == m_capacity - 1

Min2(x, y) == IF x <= y THEN x ELSE y

\* (index + sz) % m_capacity in uint32_t
Advance(index, sz) == ((index + sz) % UINT_MOD) % m_capacity

get_bytes_written(w, r) ==
  IF w >= r THEN w - r ELSE m_writable_capacity - r + 1 + w

\* Largest contiguous block alloc_contig can give, and its end_of_buffer.
ContigFree(w, r) ==
  IF w >= r
    THEN m_writable_capacity - w + (IF r # 0 THEN 1 ELSE 0)
    ELSE r - w - 1

\* Mutant: the read index at 0 does not count as blocking the write.
FreeUpToEnd_always(w, r) == w >= r

\* Mutant: the end of the buffer is never reported.
FreeUpToEnd_never(w, r) == FALSE

FreeUpToEnd(w, r) == w >= r /\ r # 0

\* Largest contiguous block read_contig can give.
ContigUsed(w, r) == IF w >= r THEN w - r ELSE m_writable_capacity - r + 1

\* Mutant: until_end without its + 1.
WrapChunks_short(index, amt) ==
  LET until_end == m_writable_capacity - index
      from_beginning == IF until_end > amt THEN 0 ELSE amt - until_end
  IN  (index .. (m_capacity - 2)) \cup (0 .. (from_beginning - 1))

\* The two chunks of a memcpy that wraps: up to the end of the buffer, all of
\* it whatever amt is, and then what is missing from the beginning.
WrapChunks(index, amt) ==
  LET until_end == m_writable_capacity - index + 1
      from_beginning == IF until_end > amt THEN 0 ELSE amt - until_end
  IN  (index .. (m_capacity - 1)) \cup (0 .. (from_beginning - 1))

\* Mutant: priv_write always copies up to the end of the buffer.
WrittenSlots_wrap(w, r, amt) == WrapChunks(w, amt)

\* The slots priv_write and read touch.
WrittenSlots(w, r, amt) ==
  IF w >= r THEN WrapChunks(w, amt) ELSE w .. (w + amt - 1)

ReadSlots(w, r, amt) ==
  IF w >= r THEN r .. (r + amt - 1) ELSE WrapChunks(r, amt)

\* How many slots after index, going round, slot s lies.
Ahead(s, index) == IF s >= index THEN s - index ELSE s - index + m_capacity

\* The buffer once the slots in S hold the next bytes, in order from the write
\* index; of them amt come from the caller.
Fill(S, amt) ==
  [s \in Slots |->
     IF s \notin S THEN m_buf[s]
     ELSE IF Ahead(s, m_write_index) < amt
            THEN sent + Ahead(s, m_write_index) ELSE Junk]

\* What a thread is doing: where it is in a call, the other thread's index as
\* it has loaded it, the number of bytes it has decided on, the number its index
\* will move by or that was asked for, and end_of_buffer.
Doing(pc, other, n, adv, end) ==
  [pc |-> pc, other |-> other, n |-> n, adv |-> adv, end |-> end]

Idle == Doing("idle", 0, 0, 0, FALSE)

-----------------------------------------------------------------------------
(* The writing thread. *)

SpaceLeft == m_writable_capacity - get_bytes_written(m_write_index, m_read_index)

\* Mutant: the slot that stays empty is reported as free.
approx_free_bytes_all ==
  /\ prod.pc = "idle"
  /\ prod' = Doing("checked", 0, SpaceLeft + 1, 0, FALSE)
  /\ UNCHANGED <<m_buf, m_write_index, m_read_index, cons, sent, got>>

\* approx_free_bytes() called by the writing thread.
approx_free_bytes ==
  /\ prod.pc = "idle"
  /\ prod' = Doing("checked", 0, SpaceLeft, 0, FALSE)
  /\ UNCHANGED <<m_buf, m_write_index, m_read_index, cons, sent, got>>

\* Checks and loads of write(): it either returns at once or starts to copy.
write(sz) ==
  /\ prod.pc # "copy"
  /\ sent + sz <= MaxBytes
  /\ prod' = IF sz > m_writable_capacity \/ sz = 0 \/ sz > SpaceLeft THEN Idle
             ELSE Doing("copy", m_read_index, sz, sz, FALSE)
  /\ UNCHANGED <<m_buf, m_write_index, m_read_index, cons, sent, got>>

write_bytes(sz) ==
  /\ prod.pc # "copy"
  /\ CheckedWriter => prod.pc = "checked" /\ sz <= prod.n
  /\ sent + sz <= MaxBytes
  /\ LET max == Min2(sz, m_writable_capacity)
     IN  prod' = IF max = 0 THEN Idle
                 ELSE Doing("copy", m_read_index, Min2(max, SpaceLeft), max, FALSE)
  /\ UNCHANGED <<m_buf, m_write_index, m_read_index, cons, sent, got>>

\* priv_write and the store of the write index: n bytes have been accepted
\* and the index advances by adv.
WriteEnd ==
  /\ prod.pc = "copy"
  /\ m_buf' = Fill(WrittenSlots(m_write_index, prod.other, prod.n), prod.n)
  /\ m_write_index' = Advance(m_write_index, prod.adv)
  /\ sent' = sent + prod.n
  /\ prod' = Idle
  /\ UNCHANGED <<m_read_index, cons, got>>

alloc_contig(sz) ==
  /\ prod.pc # "copy"
  /\ sent + sz <= MaxBytes
  /\ LET largest == ContigFree(m_write_index, m_read_index)
     IN  prod' = Doing("granted", 0, Min2(sz, largest), sz,
                       largest < sz /\ FreeUpToEnd(m_write_index, m_read_index))
  /\ UNCHANGED <<m_buf, m_write_index, m_read_index, cons, sent, got>>

\* Mutant: the first block is not subtracted from the free space.
CompoundSizes_twice(w, r) ==
  LET first == ContigFree(w, r)
      free  == m_writable_capacity - get_bytes_written(w, r)
  IN  IF first = 0 THEN <<0, 0>> ELSE <<first, IF free = first THEN 0 ELSE free>>

\* first_buf_sz and second_buf_sz
CompoundSizes(w, r) ==
  LET first == ContigFree(w, r)
      free  == m_writable_capacity - get_bytes_written(w, r)
  IN  IF first = 0 THEN <<0, 0>> ELSE <<first, free - first>>

compound_alloc_contig ==
  /\ prod.pc # "copy"
  /\ sent + m_writable_capacity <= MaxBytes
  /\ LET sz == CompoundSizes(m_write_index, m_read_index)
     IN  prod' = Doing("granted", 0, sz[1] + sz[2], sz[1] + sz[2], FALSE)
  /\ UNCHANGED <<m_buf, m_write_index, m_read_index, cons, sent, got>>

\* The slots that have been given to the writer by alloc_contig, or by
\* compound_alloc_contig whose second block starts at slot 0.
GrantedSlots == {s \in Slots : Ahead(s, m_write_index) < prod.n}

\* Mutant: all that was granted is committed.
commit_write_all(sz) ==
  /\ prod.pc = "granted" /\ sz <= prod.n
  /\ m_buf' = Fill(GrantedSlots, prod.n)
  /\ m_write_index' = IF sz = 0 THEN m_write_index
                      ELSE Advance(m_write_index, prod.n)
  /\ sent' = sent + sz
  /\ prod' = Idle
  /\ UNCHANGED <<m_read_index, cons, got>>

\* The writer has filled what it was given and commits its first sz bytes.
commit_write(sz) ==
  /\ prod.pc = "granted" /\ sz <= prod.n
  /\ m_buf' = Fill(GrantedSlots, prod.n)
  /\ m_write_index' = IF sz = 0 THEN m_write_index
                      ELSE Advance(m_write_index, sz)
  /\ sent' = sent + sz
  /\ prod' = Idle
  /\ UNCHANGED <<m_read_index, cons, got>>

-----------------------------------------------------------------------------
(* The reading thread. *)

BytesWritten == get_bytes_written(m_write_index, m_read_index)

\* approx_size() called by the reading thread.
approx_size ==
  /\ cons.pc = "idle"
  /\ cons' = Doing("checked", 0, BytesWritten, 0, FALSE)
  /\ UNCHANGED <<m_buf, m_write_index, m_read_index, prod, sent, got>>

\* Mutant: read gives nothing unless max_read bytes are there.
read_all_or_nothing(max_read) ==
  /\ cons.pc # "copy"
  /\ cons' = IF max_read = 0 \/ max_read > BytesWritten THEN Idle
             ELSE Doing("copy", m_write_index, max_read, max_read, FALSE)
  /\ UNCHANGED <<m_buf, m_write_index, m_read_index, prod, sent, got>>

\* Checks and loads of read(); adv keeps max_read.
read(max_read) ==
  /\ cons.pc # "copy"
  /\ LET max == Min2(max_read, m_writable_capacity)
     IN  cons' = IF max = 0 THEN Idle
                 ELSE Doing("copy", m_write_index, Min2(max, BytesWritten), max, FALSE)
  /\ UNCHANGED <<m_buf, m_write_index, m_read_index, prod, sent, got>>

\* The copies to output are done; the store of the read index.
ReadEnd ==
  /\ cons.pc = "copy"
  /\ m_read_index' = Advance(m_read_index, cons.n)
  /\ got' = got + cons.n
  /\ cons' = Idle
  /\ UNCHANGED <<m_buf, m_write_index, prod, sent>>

read_contig(out_sz) ==
  /\ cons.pc # "copy"
  /\ LET largest == ContigUsed(m_write_index, m_read_index)
     IN  cons' = Doing("granted", 0, Min2(out_sz, largest), out_sz,
                       largest < out_sz /\ m_write_index < m_read_index)
  /\ UNCHANGED <<m_buf, m_write_index, m_read_index, prod, sent, got>>

\* Mutant: one byte more than committed is given up.
commit_read_more(sz) ==
  /\ cons.pc = "granted" /\ sz <= cons.n
  /\ m_read_index' = Advance(m_read_index, sz + 1)
  /\ got' = got + sz + 1
  /\ cons' = Idle
  /\ UNCHANGED <<m_buf, m_write_index, prod, sent>>

commit_read(sz) ==
  /\ cons.pc = "granted" /\ sz <= cons.n
  /\ m_read_index' = IF sz = 0 THEN m_read_index
                     ELSE Advance(m_read_index, sz)
  /\ got' = got + sz
  /\ cons' = Idle
  /\ UNCHANGED <<m_buf, m_write_index, prod, sent>>

-----------------------------------------------------------------------------

Init ==
  /\ m_buf = [s \in Slots |-> Junk]
  /\ m_write_index = 0 /\ m_read_index = 0
  /\ prod = Idle /\ cons = Idle
  /\ sent = 0 /\ got = 0

Producer ==
  \/ approx_free_bytes
  \/ \E sz \in Sizes : write(sz) \/ write_bytes(sz) \/ alloc_contig(sz)
  \/ compound_alloc_contig
  \/ WriteEnd
  \/ \E sz \in Slots : commit_write(sz)

Consumer ==
  \/ approx_size
  \/ \E sz \in Sizes : read(sz) \/ read_contig(sz)
  \/ ReadEnd
  \/ \E sz \in Slots : commit_read(sz)

Next == Producer \/ Consumer

Spec == Init /\ [][Next]_vars

\* The reading thread keeps calling read: each call is a bounded number of
\* steps that nothing can block.
ReaderKeepsReading ==
  /\ WF_vars(\E sz \in Sizes \ {0} : read(sz))
  /\ WF_vars(ReadEnd)

FairSpec == Spec /\ ReaderKeepsReading

-----------------------------------------------------------------------------
(* Properties. *)

\* Slot k places after index, going round.
Slot(index, k) ==
  IF index + k < m_capacity THEN index + k ELSE index + k - m_capacity

Unread == sent - got

UnreadSlots == {Slot(m_read_index, k) : k \in 0 .. (Unread - 1)}

ThreadState ==
  [pc : {"idle", "checked", "copy", "granted"}, other : Slots, n : Slots,
   adv : Nat, end : BOOLEAN]

\* The indices stay inside the buffer and the counters are natural numbers.
TypeOK ==
  /\ m_buf \in [Slots -> Nat \cup {Junk}]
  /\ m_write_index \in Slots /\ m_read_index \in Slots
  /\ prod \in ThreadState /\ cons \in ThreadState
  /\ sent \in Nat /\ got \in Nat

\* The distance between the indices is the number of accepted and unread
\* bytes, always less than the capacity: no call publishes more than it wrote
\* or consumes more than there was.
IndicesTrackBytes ==
  /\ 0 <= Unread /\ Unread <= m_writable_capacity
  /\ m_write_index = Slot(m_read_index, Unread)

\* Every accepted byte that has not been read is in its slot, whatever the
\* producer is copying at the moment.
UnreadIntact ==
  \A k \in 0 .. (Unread - 1) : m_buf[Slot(m_read_index, k)] = got + k

ProducerSlots ==
  CASE prod.pc = "copy" -> WrittenSlots(m_write_index, prod.other, prod.n)
    [] prod.pc = "granted" -> GrantedSlots
    [] OTHER -> {}

ConsumerSlots ==
  CASE cons.pc = "copy" -> ReadSlots(cons.other, m_read_index, cons.n)
    [] cons.pc = "granted" -> m_read_index .. (m_read_index + cons.n - 1)
    [] OTHER -> {}

\* The memcpy or the in-place writes of the writing thread never touch a slot
\* that holds an unread byte or that the reading thread is copying, although
\* each decided on a value of the other's index that may be old by now.
NoDataRace == ProducerSlots \cap (ConsumerSlots \cup UnreadSlots) = {}

\* What the reading thread looks at are accepted bytes only, and all of them
\* are inside the buffer.
ReaderSeesAcceptedBytes == ConsumerSlots \subseteq UnreadSlots

\* What each thread has decided on is still good although the other one has
\* moved on: space shown by approx_free_bytes or given by alloc_contig is still
\* free, bytes shown by approx_size or given by read_contig are still there,
\* the writer's copy fits behind the read index it has loaded, which is at most
\* as far on as the real one, and the reader's copy ends before the write index
\* it has loaded.
DecisionsHold ==
  /\ prod.pc \in {"checked", "granted"} =>
       prod.n <= m_writable_capacity - Unread
  /\ prod.pc = "granted" /\ prod.end =>
       /\ m_write_index >= m_read_index /\ m_read_index # 0
       /\ prod.n = m_capacity - m_write_index
  /\ prod.pc = "copy" =>
       LET old == get_bytes_written(m_write_index, prod.other)
       IN  /\ Unread <= old
           /\ prod.n <= m_writable_capacity - old
           /\ prod.adv = prod.n
  /\ cons.pc \in {"checked", "granted"} => cons.n <= Unread
  /\ cons.pc = "granted" => m_read_index + cons.n <= m_capacity
  /\ cons.pc = "copy" =>
       LET old == get_bytes_written(cons.other, m_read_index)
       IN  cons.n <= old /\ old <= Unread

\* FIFO: the bytes a read hands over are the next ones of the stream, in order.
FirstInFirstOut ==
  [][\A k \in 0 .. (got' - got - 1) :
       m_buf[Slot(m_read_index, k)] = got + k]_vars

\* "it makes no difference how long one waits, no more space will be
\* available" (ring_buffer.hpp, alloc_contig): once end_of_buffer is reported
\* a retry gives the same size until the writer commits.
EndOfBufferIsFinal ==
  prod.pc = "granted" /\ prod.end =>
    ContigFree(m_write_index, m_read_index) = prod.n

\* The assertion of compound_alloc_contig on the two indices it has loaded,
\* and its blocks: together they are the free space, the second one empty
\* unless the first reaches the end of the buffer.
CompoundCoversFreeSpace ==
  LET sz == CompoundSizes(m_write_index, m_read_index)
  IN  /\ sz[2] >= 0
      /\ sz[1] + sz[2] = m_writable_capacity - Unread
      /\ sz[2] > 0 => m_write_index + sz[1] = m_capacity

\* "This function assumes that output can handle up to max_read bytes"
\* (ring_buffer.hpp, read): what is copied out is no more than max_read.
OutputWithinMaxRead ==
  cons.pc = "copy" =>
    Cardinality(ReadSlots(cons.other, m_read_index, cons.n)) <= cons.adv

\* Every accepted byte is handed over if the reader keeps reading.
EverythingIsRead == \A i \in 1 .. MaxBytes : sent >= i ~> got >= i

\* "one could wait until the reading thread reads more to clear up more
\* space" (ring_buffer.hpp, alloc_contig): a writer that was given less than
\* it asked for, not because of the end of the buffer, and waits, will be
\* given more.
WaitingPays ==
  (prod.pc = "granted" /\ ~prod.end /\ prod.n < prod.adv
     /\ prod.adv <= m_writable_capacity)
  ~> (\/ prod.pc # "granted"
      \/ ContigFree(m_write_index, m_read_index) > prod.n)

=============================================================================
