--------------------------- MODULE SharedPtrProofs ---------------------------
(***************************************************************************)
(* Proofs about SharedPtr for any number of threads, handles and elements, *)
(* when weak_ptr::lock is only called by a thread that owns a shared_ptr   *)
(* (LockHolding).  The inductive invariant says which of six phases of its *)
(* life the object is in, and what all counters are in that phase.         *)
(***************************************************************************)
EXTENDS SharedPtr, FiniteSetTheorems, TLAPS

Owners == [Handles -> Threads \cup {Nobody}]

TypeOK ==
  /\ m_strong_count \in Nat /\ m_weak_count \in Nat
  /\ made \in Nat /\ blocks \in Nat /\ destroyed \in Nat /\ freed \in Nat
  /\ m_data \in BOOLEAN
  /\ shared \in Owners /\ IsFiniteSet(Held(shared))
  /\ weak \in Owners /\ IsFiniteSet(Held(weak))
  /\ pc \in [Threads -> Labels]

\* Every thread but t is between two calls.
Alone(t) == \A u \in Threads \ {t} : pc[u] = "idle"

NoHandles == Held(shared) = {} /\ Held(weak) = {}

\* make_shared has not returned: nobody else knows the object.
Making ==
  /\ pc[Creator] \in {"make", "make_data", "make_first", "inc_weak"}
  /\ Alone(Creator) /\ NoHandles
  /\ m_data <=> pc[Creator] \in {"make_first", "inc_weak"}
  /\ made = IF m_data THEN ArrayCount ELSE 0
  /\ blocks = IF pc[Creator] = "make" THEN 0 ELSE 1
  /\ destroyed = 0 /\ freed = 0
  /\ m_strong_count = IF pc[Creator] = "inc_weak" THEN 1 ELSE 0
  /\ m_weak_count = 0

\* There are shared_ptrs; a thread inside lock owns one of them.
Owned ==
  /\ Held(shared) # {}
  /\ \A t \in Threads :
       \/ pc[t] = "idle"
       \/ pc[t] = "lock" /\ Of(shared, t) # {}
  /\ m_data /\ made = ArrayCount /\ blocks = 1 /\ destroyed = 0 /\ freed = 0
  /\ m_strong_count = Count(shared)
  /\ m_weak_count = Count(weak) + 1

\* One thread has dropped the last shared_ptr and destroys the object.
Ending ==
  \E t \in Threads :
    /\ pc[t] \in {"deinit", "destroy", "dec_weak"} /\ Alone(t)
    /\ Held(shared) = {}
    /\ made = ArrayCount /\ blocks = 1 /\ freed = 0
    /\ m_data <=> pc[t] # "dec_weak"
    /\ pc[t] = "deinit" => destroyed = 0
    /\ pc[t] = "destroy" => destroyed < ArrayCount
    /\ pc[t] = "dec_weak" => destroyed = ArrayCount
    /\ m_strong_count = 0
    /\ m_weak_count = Count(weak) + 1

\* Only weak_ptrs are left.
Expired ==
  /\ Held(shared) = {} /\ Held(weak) # {}
  /\ \A t \in Threads : pc[t] = "idle"
  /\ ~m_data /\ made = ArrayCount /\ destroyed = ArrayCount
  /\ blocks = 1 /\ freed = 0
  /\ m_strong_count = 0
  /\ m_weak_count = Count(weak)

\* One thread has dropped the last handle and deallocates the control block.
Freeing ==
  \E t \in Threads :
    /\ pc[t] = "free" /\ Alone(t)
    /\ NoHandles
    /\ ~m_data /\ made = ArrayCount /\ destroyed = ArrayCount
    /\ blocks = 1 /\ freed = 0
    /\ m_strong_count = 0 /\ m_weak_count = 0

\* Everything has been given back, or was never there.
Gone ==
  /\ NoHandles
  /\ \A t \in Threads : pc[t] = "idle"
  /\ ~m_data /\ destroyed = made /\ freed = blocks
  /\ m_strong_count = 0 /\ m_weak_count = 0

Phase == Making \/ Owned \/ Ending \/ Expired \/ Freeing \/ Gone

IInv == TypeOK /\ Phase

-----------------------------------------------------------------------------
(* Handles and their number. *)

\* A count is a number, and zero only without handles.
LEMMA CountZero ==
  ASSUME NEW f \in Owners, IsFiniteSet(Held(f))
  PROVE  Count(f) \in Nat /\ (Count(f) = 0 <=> Held(f) = {})
  BY FS_CardinalityType, FS_EmptySet DEF Count

\* A new handle adds one; every thread keeps what it had.
LEMMA MakesOne ==
  ASSUME NEW f \in Owners, IsFiniteSet(Held(f)), NEW t \in Threads,
         NEW g \in Makes(f, t)
  PROVE  /\ g \in Owners /\ IsFiniteSet(Held(g))
         /\ Count(g) = Count(f) + 1 /\ Held(g) # {}
         /\ \A u \in Threads : Of(f, u) \subseteq Of(g, u)
<1>1. PICK h \in Handles \ Held(f) : g = [f EXCEPT ![h] = t]
  BY DEF Makes
<1>2. Held(g) = Held(f) \cup {h}
  BY <1>1, SharedConstants DEF Held, Owners
<1>3. IsFiniteSet(Held(g)) /\ Count(g) = Count(f) + 1
  BY <1>1, <1>2, FS_AddElement DEF Count
<1>4. g \in Owners /\ \A u \in Threads : Of(f, u) \subseteq Of(g, u)
  BY <1>1, SharedConstants DEF Held, Of, Owners
<1>5. QED
  BY <1>2, <1>3, <1>4

\* A dropped handle takes one away; the other threads keep what they had.
LEMMA DropsOne ==
  ASSUME NEW f \in Owners, IsFiniteSet(Held(f)), NEW t \in Threads,
         NEW g \in Drops(f, t)
  PROVE  /\ g \in Owners /\ IsFiniteSet(Held(g))
         /\ Count(g) = Count(f) - 1 /\ Held(f) # {}
         /\ \A u \in Threads \ {t} : Of(g, u) = Of(f, u)
<1>1. PICK h \in Of(f, t) : g = [f EXCEPT ![h] = Nobody]
  BY DEF Drops
<1>2. h \in Held(f) /\ Held(g) = Held(f) \ {h}
  BY <1>1, SharedConstants DEF Held, Of, Owners
<1>3. IsFiniteSet(Held(g)) /\ Count(g) = Count(f) - 1
  BY <1>2, FS_RemoveElement DEF Count
<1>4. g \in Owners /\ \A u \in Threads \ {t} : Of(g, u) = Of(f, u)
  BY <1>1, SharedConstants DEF Of, Owners
<1>5. QED
  BY <1>2, <1>3, <1>4

\* A handle that changes hands is not counted again.
LEMMA HandsOverOne ==
  ASSUME NEW f \in Owners, NEW t \in Threads, NEW u \in Threads,
         NEW g \in HandsOver(f, t, u)
  PROVE  /\ g \in Owners /\ Held(g) = Held(f) /\ Held(f) # {}
         /\ \A v \in Threads \ {t} : Of(f, v) \subseteq Of(g, v)
<1>1. PICK h \in Of(f, t) : g = [f EXCEPT ![h] = u]
  BY DEF HandsOver
<1>2. g \in Owners /\ Held(g) = Held(f) /\ h \in Held(f)
  BY <1>1, SharedConstants DEF Held, Of, Owners
<1>3. \A v \in Threads \ {t} : Of(f, v) \subseteq Of(g, v)
  BY <1>1, SharedConstants DEF Of, Owners
<1>4. QED
  BY <1>2, <1>3

\* The object is not there yet when make_shared is called.
LEMMA InitInvariant == Init => IInv
<1> SUFFICES ASSUME Init PROVE IInv
  OBVIOUS
<1>1. Held(shared) = {} /\ Held(weak) = {}
  BY DEF Init, Held
<1>2. TypeOK
  BY <1>1, SharedConstants, FS_EmptySet DEF Init, TypeOK, Owners, Labels
<1>3. Making
  BY <1>1, SharedConstants DEF Init, Making, Alone, NoHandles
<1>4. QED
  BY <1>2, <1>3 DEF IInv, Phase

-----------------------------------------------------------------------------
(* Steps. *)

\* make_shared goes on, alone.
LEMMA MakingSteps ==
  ASSUME IInv, NEW t \in Threads,
         \/ make_control(t) \/ make_data(t) \/ adopt(t) \/ make_shared(t)
         \/ inc_strong_weak(t)
  PROVE  IInv'
<1>1. Making /\ t = Creator
  BY DEF IInv, Phase, Making, Owned, Ending, Expired, Freeing, Gone, Alone,
         make_control, make_data, adopt, make_shared, inc_strong_weak
<1> USE <1>1, SharedConstants DEF IInv, TypeOK, Labels, Goto
<1>2. CASE make_control(t)
  <2>1. TypeOK'
    BY <1>2 DEF make_control, counts, Held
  <2>2. Making' \/ Gone'
    BY <1>2 DEF make_control, counts, Making, Gone, Alone, NoHandles, Held
  <2>3. QED
    BY <2>1, <2>2 DEF Phase
<1>3. CASE make_data(t)
  <2>0. m_data' \in BOOLEAN
    BY <1>3, Zenon DEF make_data
  <2>1. TypeOK'
    BY <1>3, <2>0 DEF make_data, counts, Held
  <2>2. Making' \/ Gone'
    BY <1>3 DEF make_data, counts, Making, Gone, Alone, NoHandles, Held
  <2>3. QED
    BY <2>1, <2>2 DEF Phase
<1>4. CASE adopt(t)
  <2>0. m_data' \in BOOLEAN
    BY <1>4, Zenon DEF adopt
  <2>1. TypeOK'
    BY <1>4, <2>0 DEF adopt, counts, Held
  <2>2. Making' \/ Gone'
    BY <1>4 DEF adopt, counts, Making, Gone, Alone, NoHandles, Held
  <2>3. QED
    BY <2>1, <2>2 DEF Phase
<1>5. CASE make_shared(t)
  <2>1. /\ m_strong_count = 0 /\ m_strong_count' = 1
        /\ Goto(t, "inc_weak") /\ UNCHANGED <<m_weak_count, memory, shared, weak>>
    BY <1>5 DEF make_shared, inc_strong, Making
  <2>2. TypeOK'
    BY <2>1 DEF memory, Held
  <2>3. Making'
    BY <1>5, <2>1 DEF make_shared, memory, Making, Alone, NoHandles, Held
  <2>4. QED
    BY <2>2, <2>3 DEF Phase
<1>6. CASE inc_strong_weak(t)
  <2>1. /\ m_strong_count = 1 /\ m_weak_count = 0
        /\ m_strong_count' = 1 /\ m_weak_count' = 1
        /\ shared' \in Makes(shared, t) /\ UNCHANGED <<memory, weak>>
    BY <1>6 DEF inc_strong_weak, Making
  <2>2. /\ shared' \in Owners /\ IsFiniteSet(Held(shared'))
        /\ Count(shared') = 1 /\ Held(shared') # {} /\ Count(weak) = 0
    BY <2>1, MakesOne, CountZero DEF Making, NoHandles
  <2>3. TypeOK'
    BY <1>6, <2>1, <2>2 DEF inc_strong_weak, memory, Held
  <2>4. Owned'
    BY <1>6, <2>1, <2>2 DEF inc_strong_weak, memory, Making, Alone, Owned, Count, Held
  <2>5. QED
    BY <2>3, <2>4 DEF Phase
<1>7. QED
  BY <1>2, <1>3, <1>4, <1>5, <1>6

\* The thread that dropped the last shared_ptr destroys the object, and the
\* one that dropped the last handle the control block.
LEMMA EndingSteps ==
  ASSUME IInv, NEW t \in Threads,
         deinit(t) \/ destroy(t) \/ dec_weak(t) \/ free(t)
  PROVE  IInv'
<1> USE SharedConstants DEF IInv, TypeOK, Labels, Goto
<1>1. CASE deinit(t)
  <2>1. /\ Ending /\ pc[t] = "deinit" /\ Alone(t)
        /\ m_data /\ destroyed = 0
    BY <1>1 DEF Phase, Making, Owned, Ending, Expired, Freeing, Gone, Alone, deinit
  <2>2. TypeOK'
    BY <1>1 DEF deinit, counts, memory, Held
  <2>3. pc' = [pc EXCEPT ![t] = "destroy"] /\ UNCHANGED <<counts, memory, shared, weak>>
    BY <1>1, <2>1 DEF deinit
  <2>4. Ending'
    BY <2>1, <2>3 DEF Ending, Alone, counts, memory, Held, Count
  <2>5. QED
    BY <2>2, <2>4 DEF Phase
<1>2. CASE destroy(t)
  <2>1. /\ Ending /\ pc[t] = "destroy" /\ Alone(t) /\ destroyed < ArrayCount
    BY <1>2 DEF Phase, Making, Owned, Ending, Expired, Freeing, Gone, Alone, destroy
  <2>0. m_data' \in BOOLEAN
    BY <1>2, Zenon DEF destroy
  <2>2. TypeOK'
    BY <1>2, <2>0 DEF destroy, counts, Held
  <2>3. Ending'
    BY <1>2, <2>1 DEF destroy, Ending, Alone, counts, Held, Count
  <2>4. QED
    BY <2>2, <2>3 DEF Phase
<1>3. CASE dec_weak(t)
  <2>1. /\ Ending /\ pc[t] = "dec_weak" /\ Alone(t)
        /\ Held(shared) = {} /\ ~m_data /\ destroyed = ArrayCount /\ made = ArrayCount
        /\ blocks = 1 /\ freed = 0 /\ m_strong_count = 0
        /\ m_weak_count = Count(weak) + 1
    BY <1>3 DEF Phase, Making, Owned, Ending, Expired, Freeing, Gone, Alone, dec_weak
  <2>2. Count(weak) \in Nat /\ (Count(weak) = 0 <=> Held(weak) = {})
    BY CountZero
  <2>3. TypeOK'
    BY <1>3, <2>1, <2>2 DEF dec_weak, AfterDecWeak, memory, Held
  <2>4. Expired' \/ Freeing'
    <3>1. CASE Held(weak) = {}
      BY <1>3, <2>1, <2>2, <3>1
      DEF dec_weak, AfterDecWeak, memory, Freeing, Alone, NoHandles, Held
    <3>2. CASE Held(weak) # {}
      BY <1>3, <2>1, <2>2, <3>2
      DEF dec_weak, AfterDecWeak, memory, Expired, Alone, Held, Count
    <3>3. QED
      BY <3>1, <3>2
  <2>5. QED
    BY <2>3, <2>4 DEF Phase
<1>4. CASE free(t)
  <2>1. Freeing /\ pc[t] = "free" /\ Alone(t)
    BY <1>4 DEF Phase, Making, Owned, Ending, Expired, Freeing, Gone, Alone, free
  <2>2. TypeOK'
    BY <1>4 DEF free, counts, Held
  <2>3. Gone'
    BY <1>4, <2>1 DEF free, Freeing, Gone, Alone, NoHandles, counts, Held
  <2>4. QED
    BY <2>2, <2>3 DEF Phase
<1>5. QED
  BY <1>1, <1>2, <1>3, <1>4

\* A shared_ptr is copied, or made by lock: the counter was not zero.
LEMMA IncStrongSteps ==
  ASSUME LockHolding, IInv, NEW t \in Threads, copy_shared(t) \/ lock(t)
  PROVE  IInv'
<1> USE SharedConstants DEF IInv, TypeOK, Labels, Goto
<1>1. Owned /\ inc_strong(t)
  BY DEF Phase, Making, Owned, Ending, Expired, Freeing, Gone, Alone, NoHandles,
         Held, Of, copy_shared, lock
<1>2. Count(shared) \in Nat \ {0}
  BY <1>1, CountZero DEF Owned
<1>3. /\ m_strong_count' = m_strong_count + 1 /\ pc' = [pc EXCEPT ![t] = "idle"]
      /\ shared' \in Makes(shared, t) /\ UNCHANGED <<m_weak_count, memory, weak>>
  BY <1>1, <1>2 DEF inc_strong, Owned
<1>4. /\ shared' \in Owners /\ IsFiniteSet(Held(shared')) /\ Held(shared') # {}
      /\ Count(shared') = Count(shared) + 1
      /\ \A u \in Threads : Of(shared, u) \subseteq Of(shared', u)
  BY <1>3, MakesOne
<1>5. TypeOK'
  BY <1>3, <1>4 DEF memory, Held
<1>6. Owned'
  BY <1>1, <1>3, <1>4 DEF Owned, memory, Held, Of, Count
<1>7. QED
  BY <1>5, <1>6 DEF Phase

\* The last shared_ptr is the one whose reset sees a count of one.
LEMMA DecStrongSteps ==
  ASSUME IInv, NEW t \in Threads, reset_shared(t)
  PROVE  IInv'
<1> USE SharedConstants DEF IInv, TypeOK, Labels, Goto
<1>1. /\ shared' \in Owners /\ IsFiniteSet(Held(shared')) /\ Held(shared) # {}
      /\ Count(shared') = Count(shared) - 1
      /\ \A u \in Threads \ {t} : Of(shared', u) = Of(shared, u)
  BY DropsOne DEF reset_shared
<1>2. Owned
  BY <1>1 DEF Phase, Making, Ending, Expired, Freeing, Gone, NoHandles
<1>3. /\ Count(shared) \in Nat \ {0}
      /\ Count(shared') \in Nat /\ (Count(shared') = 0 <=> Held(shared') = {})
  BY <1>1, CountZero
<1>4. m_strong_count = Count(shared) /\ m_strong_count' = Count(shared')
  BY <1>1, <1>2, <1>3 DEF Owned, reset_shared
<1>5. TypeOK'
  BY <1>1, <1>3, <1>4 DEF reset_shared, memory, Held
<1>6. CASE Held(shared') = {}
  <2>1. /\ pc' = [pc EXCEPT ![t] = "deinit"]
        /\ UNCHANGED <<m_weak_count, memory, weak>>
    BY <1>3, <1>4, <1>6, <1>1 DEF reset_shared
  <2>2. Alone(t)
    BY <1>1, <1>2, <1>6 DEF Owned, Alone, Held, Of
  <2>3. Ending'
    BY <1>2, <1>3, <1>4, <1>6, <2>1, <2>2 DEF Owned, Ending, Alone, memory, Held, Count
  <2>4. QED
    BY <1>5, <2>3 DEF Phase
<1>7. CASE Held(shared') # {}
  <2>1. pc[t] = "idle" /\ UNCHANGED <<m_weak_count, memory, weak>>
    BY DEF reset_shared
  <2>2. pc' = [pc EXCEPT ![t] = "idle"]
    <3>1. m_strong_count # 1
      BY <1>1, <1>3, <1>4, <1>7
    <3>2. QED
      BY <3>1 DEF reset_shared
  <2>3. Owned'
    BY <1>1, <1>2, <1>4, <1>7, <2>1, <2>2 DEF Owned, memory, Held, Of, Count
  <2>4. QED
    BY <1>5, <2>3 DEF Phase
<1>8. QED
  BY <1>6, <1>7

\* A weak_ptr changes no phase while it can be made.
LEMMA IncWeakSteps ==
  ASSUME IInv, NEW t \in Threads, make_weak(t)
  PROVE  IInv'
<1> USE SharedConstants DEF IInv, TypeOK, Labels, Goto
<1>1. /\ weak' \in Owners /\ IsFiniteSet(Held(weak')) /\ Held(weak') # {}
      /\ Count(weak') = Count(weak) + 1 /\ Count(weak) \in Nat
  BY MakesOne, CountZero DEF make_weak
<1>2. /\ m_weak_count' = m_weak_count + 1
      /\ UNCHANGED <<m_strong_count, memory, shared, pc>>
  BY DEF make_weak
<1>3. TypeOK'
  BY <1>1, <1>2 DEF memory, Held
<1>4. CASE Owned
  <2>1. Owned'
    BY <1>1, <1>2, <1>4 DEF Owned, memory, Held, Of, Count
  <2>2. QED
    BY <1>3, <2>1 DEF Phase
<1>5. CASE Ending
  <2>1. Ending'
    BY <1>1, <1>2, <1>5 DEF Ending, Alone, memory, Held, Count
  <2>2. QED
    BY <1>3, <2>1 DEF Phase
<1>6. CASE Expired
  <2>1. Expired'
    BY <1>1, <1>2, <1>6 DEF Expired, memory, Held, Count
  <2>2. QED
    BY <1>3, <2>1 DEF Phase
<1>7. Held(shared) # {} \/ Held(weak) # {}
  BY DEF make_weak, Held, Of
<1>8. QED
  BY <1>4, <1>5, <1>6, <1>7 DEF Phase, Making, Freeing, Gone, NoHandles

\* The last handle is the one whose reset sees a weak count of one.
LEMMA DecWeakSteps ==
  ASSUME IInv, NEW t \in Threads, reset_weak(t)
  PROVE  IInv'
<1> USE SharedConstants DEF IInv, TypeOK, Labels, Goto
<1>1. /\ weak' \in Owners /\ IsFiniteSet(Held(weak')) /\ Held(weak) # {}
      /\ Count(weak') = Count(weak) - 1
  BY DropsOne DEF reset_weak
<1>2. /\ Count(weak) \in Nat \ {0}
      /\ Count(weak') \in Nat /\ (Count(weak') = 0 <=> Held(weak') = {})
  BY <1>1, CountZero
<1>3. /\ pc[t] = "idle" /\ m_weak_count' = m_weak_count - 1
      /\ pc' = [pc EXCEPT ![t] = IF m_weak_count = 1 THEN "free" ELSE "idle"]
      /\ UNCHANGED <<m_strong_count, memory, shared>>
  BY DEF reset_weak, AfterDecWeak
<1>4. m_weak_count \in {Count(weak), Count(weak) + 1}
  BY <1>1 DEF Phase, Making, Owned, Ending, Expired, Freeing, Gone, NoHandles
<1>5. TypeOK'
  BY <1>1, <1>2, <1>3, <1>4 DEF memory, Held
<1>6. CASE Owned
  <2>1. pc' = [pc EXCEPT ![t] = "idle"]
    <3>1. m_weak_count # 1
      BY <1>2, <1>6 DEF Owned
    <3>2. QED
      BY <1>3, <3>1
  <2>2. Owned'
    <3>1. m_weak_count' = Count(weak') + 1
      BY <1>1, <1>2, <1>3, <1>6 DEF Owned
    <3>2. QED
      BY <1>3, <1>6, <2>1, <3>1 DEF Owned, memory
  <2>3. QED
    BY <1>5, <2>2 DEF Phase
<1>7. CASE Ending
  <2>1. pc' = [pc EXCEPT ![t] = "idle"]
    <3>1. m_weak_count # 1
      BY <1>2, <1>7 DEF Ending
    <3>2. QED
      BY <1>3, <3>1
  <2>2. Ending'
    <3>1. m_weak_count' = Count(weak') + 1
      BY <1>1, <1>2, <1>3, <1>7 DEF Ending
    <3>2. QED
      BY <1>3, <1>7, <2>1, <3>1 DEF Ending, Alone, memory
  <2>3. QED
    BY <1>5, <2>2 DEF Phase
<1>8. CASE Expired
  <2>1. CASE Held(weak') = {}
    <3>1. pc' = [pc EXCEPT ![t] = "free"] /\ m_weak_count' = 0
      BY <1>1, <1>2, <1>3, <1>8, <2>1 DEF Expired
    <3>2. Freeing'
      BY <1>3, <1>8, <2>1, <3>1 DEF Expired, Freeing, Alone, NoHandles, memory, Held
    <3>3. QED
      BY <1>5, <3>2 DEF Phase
  <2>2. CASE Held(weak') # {}
    <3>1. pc' = [pc EXCEPT ![t] = "idle"] /\ m_weak_count' = Count(weak')
      <4>1. m_weak_count # 1 /\ m_weak_count - 1 = Count(weak')
        BY <1>1, <1>2, <1>8, <2>2 DEF Expired
      <4>2. QED
        BY <1>3, <4>1
    <3>2. Expired'
      BY <1>3, <1>8, <2>2, <3>1 DEF Expired, memory, Held, Count
    <3>3. QED
      BY <1>5, <3>2 DEF Phase
  <2>3. QED
    BY <2>1, <2>2
<1>9. QED
  BY <1>1, <1>6, <1>7, <1>8 DEF Phase, Making, Freeing, Gone, NoHandles

\* expired() of a thread that owns a shared_ptr is not the last word, but the
\* object cannot go away before the thread has incremented the counter.
LEMMA LockSteps ==
  ASSUME LockHolding, IInv, NEW t \in Threads, expired(t)
  PROVE  IInv'
<1> USE SharedConstants DEF IInv, TypeOK, Labels, Goto
<1>1. Owned /\ Of(shared, t) # {}
  BY DEF Phase, Making, Owned, Ending, Expired, Freeing, Gone, NoHandles, Held, Of,
         expired
<1>2. TypeOK'
  BY DEF expired, counts, memory, Held
<1>3. Owned'
  BY <1>1 DEF expired, Owned, counts, memory, Held, Of, Count
<1>4. QED
  BY <1>2, <1>3 DEF Phase

\* A handle that is handed over is one of the same kind as before.
LEMMA MoveSteps ==
  ASSUME IInv, NEW t \in Threads, NEW u \in Threads, move(t, u)
  PROVE  IInv'
<1> USE SharedConstants DEF IInv, TypeOK, Labels
<1>1. pc[t] = "idle" /\ UNCHANGED <<counts, memory, pc>>
  BY DEF move
<1>2. CASE shared' \in HandsOver(shared, t, u) /\ UNCHANGED weak
  <2>1. /\ shared' \in Owners /\ Held(shared') = Held(shared) /\ Held(shared) # {}
        /\ \A v \in Threads \ {t} : Of(shared, v) \subseteq Of(shared', v)
    BY <1>2, HandsOverOne
  <2>2. TypeOK'
    BY <1>1, <1>2, <2>1 DEF counts, memory, Held
  <2>3. Owned
    BY <2>1 DEF Phase, Making, Ending, Expired, Freeing, Gone, NoHandles
  <2>4. Owned'
    <3>1. Count(shared') = Count(shared)
      BY <2>1 DEF Count
    <3>2. \A v \in Threads : pc[v] = "lock" => Of(shared', v) # {}
      BY <1>1, <2>1, <2>3 DEF Owned
    <3>3. QED
      BY <1>1, <1>2, <2>1, <2>3, <3>1, <3>2 DEF Owned, counts, memory
  <2>5. QED
    BY <2>2, <2>4 DEF Phase
<1>3. CASE weak' \in HandsOver(weak, t, u) /\ UNCHANGED shared
  <2>1. weak' \in Owners /\ Held(weak') = Held(weak)
    BY <1>3, HandsOverOne
  <2>2. TypeOK'
    BY <1>1, <1>3, <2>1 DEF counts, memory, Held
  <2>3. Count(weak') = Count(weak)
    BY <2>1 DEF Count
  <2>4. Phase'
    BY <1>1, <1>3, <2>1, <2>3
    DEF Phase, Making, Owned, Ending, Expired, Freeing, Gone, Alone, NoHandles,
        counts, memory
  <2>5. QED
    BY <2>2, <2>4
<1>4. QED
  BY <1>2, <1>3 DEF move

\* No step leaves the phases.
LEMMA StepInvariant == ASSUME LockHolding PROVE IInv /\ [Next]_vars => IInv'
<1> SUFFICES ASSUME IInv, [Next]_vars PROVE IInv'
  OBVIOUS
<1>1. CASE Next
  BY <1>1, MakingSteps, EndingSteps, IncStrongSteps, DecStrongSteps, IncWeakSteps,
     DecWeakSteps, LockSteps, MoveSteps
  DEF Next, Finish
<1>2. CASE UNCHANGED vars
  BY <1>2
  DEF IInv, TypeOK, Phase, Making, Owned, Ending, Expired, Freeing, Gone, Alone,
      NoHandles, vars, counts, memory, Held, Of, Count
<1>3. QED
  BY <1>1, <1>2

\* The phases cover every reachable state.
LEMMA Invariance == ASSUME LockHolding PROVE Spec => []IInv
  BY InitInvariant, StepInvariant, PTL DEF Spec

-----------------------------------------------------------------------------
(* What follows. *)

\* Both counters of the control block are exact in every state, between the
\* steps of inc_strong and of dec_strong too.
THEOREM ExactCounts == ASSUME LockHolding PROVE Spec => []CountsExact
<1>1. ASSUME IInv PROVE CountsExact
  <2>1. /\ Count(shared) \in Nat /\ (Count(shared) = 0 <=> Held(shared) = {})
        /\ Count(weak) \in Nat /\ (Count(weak) = 0 <=> Held(weak) = {})
    BY <1>1, CountZero DEF IInv, TypeOK
  <2>2. CASE Making /\ pc[Creator] = "inc_weak"
    <3>1. At({"inc_weak"}) = {Creator} /\ At({"deinit", "destroy", "dec_weak"}) = {}
      BY <2>2, SharedConstants DEF Making, Alone, At
    <3>2. Cardinality(At({"inc_weak"})) = 1
      BY <3>1, FS_Singleton
    <3>3. QED
      BY <2>1, <2>2, <3>1, <3>2 DEF CountsExact, Making, NoHandles
  <2>3. CASE ~(Making /\ pc[Creator] = "inc_weak")
    <3>1. At({"inc_weak"}) = {}
      BY <1>1, <2>3
      DEF IInv, Phase, Making, Owned, Ending, Expired, Freeing, Gone, Alone, At
    <3>2. Cardinality(At({"inc_weak"})) = 0
      BY <3>1, FS_EmptySet
    <3>3. QED
      BY <1>1, <2>1, <2>3, <3>2, SharedConstants
      DEF IInv, Phase, Making, Owned, Ending, Expired, Freeing, Gone, Alone,
          NoHandles, At, CountsExact
  <2>4. QED
    BY <2>2, <2>3
<1>2. QED
  BY <1>1, Invariance, PTL

\* Whoever owns a shared_ptr can use the object.
THEOREM OwnersAreSafe == ASSUME LockHolding PROVE Spec => []OwnersSeeData
<1>1. ASSUME IInv PROVE OwnersSeeData
  BY <1>1, CountZero
  DEF IInv, TypeOK, Phase, Making, Owned, Ending, Expired, Freeing, Gone, NoHandles,
      OwnersSeeData
<1>2. QED
  BY <1>1, Invariance, PTL

\* No handle and no call is left with a deleted control block, and nothing is
\* deleted twice.
THEOREM BlocksAreSafe == ASSUME LockHolding PROVE Spec => []BlockOutlivesHandles
<1>1. ASSUME IInv PROVE BlockOutlivesHandles
  <2>1. Count(weak) \in Nat /\ (Count(weak) = 0 <=> Held(weak) = {})
    BY <1>1, CountZero DEF IInv, TypeOK
  <2>2. destroyed <= made /\ freed <= blocks
    BY <1>1, SharedConstants
    DEF IInv, TypeOK, Phase, Making, Owned, Ending, Expired, Freeing, Gone
  <2>3. Count(weak) > 0 \/ At(Labels \ {"idle", "free"}) # {} => freed = 0
    BY <1>1, <2>1
    DEF IInv, Phase, Making, Owned, Ending, Expired, Freeing, Gone, NoHandles, At
  <2>4. QED
    BY <2>2, <2>3 DEF BlockOutlivesHandles
<1>2. QED
  BY <1>1, Invariance, PTL

\* Whatever was made has been given back when the last handle is gone.
THEOREM NothingLeaks == ASSUME LockHolding PROVE Spec => []NoLeak
<1>1. ASSUME IInv PROVE NoLeak
  <2>1. Count(shared) + Count(weak) = 0 => NoHandles
    BY <1>1, CountZero DEF IInv, TypeOK, NoHandles
  <2>2. QED
    BY <1>1, <2>1, SharedConstants
    DEF IInv, Phase, Making, Owned, Ending, Expired, Freeing, Gone, NoHandles, At, NoLeak
<1>2. QED
  BY <1>1, Invariance, PTL

=============================================================================
