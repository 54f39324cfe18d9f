------------------------------ MODULE SharedPtr ------------------------------
(***************************************************************************)
(* shared_ptr, weak_ptr and their control block (rtlcpp/memory.hpp): one   *)
(* object, and threads that copy, pass on, lock and drop handles to it.    *)
(*                                                                         *)
(* Every atomic operation on a counter is a step of its own; so are the    *)
(* destruction of the object and the deallocation of the control block,    *)
(* which are not atomic in the code.  A handle belongs to a thread from    *)
(* the moment its constructor has returned until its reset begins.  The    *)
(* object is an array of ArrayCount elements; the control block of a       *)
(* single object is the case of one.                                       *)
(***************************************************************************)
EXTENDS Integers, FiniteSets

CONSTANTS
  Threads, Nobody,
  Creator,       \* the thread that calls make_shared
  ArrayCount,    \* number of elements
  Handles,       \* names of the handles of each kind, as many as are in use
  LockHolding    \* TRUE: lock() is only called by a thread that also owns a
                 \* shared_ptr to the object

ASSUME SharedConstants ==
  /\ Creator \in Threads /\ Nobody \notin Threads
  /\ ArrayCount \in Nat \ {0}
  /\ LockHolding \in BOOLEAN

VARIABLES
  m_strong_count, m_weak_count,
  made,          \* how many elements have been constructed
  blocks,        \* how many control blocks have been allocated
  m_data,        \* the control block points to the elements
  destroyed,     \* how often ~T has run
  freed,         \* how often the control block has been deallocated
  shared,        \* shared_ptr -> the thread that owns it, or Nobody
  weak,          \* weak_ptr -> the thread that owns it, or Nobody
  pc             \* thread -> where it is in a call

counts == <<m_strong_count, m_weak_count>>
memory == <<made, blocks, m_data, destroyed, freed>>
vars   == <<counts, memory, shared, weak, pc>>

Goto(t, l) == pc' = [pc EXCEPT ![t] = l]

\* The handles there are, and those of one thread.
Held(f)  == {h \in Handles : f[h] # Nobody}
Of(f, t) == {h \in Handles : f[h] = t}

\* How the owners change when t makes, drops or hands over a handle.
Makes(f, t)        == {[f EXCEPT ![h] = t] : h \in Handles \ Held(f)}
Drops(f, t)        == {[f EXCEPT ![h] = Nobody] : h \in Of(f, t)}
HandsOver(f, t, u) == {[f EXCEPT ![h] = u] : h \in Of(f, t)}

-----------------------------------------------------------------------------
(* control_blk *)

\* The first step of inc_strong; the caller's shared_ptr is complete unless
\* the counter was zero.
inc_strong(t) ==
  /\ m_strong_count' = m_strong_count + 1
  /\ IF m_strong_count = 0
       THEN Goto(t, "inc_weak") /\ UNCHANGED shared
       ELSE Goto(t, "idle") /\ shared' \in Makes(shared, t)
  /\ UNCHANGED <<m_weak_count, memory, weak>>

\* Its second step, when the counter was zero.
inc_strong_weak(t) ==
  /\ pc[t] = "inc_weak"
  /\ m_weak_count' = m_weak_count + 1
  /\ shared' \in Makes(shared, t)
  /\ Goto(t, "idle")
  /\ UNCHANGED <<m_strong_count, memory, weak>>

\* deinit: the test of m_data, then ~T for one element after the other,
\* deallocate and the assignment.
deinit(t) ==
  /\ pc[t] = "deinit"
  /\ Goto(t, IF m_data THEN "destroy" ELSE "dec_weak")
  /\ UNCHANGED <<counts, memory, shared, weak>>

\* Mutant: the control block goes with the object.
destroy_both(t) ==
  /\ pc[t] = "destroy"
  /\ destroyed' = destroyed + ArrayCount
  /\ m_data' = FALSE
  /\ freed' = freed + 1
  /\ Goto(t, "dec_weak")
  /\ UNCHANGED <<counts, made, blocks, shared, weak>>

destroy(t) ==
  /\ pc[t] = "destroy"
  /\ destroyed' = destroyed + 1
  /\ IF destroyed' < ArrayCount
       THEN UNCHANGED <<m_data, pc>>
       ELSE m_data' = FALSE /\ Goto(t, "dec_weak")
  /\ UNCHANGED <<counts, made, blocks, freed, shared, weak>>

\* Mutant: the previous value is compared with 0.
AfterDecWeak_zero(t) ==
  /\ m_weak_count' = m_weak_count - 1
  /\ Goto(t, IF m_weak_count = 0 THEN "free" ELSE "idle")

\* dec_weak, from dec_strong and from weak_ptr::reset.
AfterDecWeak(t) ==
  /\ m_weak_count' = m_weak_count - 1
  /\ Goto(t, IF m_weak_count = 1 THEN "free" ELSE "idle")

dec_weak(t) ==
  /\ pc[t] = "dec_weak"
  /\ AfterDecWeak(t)
  /\ UNCHANGED <<m_strong_count, memory, shared, weak>>

\* reset of the last handle deallocates the control block.
free(t) ==
  /\ pc[t] = "free"
  /\ freed' = freed + 1
  /\ Goto(t, "idle")
  /\ UNCHANGED <<counts, made, blocks, m_data, destroyed, shared, weak>>

-----------------------------------------------------------------------------
(* Handles. *)

\* make_shared allocates the control block; without it the result is empty.
make_control(t) ==
  /\ pc[t] = "make"
  /\ \/ blocks' = 1 /\ Goto(t, "make_data")
     \/ Goto(t, "idle") /\ UNCHANGED blocks
  /\ UNCHANGED <<counts, made, m_data, destroyed, freed, shared, weak>>

\* It allocates and constructs the elements, or gives the control block back.
make_data(t) ==
  /\ pc[t] = "make_data"
  /\ \/ /\ made' = ArrayCount /\ m_data' = TRUE
        /\ Goto(t, "make_first")
        /\ UNCHANGED freed
     \/ /\ freed' = freed + 1
        /\ Goto(t, "idle")
        /\ UNCHANGED <<made, m_data>>
  /\ UNCHANGED <<counts, blocks, destroyed, shared, weak>>

\* The overloads that take a pointer adopt elements of the caller's; when the
\* control block cannot be had, the caller keeps them.
adopt(t) ==
  /\ pc[t] = "make"
  /\ \/ /\ blocks' = 1 /\ made' = ArrayCount /\ m_data' = TRUE
        /\ Goto(t, "make_first")
     \/ Goto(t, "idle") /\ UNCHANGED <<blocks, made, m_data>>
  /\ UNCHANGED <<counts, destroyed, freed, shared, weak>>

\* It calls the constructor of the first shared_ptr.
make_shared(t) == pc[t] = "make_first" /\ inc_strong(t)

copy_shared(t) ==
  /\ pc[t] = "idle" /\ Of(shared, t) # {}
  /\ inc_strong(t)

\* Mutant: the object is destroyed one shared_ptr too early.
reset_shared_early(t) ==
  /\ pc[t] = "idle"
  /\ shared' \in Drops(shared, t)
  /\ m_strong_count' = m_strong_count - 1
  /\ Goto(t, IF m_strong_count = 2 THEN "deinit" ELSE "idle")
  /\ UNCHANGED <<m_weak_count, memory, weak>>

\* shared_ptr::reset, the destructor and the assignments: dec_strong.
reset_shared(t) ==
  /\ pc[t] = "idle"
  /\ shared' \in Drops(shared, t)
  /\ m_strong_count' = m_strong_count - 1
  /\ Goto(t, IF m_strong_count = 1 THEN "deinit" ELSE "idle")
  /\ UNCHANGED <<m_weak_count, memory, weak>>

\* Mutant: a weak_ptr is not counted.
make_weak_uncounted(t) ==
  /\ pc[t] = "idle" /\ Of(shared, t) \cup Of(weak, t) # {}
  /\ weak' \in Makes(weak, t)
  /\ UNCHANGED <<counts, memory, shared, pc>>

\* A weak_ptr from a shared_ptr or from another weak_ptr: inc_weak.
make_weak(t) ==
  /\ pc[t] = "idle" /\ Of(shared, t) \cup Of(weak, t) # {}
  /\ m_weak_count' = m_weak_count + 1
  /\ weak' \in Makes(weak, t)
  /\ UNCHANGED <<m_strong_count, memory, shared, pc>>

reset_weak(t) ==
  /\ pc[t] = "idle"
  /\ weak' \in Drops(weak, t)
  /\ AfterDecWeak(t)
  /\ UNCHANGED <<m_strong_count, memory, shared>>

\* weak_ptr::lock: expired() reads the strong count ...
expired(t) ==
  /\ pc[t] = "idle" /\ Of(weak, t) # {}
  /\ LockHolding => Of(shared, t) # {}
  /\ m_strong_count # 0
  /\ Goto(t, "lock")
  /\ UNCHANGED <<counts, memory, shared, weak>>

\* ... and the constructor of shared_ptr increments it later.
lock(t) == pc[t] = "lock" /\ inc_strong(t)

\* Handles move to other threads without touching the counters.
move(t, u) ==
  /\ pc[t] = "idle" /\ t # u
  /\ \/ shared' \in HandsOver(shared, t, u) /\ UNCHANGED weak
     \/ weak' \in HandsOver(weak, t, u) /\ UNCHANGED shared
  /\ UNCHANGED <<counts, memory, pc>>

Init ==
  /\ m_strong_count = 0 /\ m_weak_count = 0
  /\ made = 0 /\ blocks = 0 /\ m_data = FALSE /\ destroyed = 0 /\ freed = 0
  /\ shared = [h \in Handles |-> Nobody] /\ weak = [h \in Handles |-> Nobody]
  /\ pc = [t \in Threads |-> IF t = Creator THEN "make" ELSE "idle"]

\* The steps that finish a call.
Finish(t) ==
  inc_strong_weak(t) \/ deinit(t) \/ destroy(t) \/ dec_weak(t) \/ free(t)

Next ==
  \E t \in Threads :
    \/ make_control(t) \/ make_data(t) \/ adopt(t) \/ make_shared(t)
    \/ Finish(t)
    \/ copy_shared(t) \/ reset_shared(t)
    \/ make_weak(t) \/ reset_weak(t)
    \/ expired(t) \/ lock(t)
    \/ \E u \in Threads : move(t, u)

Spec == Init /\ [][Next]_vars

-----------------------------------------------------------------------------
(* Properties. *)

Count(f) == Cardinality(Held(f))

At(ls) == {t \in Threads : pc[t] \in ls}

Labels ==
  {"make", "make_data", "make_first", "idle", "inc_weak", "lock",
   "deinit", "destroy", "dec_weak", "free"}

\* The strong count is the number of shared_ptrs; "This number is +1 if
\* m_strong_count is >0": the weak count is the number of weak_ptrs, and one
\* more from the first shared_ptr until its last one has destroyed the object.
CountsExact ==
  /\ m_strong_count = Count(shared) + Cardinality(At({"inc_weak"}))
  /\ m_weak_count = Count(weak)
       + (IF Count(shared) > 0 \/ At({"deinit", "destroy", "dec_weak"}) # {}
            THEN 1 ELSE 0)

\* "The data pointed to by m_data is deleted when this is zero": whoever owns
\* a shared_ptr can use the object.
OwnersSeeData ==
  Count(shared) > 0 => m_data /\ destroyed = 0 /\ freed = 0

\* "This control block should be deleted when this number is 0": no handle,
\* and no thread in the middle of a call, is left with a deleted control
\* block, and nothing is deleted twice.
BlockOutlivesHandles ==
  /\ destroyed <= made /\ freed <= blocks
  /\ Count(weak) > 0 \/ At(Labels \ {"idle", "free"}) # {} => freed = 0

\* When the last handle is gone and its reset has returned, or make_shared has
\* run out of memory, every element and the control block have been deleted,
\* whichever threads raced for it.
NoLeak ==
  Count(shared) + Count(weak) = 0 /\ At({"idle"}) = Threads =>
    destroyed = made /\ freed = blocks

=============================================================================
