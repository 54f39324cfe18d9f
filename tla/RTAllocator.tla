---------------------------- MODULE RTAllocator ----------------------------
(***************************************************************************)
(* RTAllocator<Mutex> and MMapMemoryResource (rtlcpp/allocator.hpp,        *)
(* allocator.cpp): threads that share allocators, move them onto one       *)
(* another and take them down, over buffers that are mapped and unmapped.  *)
(*                                                                         *)
(* Every allocator has a mutex; locking, the work on the members, the work *)
(* inside the arena and unlocking are steps of their own.  An arena is     *)
(* named by the buffer it lives in; what happens inside it is Tlsf.  The   *)
(* mutex is used by the contract of Mutex, std::lock by that of the C++    *)
(* standard.  A failed assertion ends the program.                         *)
(***************************************************************************)
EXTENDS Integers, FiniteSets

CONSTANTS Threads, Nobody, Allocators, Resources, Buffers, NULL, MAP_FAILED

ASSUME AllocatorConstants ==
  /\ Nobody \notin Threads
  /\ NULL \notin Buffers \cup Allocators
  /\ MAP_FAILED \notin Buffers

VARIABLES
  resource,   \* Resources -> [m_initialized, m_buf]
  mapped,     \* buffers that are mapped
  orphans,    \* buffers that are mapped and that no resource knows of
  here,       \* allocators that have been constructed
  m_alloc,    \* Allocators -> [m_initialized, m_arena]
  m_mtx,      \* Allocators -> the thread that has locked its mutex, or Nobody
  call,       \* Threads -> the call it is in: its name, object and argument
  pc,         \* Threads -> where it is in the call
  using,      \* Threads -> the arena it is working in, or NULL
  aborted     \* an assertion has failed

resources == <<resource, mapped, orphans>>
threads   == <<call, pc, using>>
vars      == <<resources, here, m_alloc, m_mtx, threads, aborted>>

Empty  == [m_initialized |-> FALSE, m_arena |-> NULL]
NoCall == [op |-> "none", this |-> NULL, arg |-> NULL]

\* Buffers an allocator works in, or that a call is about to give to one.
InUse == {m_alloc[a].m_arena : a \in Allocators} \cup {using[t] : t \in Threads}
           \cup {call[t].arg : t \in {u \in Threads : call[u].op = "init"}}

-----------------------------------------------------------------------------
(* MMapMemoryResource, used by one thread and outside the locks. *)

Unmapped == [m_initialized |-> FALSE, m_buf |-> NULL]

\* A resource that is initialized only says so; one that cannot get memory
\* keeps the value that mmap returned.
mmap_init(r) ==
  /\ ~aborted /\ ~resource[r].m_initialized
  /\ \/ \E b \in Buffers \ mapped :
          /\ mapped' = mapped \cup {b}
          /\ resource' = [resource EXCEPT ![r] =
                            [m_initialized |-> TRUE, m_buf |-> b]]
     \/ /\ resource' = [resource EXCEPT ![r] =
                         [m_initialized |-> FALSE, m_buf |-> MAP_FAILED]]
        /\ UNCHANGED mapped
  /\ UNCHANGED <<orphans, here, m_alloc, m_mtx, threads, aborted>>

\* Mutant: the members are not reset.
mmap_uninit_keeps(r) ==
  /\ ~aborted /\ resource[r].m_initialized /\ resource[r].m_buf \notin InUse
  /\ mapped' = mapped \ {resource[r].m_buf}
  /\ UNCHANGED <<resource, orphans, here, m_alloc, m_mtx, threads, aborted>>

\* uninit and the destructor; the client has taken the allocator down.
mmap_uninit(r) ==
  /\ ~aborted /\ resource[r].m_initialized /\ resource[r].m_buf \notin InUse
  /\ mapped' = mapped \ {resource[r].m_buf}
  /\ resource' = [resource EXCEPT ![r] = Unmapped]
  /\ UNCHANGED <<orphans, here, m_alloc, m_mtx, threads, aborted>>

\* The move assignment forgets what r had mapped; the move constructor is the
\* case where that is nothing.
mmap_move(r, o) ==
  /\ ~aborted /\ r # o
  /\ resource' = [resource EXCEPT ![r] = resource[o], ![o] = Unmapped]
  /\ orphans' = orphans \cup ({resource[r].m_buf} \cap mapped)
  /\ UNCHANGED <<mapped, here, m_alloc, m_mtx, threads, aborted>>

-----------------------------------------------------------------------------
(* Calls. *)

Goto(t, l) == pc' = [pc EXCEPT ![t] = l]

Calls(t, op, this, arg) ==
  /\ ~aborted /\ pc[t] = "idle"
  /\ call' = [call EXCEPT ![t] = [op |-> op, this |-> this, arg |-> arg]]
  /\ Goto(t, "lock")
  /\ UNCHANGED <<resources, here, m_alloc, m_mtx, using, aborted>>

call_one(t, op, a) == a \in here /\ Calls(t, op, a, NULL)

\* The buffer belongs to a resource and to no allocator.
call_init(t, a, r) ==
  /\ a \in here
  /\ resource[r].m_initialized /\ resource[r].m_buf \notin InUse
  /\ Calls(t, "init", a, resource[r].m_buf)

\* Moving an allocator onto itself does nothing.
call_move(t, a, o) == a # o /\ {a, o} \subseteq here /\ Calls(t, "move", a, o)

\* a is a new object, which nobody else knows.
call_move_construct(t, a, o) ==
  /\ a \notin here /\ o \in here
  /\ \A u \in Threads : a # call[u].this
  /\ Calls(t, "construct", a, o)

\* Mutant: the move assignment locks the mutex of the other object only.
Mutexes_rhs(t) ==
  IF call[t].op \in {"construct", "move"} THEN {call[t].arg} ELSE {call[t].this}

\* The mutexes that a call locks: the move constructor only that of the other
\* object.
Mutexes(t) ==
  (IF call[t].op = "construct" THEN {} ELSE {call[t].this}) \cup
  (IF call[t].op \in {"construct", "move"} THEN {call[t].arg} ELSE {})

\* Mutant: the move assignment locks one mutex after the other.
lock_in_order(t) ==
  /\ ~aborted /\ pc[t] = "lock"
  /\ LET a == call[t].this
         m == IF call[t].op = "construct" \/ m_mtx[a] = t
                THEN call[t].arg ELSE a
     IN  /\ m_mtx[m] = Nobody
         /\ m_mtx' = [m_mtx EXCEPT ![m] = t]
         /\ IF call[t].op = "move" /\ m = a THEN UNCHANGED pc ELSE Goto(t, "body")
  /\ UNCHANGED <<resources, here, m_alloc, call, using, aborted>>

\* lock_guard, unique_lock, or std::lock, which gets both mutexes and waits
\* while holding neither.
lock(t) ==
  /\ ~aborted /\ pc[t] = "lock"
  /\ \A m \in Mutexes(t) : m_mtx[m] = Nobody
  /\ m_mtx' = [m \in Allocators |-> IF m \in Mutexes(t) THEN t ELSE m_mtx[m]]
  /\ Goto(t, "body")
  /\ UNCHANGED <<resources, here, m_alloc, call, using, aborted>>

In(t, op) == ~aborted /\ pc[t] = "body" /\ call[t].op = op

\* allocate and deallocate: the assertion, and then the call into the arena.
use(t) ==
  /\ In(t, "use")
  /\ LET alloc == m_alloc[call[t].this]
     IN  IF alloc.m_initialized
           THEN /\ using' = [using EXCEPT ![t] = alloc.m_arena]
                /\ Goto(t, "arena")
                /\ UNCHANGED aborted
           ELSE aborted' = TRUE /\ UNCHANGED <<using, pc>>
  /\ UNCHANGED <<resources, here, m_alloc, m_mtx, call>>

\* init of an allocator that is initialized only says so.
init(t) ==
  /\ In(t, "init")
  /\ IF m_alloc[call[t].this].m_initialized
       THEN Goto(t, "unlock") /\ UNCHANGED using
       ELSE Goto(t, "arena") /\ using' = [using EXCEPT ![t] = call[t].arg]
  /\ UNCHANGED <<resources, here, m_alloc, m_mtx, call, aborted>>

\* The call into the arena returns; rtl_tlsf_make_arena may have refused.
leave_arena(t) ==
  /\ ~aborted /\ pc[t] = "arena"
  /\ \/ m_alloc' = IF call[t].op = "init"
                     THEN [m_alloc EXCEPT ![call[t].this] =
                             [m_initialized |-> TRUE, m_arena |-> using[t]]]
                     ELSE m_alloc
     \/ call[t].op = "init" /\ UNCHANGED m_alloc
  /\ using' = [using EXCEPT ![t] = NULL]
  /\ Goto(t, "unlock")
  /\ UNCHANGED <<resources, here, m_mtx, call, aborted>>

is_initialized(t) ==
  /\ In(t, "is_initialized")
  /\ Goto(t, "unlock")
  /\ UNCHANGED <<resources, here, m_alloc, m_mtx, call, using, aborted>>

uninit(t) ==
  /\ In(t, "uninit")
  /\ m_alloc' = [m_alloc EXCEPT ![call[t].this] = Empty]
  /\ Goto(t, "unlock")
  /\ UNCHANGED <<resources, here, m_mtx, call, using, aborted>>

\* The assignment of detail::RTAllocator, in the move assignment and in the
\* move constructor.
move(t) ==
  /\ In(t, "move") \/ In(t, "construct")
  /\ m_alloc' = [m_alloc EXCEPT ![call[t].this] = m_alloc[call[t].arg],
                                ![call[t].arg] = Empty]
  /\ here' = here \cup {call[t].this}
  /\ Goto(t, "unlock")
  /\ UNCHANGED <<resources, m_mtx, call, using, aborted>>

unlock(t) ==
  /\ ~aborted /\ pc[t] = "unlock"
  /\ m_mtx' = [m \in Allocators |-> IF m_mtx[m] = t THEN Nobody ELSE m_mtx[m]]
  /\ call' = [call EXCEPT ![t] = NoCall]
  /\ Goto(t, "idle")
  /\ UNCHANGED <<resources, here, m_alloc, using, aborted>>

construct(a) ==
  /\ ~aborted /\ a \notin here
  /\ \A t \in Threads : call[t].this # a
  /\ here' = here \cup {a}
  /\ UNCHANGED <<resources, m_alloc, m_mtx, threads, aborted>>

\* The destructor of m_alloc runs twice; the second time it finds it
\* uninitialized.  Nobody may be in a call.
destroy(a) ==
  /\ ~aborted /\ a \in here
  /\ \A t \in Threads : a \notin {call[t].this, call[t].arg}
  /\ here' = here \ {a}
  /\ m_alloc' = [m_alloc EXCEPT ![a] = Empty]
  /\ UNCHANGED <<resources, m_mtx, threads, aborted>>

Init ==
  /\ resource = [r \in Resources |-> Unmapped] /\ mapped = {} /\ orphans = {}
  /\ here = {} /\ m_alloc = [a \in Allocators |-> Empty]
  /\ m_mtx = [a \in Allocators |-> Nobody]
  /\ call = [t \in Threads |-> NoCall] /\ pc = [t \in Threads |-> "idle"]
  /\ using = [t \in Threads |-> NULL]
  /\ aborted = FALSE

\* The steps of a call after it has begun.
Proceed(t) ==
  \/ lock(t) \/ unlock(t)
  \/ use(t) \/ init(t) \/ leave_arena(t)
  \/ is_initialized(t) \/ uninit(t) \/ move(t)

Next ==
  \/ \E r \in Resources :
       mmap_init(r) \/ mmap_uninit(r) \/ \E o \in Resources : mmap_move(r, o)
  \/ \E a \in Allocators : construct(a) \/ destroy(a)
  \/ \E t \in Threads :
       \/ Proceed(t)
       \/ \E a \in Allocators :
            \/ \E op \in {"use", "is_initialized", "uninit"} : call_one(t, op, a)
            \/ \E r \in Resources : call_init(t, a, r)
            \/ \E o \in Allocators : call_move(t, a, o) \/ call_move_construct(t, a, o)

Spec == Init /\ [][Next]_vars

\* A thread that can take the next step of its call is scheduled.
FairSpec == Spec /\ \A t \in Threads : WF_vars(Proceed(t))

-----------------------------------------------------------------------------
(* Properties. *)

Working == {t \in Threads : pc[t] \in {"body", "arena"}}

\* The objects whose members a thread in a call may read or write.
Touches(t) ==
  IF call[t].op \in {"move", "construct"} THEN {call[t].this, call[t].arg}
  ELSE {call[t].this}

\* No two threads are at the members of one allocator or inside one arena at
\* a time, and no arena is in two allocators, although an arena changes the
\* mutex that guards it when its allocator is moved.
ArenaExclusive ==
  /\ \A t, u \in Working : t # u =>
       /\ Touches(t) \cap Touches(u) = {}
       /\ using[t] # NULL => using[t] # using[u]
  /\ \A a, b \in Allocators :
       m_alloc[a].m_initialized /\ m_alloc[a].m_arena = m_alloc[b].m_arena => a = b

\* Every arena lies in memory that is mapped; every mapping belongs to one
\* resource, unless an assignment has overwritten the one it belonged to.
ArenaBacked ==
  /\ \A a \in Allocators : m_alloc[a].m_initialized => m_alloc[a].m_arena \in mapped
  /\ \A t \in Threads : using[t] # NULL => using[t] \in mapped
  /\ \A b \in mapped \ orphans : \E r \in Resources : resource[r].m_buf = b
  /\ \A r, q \in Resources :
       resource[r].m_initialized =>
         /\ resource[r].m_buf \in mapped \ orphans
         /\ resource[r].m_buf = resource[q].m_buf => r = q

\* Every lock comes free: nobody waits for a mutex while holding another, not
\* even two threads that move two allocators onto each other.
LocksComeFree ==
  \A a \in Allocators : m_mtx[a] # Nobody ~> (m_mtx[a] = Nobody \/ aborted)

=============================================================================
