------------------------- MODULE RTAllocatorProofs -------------------------
(***************************************************************************)
(* The arenas of RTAllocator are used by one thread at a time, for every   *)
(* number of threads, allocators and buffers.  ArenaExclusive follows from *)
(* who holds which mutex (Locked), from what a call may rely on while it   *)
(* waits for one (Targets, Private, Fresh) and from who owns which arena   *)
(* (Owned, Inside).                                                        *)
(***************************************************************************)
EXTENDS RTAllocator, TLAPS

Ops == {"none", "use", "is_initialized", "uninit", "init", "move", "construct"}

TypeOK ==
  /\ resource \in [Resources -> [m_initialized : BOOLEAN,
                                 m_buf : Buffers \cup {NULL, MAP_FAILED}]]
  /\ \A r \in Resources : resource[r].m_initialized => resource[r].m_buf \in Buffers
  /\ here \subseteq Allocators
  /\ m_alloc \in [Allocators -> [m_initialized : BOOLEAN,
                                 m_arena : Buffers \cup {NULL}]]
  /\ m_mtx \in [Allocators -> Threads \cup {Nobody}]
  /\ call \in [Threads -> [op : Ops, this : Allocators \cup {NULL},
                           arg : Allocators \cup Buffers \cup {NULL}]]
  /\ pc \in [Threads -> {"idle", "lock", "body", "arena", "unlock"}]
  /\ using \in [Threads -> Buffers \cup {NULL}]

\* A thread past the lock step holds every mutex its call needs.
Locked ==
  \A t \in Threads : pc[t] \in {"body", "arena", "unlock"} =>
    \A m \in Mutexes(t) : m_mtx[m] = t

\* The objects of a call exist while the call lasts.
Targets ==
  \A t \in Threads :
    /\ pc[t] = "idle" <=> call[t].op = "none"
    /\ call[t].op \notin {"none", "construct"} => call[t].this \in here
    /\ call[t].op \in {"move", "construct"} => call[t].arg \in here

\* An object under construction is known to the thread that constructs it.
Private ==
  \A t \in Threads : call[t].op = "construct" /\ pc[t] # "unlock" =>
    /\ call[t].this \in Allocators \ here
    /\ \A u \in Threads : u # t => call[u].this # call[t].this

Initializing(t) == call[t].op = "init" /\ pc[t] \in {"lock", "body", "arena"}

\* A buffer on its way into an allocator is in no other.
Fresh ==
  \A t \in Threads : Initializing(t) =>
    /\ call[t].arg \in Buffers
    /\ \A a \in Allocators : m_alloc[a].m_arena # call[t].arg
    /\ \A u \in Threads : u # t /\ Initializing(u) => call[u].arg # call[t].arg

Owned ==
  /\ \A a \in Allocators :
       /\ m_alloc[a].m_initialized => m_alloc[a].m_arena \in Buffers
       /\ ~m_alloc[a].m_initialized => m_alloc[a].m_arena = NULL
  /\ \A a, b \in Allocators :
       m_alloc[a].m_initialized /\ m_alloc[a].m_arena = m_alloc[b].m_arena => a = b

Inside ==
  \A t \in Threads :
    /\ using[t] # NULL => pc[t] = "arena"
    /\ pc[t] = "arena" =>
         \/ /\ call[t].op = "use"
            /\ m_alloc[call[t].this].m_initialized
            /\ using[t] = m_alloc[call[t].this].m_arena
         \/ call[t].op = "init" /\ using[t] = call[t].arg

IInv == TypeOK /\ Locked /\ Targets /\ Private /\ Fresh /\ Owned /\ Inside

-----------------------------------------------------------------------------
(* The steps. *)

\* In the initial state nothing exists and nobody is in a call.
LEMMA InitInvariant == Init => IInv
  BY AllocatorConstants
  DEF Init, IInv, TypeOK, Ops, Unmapped, Empty, NoCall, Locked, Targets, Private,
      Fresh, Initializing, Owned, Inside

\* Resources come and go beside the allocators.
LEMMA ResourceSteps ==
  ASSUME IInv, NEW r \in Resources,
         \/ mmap_init(r) \/ mmap_uninit(r)
         \/ \E o \in Resources : mmap_move(r, o)
  PROVE  IInv'
<1>1. TypeOK'
  <2> DEFINE Typed ==
        /\ resource' \in [Resources -> [m_initialized : BOOLEAN,
                                        m_buf : Buffers \cup {NULL, MAP_FAILED}]]
        /\ \A q \in Resources :
             resource'[q].m_initialized => resource'[q].m_buf \in Buffers
  <2>1. ASSUME NEW m \in [m_initialized : BOOLEAN,
                          m_buf : Buffers \cup {NULL, MAP_FAILED}],
               m.m_initialized => m.m_buf \in Buffers,
               resource' = [resource EXCEPT ![r] = m]
        PROVE  Typed
    BY <2>1 DEF IInv, TypeOK
  <2>2. ASSUME mmap_init(r)  PROVE Typed
    <3>1. ASSUME NEW b \in Buffers,
                 resource' = [resource EXCEPT ![r] = [m_initialized |-> TRUE, m_buf |-> b]]
          PROVE  Typed
      <4> DEFINE m == [m_initialized |-> TRUE, m_buf |-> b]
      <4>1. /\ m \in [m_initialized : BOOLEAN, m_buf : Buffers \cup {NULL, MAP_FAILED}]
            /\ m.m_buf \in Buffers
            /\ resource' = [resource EXCEPT ![r] = m]
        BY <3>1
      <4> HIDE DEF m, Typed
      <4> QED  BY <2>1, <4>1
    <3>2. ASSUME resource' = [resource EXCEPT ![r] =
                                [m_initialized |-> FALSE, m_buf |-> MAP_FAILED]]
          PROVE  Typed
      <4> DEFINE m == [m_initialized |-> FALSE, m_buf |-> MAP_FAILED]
      <4>1. /\ m \in [m_initialized : BOOLEAN, m_buf : Buffers \cup {NULL, MAP_FAILED}]
            /\ ~m.m_initialized
            /\ resource' = [resource EXCEPT ![r] = m]
        BY <3>2
      <4> HIDE DEF m, Typed
      <4> QED  BY <2>1, <4>1
    <3> HIDE DEF Typed
    <3> QED  BY <2>2, <3>1, <3>2 DEF mmap_init
  <2>3. ASSUME mmap_uninit(r)  PROVE Typed
    BY <2>3 DEF IInv, TypeOK, mmap_uninit, Unmapped
  <2>4. ASSUME NEW o \in Resources, mmap_move(r, o)  PROVE Typed
    BY <2>4 DEF IInv, TypeOK, mmap_move, Unmapped
  <2>5. Typed
    BY <2>2, <2>3, <2>4
  <2> QED  BY <2>5 DEF IInv, TypeOK, mmap_init, mmap_uninit, mmap_move, threads
<1>2. UNCHANGED <<here, m_alloc, m_mtx, threads>>
  BY DEF mmap_init, mmap_uninit, mmap_move
<1>3. (Locked /\ Targets /\ Private /\ Fresh /\ Owned /\ Inside)'
  BY <1>2 DEF IInv, Locked, Targets, Private, Fresh, Initializing, Owned, Inside,
              Mutexes, threads
<1> QED  BY <1>1, <1>3 DEF IInv

\* An allocator is constructed or destroyed while no call refers to it.
LEMMA ObjectSteps ==
  ASSUME IInv, NEW a \in Allocators, construct(a) \/ destroy(a)
  PROVE  IInv'
<1>1. CASE construct(a)
  <2> USE <1>1 DEF construct, resources, threads, IInv
  <2>1. TypeOK'  BY AllocatorConstants DEF TypeOK, Ops
  <2>2. Locked'  BY AllocatorConstants DEF TypeOK, Locked, Targets, Private, Mutexes
  <2>3. Targets'  BY AllocatorConstants DEF TypeOK, Ops, Targets
  <2>4. Private'  BY AllocatorConstants DEF TypeOK, Targets, Private
  <2>5. Fresh'
    BY AllocatorConstants DEF TypeOK, Fresh, Initializing, InUse, Owned, Inside
  <2>6. Owned'  BY AllocatorConstants DEF TypeOK, Owned, Fresh, Initializing, Inside
  <2>7. Inside'
    BY AllocatorConstants
    DEF TypeOK, Locked, Targets, Private, Mutexes, Owned, Inside, Fresh, Initializing
  <2> QED  BY <2>1, <2>2, <2>3, <2>4, <2>5, <2>6, <2>7
<1>2. CASE destroy(a)
  <2> USE <1>2 DEF destroy, resources, threads, IInv, Empty
  <2>1. TypeOK'  BY AllocatorConstants DEF TypeOK, Ops
  <2>2. Locked'  BY AllocatorConstants DEF TypeOK, Locked, Targets, Private, Mutexes
  <2>3. Targets'  BY AllocatorConstants DEF TypeOK, Ops, Targets
  <2>4. Private'  BY AllocatorConstants DEF TypeOK, Targets, Private
  <2>5. Fresh'
    BY AllocatorConstants DEF TypeOK, Fresh, Initializing, InUse, Owned, Inside
  <2>6. Owned'  BY AllocatorConstants DEF TypeOK, Owned, Fresh, Initializing, Inside
  <2>7. Inside'
    BY AllocatorConstants
    DEF TypeOK, Locked, Targets, Private, Mutexes, Owned, Inside, Fresh, Initializing
  <2> QED  BY <2>1, <2>2, <2>3, <2>4, <2>5, <2>6, <2>7
<1> QED  BY <1>1, <1>2

\* A call begins.
LEMMA CallSteps ==
  ASSUME IInv, NEW t \in Threads, NEW a \in Allocators,
         \/ \E op \in {"use", "is_initialized", "uninit"} : call_one(t, op, a)
         \/ \E r \in Resources : call_init(t, a, r)
         \/ \E o \in Allocators : call_move(t, a, o) \/ call_move_construct(t, a, o)
  PROVE  IInv'
<1>1. ASSUME NEW op \in {"use", "is_initialized", "uninit"}, call_one(t, op, a)  PROVE IInv'
  <2> USE <1>1 DEF call_one, Calls, Goto, resources, IInv
  <2>1. TypeOK'  BY AllocatorConstants DEF TypeOK, Ops
  <2>2. Locked'  BY AllocatorConstants DEF TypeOK, Locked, Targets, Private, Mutexes
  <2>3. Targets'  BY AllocatorConstants DEF TypeOK, Ops, Targets
  <2>4. Private'  BY AllocatorConstants DEF TypeOK, Targets, Private
  <2>5. Fresh'
    BY AllocatorConstants DEF TypeOK, Fresh, Initializing, InUse, Owned, Inside
  <2>6. Owned'  BY AllocatorConstants DEF TypeOK, Owned, Fresh, Initializing, Inside
  <2>7. Inside'
    BY AllocatorConstants
    DEF TypeOK, Locked, Targets, Private, Mutexes, Owned, Inside, Fresh, Initializing
  <2> QED  BY <2>1, <2>2, <2>3, <2>4, <2>5, <2>6, <2>7
<1>2. ASSUME NEW r \in Resources, call_init(t, a, r)  PROVE IInv'
  <2> USE <1>2 DEF call_init, Calls, Goto, resources, IInv
  <2>1. TypeOK'  BY AllocatorConstants DEF TypeOK, Ops
  <2>2. Locked'  BY AllocatorConstants DEF TypeOK, Locked, Targets, Private, Mutexes
  <2>3. Targets'  BY AllocatorConstants DEF TypeOK, Ops, Targets
  <2>4. Private'  BY AllocatorConstants DEF TypeOK, Targets, Private
  <2>5. Fresh'
    BY AllocatorConstants DEF TypeOK, Fresh, Initializing, InUse, Owned, Inside
  <2>6. Owned'  BY AllocatorConstants DEF TypeOK, Owned, Fresh, Initializing, Inside
  <2>7. Inside'
    BY AllocatorConstants
    DEF TypeOK, Locked, Targets, Private, Mutexes, Owned, Inside, Fresh, Initializing
  <2> QED  BY <2>1, <2>2, <2>3, <2>4, <2>5, <2>6, <2>7
<1>3. ASSUME NEW o \in Allocators, call_move(t, a, o)  PROVE IInv'
  <2> USE <1>3 DEF call_move, Calls, Goto, resources, IInv
  <2>1. TypeOK'  BY AllocatorConstants DEF TypeOK, Ops
  <2>2. Locked'  BY AllocatorConstants DEF TypeOK, Locked, Targets, Private, Mutexes
  <2>3. Targets'  BY AllocatorConstants DEF TypeOK, Ops, Targets
  <2>4. Private'  BY AllocatorConstants DEF TypeOK, Targets, Private
  <2>5. Fresh'
    BY AllocatorConstants DEF TypeOK, Fresh, Initializing, InUse, Owned, Inside
  <2>6. Owned'  BY AllocatorConstants DEF TypeOK, Owned, Fresh, Initializing, Inside
  <2>7. Inside'
    BY AllocatorConstants
    DEF TypeOK, Locked, Targets, Private, Mutexes, Owned, Inside, Fresh, Initializing
  <2> QED  BY <2>1, <2>2, <2>3, <2>4, <2>5, <2>6, <2>7
<1>4. ASSUME NEW o \in Allocators, call_move_construct(t, a, o)  PROVE IInv'
  <2> USE <1>4 DEF call_move_construct, Calls, Goto, resources, IInv
  <2>1. TypeOK'  BY AllocatorConstants DEF TypeOK, Ops
  <2>2. Locked'  BY AllocatorConstants DEF TypeOK, Locked, Targets, Private, Mutexes
  <2>3. Targets'  BY AllocatorConstants DEF TypeOK, Ops, Targets
  <2>4. Private'  BY AllocatorConstants DEF TypeOK, Targets, Private
  <2>5. Fresh'
    BY AllocatorConstants DEF TypeOK, Fresh, Initializing, InUse, Owned, Inside
  <2>6. Owned'  BY AllocatorConstants DEF TypeOK, Owned, Fresh, Initializing, Inside
  <2>7. Inside'
    BY AllocatorConstants
    DEF TypeOK, Locked, Targets, Private, Mutexes, Owned, Inside, Fresh, Initializing
  <2> QED  BY <2>1, <2>2, <2>3, <2>4, <2>5, <2>6, <2>7
<1> QED  BY <1>1, <1>2, <1>3, <1>4

\* A call goes on.
LEMMA ProceedSteps ==
  ASSUME IInv, NEW t \in Threads, Proceed(t)
  PROVE  IInv'
<1>1. CASE lock(t)
  <2> USE <1>1 DEF lock, Goto, resources, IInv
  <2>1. TypeOK'  BY AllocatorConstants DEF TypeOK, Ops
  <2>2. Locked'  BY AllocatorConstants DEF TypeOK, Locked, Targets, Private, Mutexes
  <2>3. Targets'  BY AllocatorConstants DEF TypeOK, Ops, Targets
  <2>4. Private'  BY AllocatorConstants DEF TypeOK, Targets, Private
  <2>5. Fresh'
    BY AllocatorConstants DEF TypeOK, Fresh, Initializing, InUse, Owned, Inside
  <2>6. Owned'  BY AllocatorConstants DEF TypeOK, Owned, Fresh, Initializing, Inside
  <2>7. Inside'
    BY AllocatorConstants
    DEF TypeOK, Locked, Targets, Private, Mutexes, Owned, Inside, Fresh, Initializing
  <2> QED  BY <2>1, <2>2, <2>3, <2>4, <2>5, <2>6, <2>7
<1>2. CASE unlock(t)
  <2> USE <1>2 DEF unlock, NoCall, Goto, resources, IInv
  <2>1. TypeOK'  BY AllocatorConstants DEF TypeOK, Ops
  <2>2. Locked'  BY AllocatorConstants DEF TypeOK, Locked, Targets, Private, Mutexes
  <2>3. Targets'  BY AllocatorConstants DEF TypeOK, Ops, Targets
  <2>4. Private'  BY AllocatorConstants DEF TypeOK, Targets, Private
  <2>5. Fresh'
    BY AllocatorConstants DEF TypeOK, Fresh, Initializing, InUse, Owned, Inside
  <2>6. Owned'  BY AllocatorConstants DEF TypeOK, Owned, Fresh, Initializing, Inside
  <2>7. Inside'
    BY AllocatorConstants
    DEF TypeOK, Locked, Targets, Private, Mutexes, Owned, Inside, Fresh, Initializing
  <2> QED  BY <2>1, <2>2, <2>3, <2>4, <2>5, <2>6, <2>7
<1>3. CASE use(t)
  <2> USE <1>3 DEF use, In, Goto, resources, IInv
  <2>1. TypeOK'
    <3>1. call[t].this \in Allocators
      BY DEF TypeOK, Targets
    <3>2. m_alloc[call[t].this].m_arena \in Buffers \cup {NULL}
      BY <3>1 DEF TypeOK
    <3>3. /\ using' \in [Threads -> Buffers \cup {NULL}]
          /\ pc' \in [Threads -> {"idle", "lock", "body", "arena", "unlock"}]
      BY <3>2 DEF TypeOK
    <3> QED  BY <3>3 DEF TypeOK
  <2>2. Locked'  BY AllocatorConstants DEF TypeOK, Locked, Targets, Private, Mutexes
  <2>3. Targets'  BY AllocatorConstants DEF TypeOK, Ops, Targets
  <2>4. Private'  BY AllocatorConstants DEF TypeOK, Targets, Private
  <2>5. Fresh'
    BY AllocatorConstants DEF TypeOK, Fresh, Initializing, InUse, Owned, Inside
  <2>6. Owned'  BY AllocatorConstants DEF TypeOK, Owned, Fresh, Initializing, Inside
  <2>7. Inside'
    BY AllocatorConstants
    DEF TypeOK, Locked, Targets, Private, Mutexes, Owned, Inside, Fresh, Initializing
  <2> QED  BY <2>1, <2>2, <2>3, <2>4, <2>5, <2>6, <2>7
<1>4. CASE init(t)
  <2> USE <1>4 DEF init, In, Goto, resources, IInv
  <2>1. TypeOK'  BY AllocatorConstants DEF TypeOK, Fresh, Initializing
  <2>2. Locked'  BY AllocatorConstants DEF TypeOK, Locked, Targets, Private, Mutexes
  <2>3. Targets'  BY AllocatorConstants DEF TypeOK, Ops, Targets
  <2>4. Private'  BY AllocatorConstants DEF TypeOK, Targets, Private
  <2>5. Fresh'
    BY AllocatorConstants DEF TypeOK, Fresh, Initializing, InUse, Owned, Inside
  <2>6. Owned'  BY AllocatorConstants DEF TypeOK, Owned, Fresh, Initializing, Inside
  <2>7. Inside'
    BY AllocatorConstants
    DEF TypeOK, Locked, Targets, Private, Mutexes, Owned, Inside, Fresh, Initializing
  <2> QED  BY <2>1, <2>2, <2>3, <2>4, <2>5, <2>6, <2>7
<1>5. CASE leave_arena(t)
  <2> USE <1>5 DEF leave_arena, Goto, resources, IInv
  <2>0. /\ call[t].this \in Allocators
        /\ using[t] \in Buffers \cup {NULL}
        /\ call[t].op = "init" => Initializing(t) /\ using[t] = call[t].arg
    BY DEF TypeOK, Targets, Inside, Initializing
  <2>1. TypeOK'
    <3>1. m_alloc' \in [Allocators -> [m_initialized : BOOLEAN,
                                      m_arena : Buffers \cup {NULL}]]
      <4>1. CASE UNCHANGED m_alloc
        BY <4>1 DEF TypeOK
      <4>2. CASE m_alloc' = [m_alloc EXCEPT ![call[t].this] =
                               [m_initialized |-> TRUE, m_arena |-> using[t]]]
        BY <2>0, <4>2 DEF TypeOK
      <4> QED  BY <4>1, <4>2
    <3>2. /\ using' \in [Threads -> Buffers \cup {NULL}]
          /\ pc' \in [Threads -> {"idle", "lock", "body", "arena", "unlock"}]
      BY DEF TypeOK
    <3> QED  BY <3>1, <3>2 DEF TypeOK
  <2>2. Locked'  BY AllocatorConstants DEF TypeOK, Locked, Targets, Private, Mutexes
  <2>3. Targets'  BY AllocatorConstants DEF TypeOK, Ops, Targets
  <2>4. Private'  BY AllocatorConstants DEF TypeOK, Targets, Private
  <2>5. Fresh'
    BY AllocatorConstants DEF TypeOK, Fresh, Initializing, InUse, Owned, Inside
  <2>6. Owned'
    <3>1. CASE UNCHANGED m_alloc
      BY <3>1 DEF Owned
    <3>2. CASE /\ call[t].op = "init"
               /\ m_alloc' = [m_alloc EXCEPT ![call[t].this] =
                                [m_initialized |-> TRUE, m_arena |-> using[t]]]
      BY <2>0, <3>2, AllocatorConstants DEF TypeOK, Owned, Fresh
    <3> QED  BY <3>1, <3>2
  <2>7. Inside'
    BY AllocatorConstants
    DEF TypeOK, Locked, Targets, Private, Mutexes, Owned, Inside, Fresh, Initializing
  <2> QED  BY <2>1, <2>2, <2>3, <2>4, <2>5, <2>6, <2>7
<1>6. CASE is_initialized(t)
  <2> USE <1>6 DEF is_initialized, In, Goto, resources, IInv
  <2>1. TypeOK'  BY AllocatorConstants DEF TypeOK, Ops
  <2>2. Locked'  BY AllocatorConstants DEF TypeOK, Locked, Targets, Private, Mutexes
  <2>3. Targets'  BY AllocatorConstants DEF TypeOK, Ops, Targets
  <2>4. Private'  BY AllocatorConstants DEF TypeOK, Targets, Private
  <2>5. Fresh'
    BY AllocatorConstants DEF TypeOK, Fresh, Initializing, InUse, Owned, Inside
  <2>6. Owned'  BY AllocatorConstants DEF TypeOK, Owned, Fresh, Initializing, Inside
  <2>7. Inside'
    BY AllocatorConstants
    DEF TypeOK, Locked, Targets, Private, Mutexes, Owned, Inside, Fresh, Initializing
  <2> QED  BY <2>1, <2>2, <2>3, <2>4, <2>5, <2>6, <2>7
<1>7. CASE uninit(t)
  <2> USE <1>7 DEF uninit, In, Empty, Goto, resources, IInv
  <2>1. TypeOK'  BY AllocatorConstants DEF TypeOK, Ops
  <2>2. Locked'  BY AllocatorConstants DEF TypeOK, Locked, Targets, Private, Mutexes
  <2>3. Targets'  BY AllocatorConstants DEF TypeOK, Ops, Targets
  <2>4. Private'  BY AllocatorConstants DEF TypeOK, Targets, Private
  <2>5. Fresh'
    BY AllocatorConstants DEF TypeOK, Fresh, Initializing, InUse, Owned, Inside
  <2>6. Owned'  BY AllocatorConstants DEF TypeOK, Owned, Fresh, Initializing, Inside
  <2>7. Inside'
    BY AllocatorConstants
    DEF TypeOK, Locked, Targets, Private, Mutexes, Owned, Inside, Fresh, Initializing
  <2> QED  BY <2>1, <2>2, <2>3, <2>4, <2>5, <2>6, <2>7
<1>8. CASE move(t)
  <2> USE <1>8 DEF move, In, Empty, Goto, resources, IInv
  <2>1. TypeOK'  BY AllocatorConstants DEF TypeOK, Targets, Private
  <2>2. Locked'  BY AllocatorConstants DEF TypeOK, Locked, Targets, Private, Mutexes
  <2>3. Targets'  BY AllocatorConstants DEF TypeOK, Ops, Targets
  <2>4. Private'  BY AllocatorConstants DEF TypeOK, Targets, Private
  <2>5. Fresh'
    BY AllocatorConstants
    DEF TypeOK, Targets, Private, Fresh, Initializing, InUse, Owned, Inside
  <2>6. Owned'
    <3>1. call[t].this \in Allocators /\ call[t].arg \in Allocators
      BY DEF TypeOK, Targets, Private
    <3>2. \A a \in Allocators : m_alloc'[a] =
            IF a = call[t].arg THEN Empty
            ELSE IF a = call[t].this THEN m_alloc[call[t].arg] ELSE m_alloc[a]
      BY <3>1 DEF TypeOK
    <3>3. /\ ~Empty.m_initialized /\ Empty.m_arena = NULL
          /\ NULL \notin Buffers
      BY AllocatorConstants
    <3> HIDE <1>8 DEF move, Empty
    <3>4. ASSUME NEW a \in Allocators
          PROVE  /\ m_alloc'[a].m_initialized => m_alloc'[a].m_arena \in Buffers
                 /\ ~m_alloc'[a].m_initialized => m_alloc'[a].m_arena = NULL
      BY <3>1, <3>2, <3>3 DEF Owned
    <3>5. ASSUME NEW a \in Allocators, NEW b \in Allocators, a # b,
                 m_alloc'[a].m_initialized
          PROVE  m_alloc'[a].m_arena # m_alloc'[b].m_arena
      <4>1. a # call[t].arg
        BY <3>2, <3>3, <3>5
      <4>2. CASE b = call[t].arg
        BY <3>2, <3>3, <3>4, <3>5, <4>2
      <4>3. CASE b # call[t].arg
        BY <3>1, <3>2, <3>5, <4>1, <4>3 DEF Owned
      <4> QED  BY <4>2, <4>3
    <3> QED  BY <3>4, <3>5 DEF Owned
  <2>7. Inside'
    BY AllocatorConstants
    DEF TypeOK, Locked, Targets, Private, Mutexes, Owned, Inside, Fresh, Initializing
  <2> QED  BY <2>1, <2>2, <2>3, <2>4, <2>5, <2>6, <2>7
<1> QED  BY <1>1, <1>2, <1>3, <1>4, <1>5, <1>6, <1>7, <1>8 DEF Proceed

\* Every step keeps the inductive invariant.
LEMMA StepInvariant == IInv /\ [Next]_vars => IInv'
<1> SUFFICES ASSUME IInv, [Next]_vars  PROVE IInv'
  OBVIOUS
<1>1. CASE UNCHANGED vars
  BY <1>1 DEF vars, resources, threads, IInv, TypeOK, Locked, Targets, Private, Fresh,
              Initializing, Owned, Inside, Mutexes
<1>2. CASE Next
  BY <1>2, ResourceSteps, ObjectSteps, CallSteps, ProceedSteps DEF Next
<1> QED  BY <1>1, <1>2

\* Two threads at work hold different mutexes, and an arena is entered through
\* the allocator that owns it.
LEMMA InvariantSuffices == IInv => ArenaExclusive
<1> SUFFICES ASSUME IInv  PROVE ArenaExclusive
  OBVIOUS
<1>1. ASSUME NEW t \in Working, NEW u \in Working, t # u
      PROVE  Touches(t) \cap Touches(u) = {}
  BY <1>1 DEF IInv, TypeOK, Working, Touches, Locked, Targets, Private, Mutexes
<1>2. ASSUME NEW t \in Working, NEW u \in Working, t # u, using[t] # NULL
      PROVE  using[t] # using[u]
  <2>1. CASE using[u] = NULL
    BY <1>2, <2>1
  <2>2. CASE using[u] # NULL
    <3> DEFINE Entered(v) ==
          \/ /\ call[v].op = "use" /\ call[v].this \in Allocators
             /\ m_alloc[call[v].this].m_initialized
             /\ using[v] = m_alloc[call[v].this].m_arena
          \/ Initializing(v) /\ using[v] = call[v].arg
    <3>1. t \in Threads /\ u \in Threads /\ Entered(t) /\ Entered(u)
      BY <1>2, <2>2 DEF IInv, TypeOK, Working, Targets, Inside, Initializing
    <3>2. CASE call[t].op = "use" /\ call[u].op = "use"
      <4>1. call[t].this # call[u].this
        BY <1>1, <1>2, <3>2 DEF Touches
      <4> QED  BY <3>1, <3>2, <4>1 DEF IInv, Owned, Initializing
    <3>3. CASE call[t].op = "init" \/ call[u].op = "init"
      BY <1>2, <3>1, <3>3 DEF IInv, Fresh, Initializing
    <3> QED  BY <3>1, <3>2, <3>3 DEF Initializing
  <2> QED  BY <2>1, <2>2
<1> QED  BY <1>1, <1>2 DEF ArenaExclusive, IInv, Owned

\* The lock discipline of allocator.hpp keeps every arena to one thread: no two
\* threads are at one allocator's members or inside one arena, and no arena is
\* in two allocators, however calls, moves and destructions interleave.
THEOREM ArenasExclusive == Spec => []ArenaExclusive
<1>1. Init => IInv
  BY InitInvariant
<1>2. IInv /\ [Next]_vars => IInv'
  BY StepInvariant
<1>3. IInv => ArenaExclusive
  BY InvariantSuffices
<1> QED  BY <1>1, <1>2, <1>3, PTL DEF Spec

-----------------------------------------------------------------------------
(* Arenas lie in mapped memory. *)

\* Buffers that an allocator or a call needs are mapped; what is mapped has one
\* owner or is an orphan; a resource that is not initialized has no buffer.
Needed ==
  /\ \A a \in Allocators : m_alloc[a].m_initialized => m_alloc[a].m_arena \in mapped
  /\ \A t \in Threads :
       /\ using[t] # NULL => using[t] \in mapped
       /\ Initializing(t) => call[t].arg \in mapped

Owners ==
  /\ mapped \subseteq Buffers /\ orphans \subseteq mapped
  /\ \A r \in Resources : ~resource[r].m_initialized => resource[r].m_buf \notin Buffers
  /\ \A b \in mapped \ orphans : \E r \in Resources : resource[r].m_buf = b
  /\ \A r, q \in Resources :
       resource[r].m_initialized =>
         /\ resource[r].m_buf \in mapped \ orphans
         /\ resource[r].m_buf = resource[q].m_buf => r = q

Backed == Needed /\ Owners

\* Mapping, unmapping and moving resources leaves every needed buffer mapped:
\* uninit is called only for a buffer that is not in use.
LEMMA BackedByResources ==
  ASSUME IInv, Backed, NEW r \in Resources,
         \/ mmap_init(r) \/ mmap_uninit(r)
         \/ \E o \in Resources : mmap_move(r, o)
  PROVE  Backed'
<1>1. Needed'
  <2>1. CASE mmap_init(r)
    BY <2>1 DEF Backed, Needed, Initializing, mmap_init, threads
  <2>2. CASE mmap_uninit(r)
    BY <2>2 DEF IInv, TypeOK, Backed, Needed, Initializing, InUse, mmap_uninit, threads
  <2>3. CASE \E o \in Resources : mmap_move(r, o)
    BY <2>3 DEF Backed, Needed, Initializing, mmap_move, threads
  <2> QED  BY <2>1, <2>2, <2>3
<1>2. Owners'
  <2>1. CASE mmap_init(r)
    <3>1. ASSUME NEW b \in Buffers \ mapped, mapped' = mapped \cup {b},
                 resource' = [resource EXCEPT ![r] = [m_initialized |-> TRUE, m_buf |-> b]]
          PROVE  Owners'
      <4>1. /\ resource'[r].m_initialized /\ resource'[r].m_buf = b
            /\ \A q \in Resources : q # r => resource'[q] = resource[q]
        BY <3>1 DEF IInv, TypeOK
      <4>2. ~resource[r].m_initialized /\ UNCHANGED orphans
        BY <2>1 DEF mmap_init
      <4> QED  BY <3>1, <4>1, <4>2 DEF Backed, Owners
    <3>2. ASSUME UNCHANGED mapped,
                 resource' = [resource EXCEPT ![r] =
                                [m_initialized |-> FALSE, m_buf |-> MAP_FAILED]]
          PROVE  Owners'
      <4>1. /\ ~resource'[r].m_initialized /\ resource'[r].m_buf = MAP_FAILED
            /\ \A q \in Resources : q # r => resource'[q] = resource[q]
        BY <3>2 DEF IInv, TypeOK
      <4>2. ~resource[r].m_initialized /\ UNCHANGED orphans
        BY <2>1 DEF mmap_init
      <4> QED  BY <3>2, <4>1, <4>2, AllocatorConstants DEF Backed, Owners
    <3> QED  BY <2>1, <3>1, <3>2 DEF mmap_init
  <2>2. CASE mmap_uninit(r)
    <3>1. /\ ~resource'[r].m_initialized /\ resource'[r].m_buf = NULL
          /\ \A q \in Resources : q # r => resource'[q] = resource[q]
      BY <2>2 DEF IInv, TypeOK, mmap_uninit, Unmapped
    <3>2. /\ resource[r].m_initialized /\ UNCHANGED orphans
          /\ mapped' = mapped \ {resource[r].m_buf}
      BY <2>2 DEF mmap_uninit
    <3> QED  BY <3>1, <3>2, AllocatorConstants DEF Backed, Owners
  <2>3. ASSUME NEW o \in Resources, mmap_move(r, o)
        PROVE  Owners'
    <3>1. /\ resource'[r] = resource[o]
          /\ ~resource'[o].m_initialized /\ resource'[o].m_buf = NULL
          /\ \A q \in Resources \ {r, o} : resource'[q] = resource[q]
      BY <2>3 DEF IInv, TypeOK, mmap_move, Unmapped
    <3>2. /\ r # o /\ UNCHANGED mapped
          /\ orphans' = orphans \cup ({resource[r].m_buf} \cap mapped)
      BY <2>3 DEF mmap_move
    <3>3. /\ mapped' \subseteq Buffers /\ orphans' \subseteq mapped'
          /\ \A q \in Resources :
               ~resource'[q].m_initialized => resource'[q].m_buf \notin Buffers
      BY <3>1, <3>2, AllocatorConstants DEF Backed, Owners
    <3>4. ASSUME NEW b \in mapped' \ orphans'
          PROVE  \E q \in Resources : resource'[q].m_buf = b
      <4>1. PICK q \in Resources : resource[q].m_buf = b
        BY <3>2, <3>4 DEF Backed, Owners
      <4>2. q # r
        BY <3>2, <3>4, <4>1
      <4> QED  BY <3>1, <3>2, <4>1, <4>2
    <3>5. ASSUME NEW p \in Resources, NEW q \in Resources, resource'[p].m_initialized
          PROVE  /\ resource'[p].m_buf \in mapped' \ orphans'
                 /\ resource'[p].m_buf = resource'[q].m_buf => p = q
      <4> DEFINE Old(x) == IF x = r THEN o ELSE x
      <4>1. /\ p # o
            /\ Old(p) \in Resources \ {r} /\ resource'[p] = resource[Old(p)]
            /\ q # o => Old(q) \in Resources \ {r} /\ resource'[q] = resource[Old(q)]
        BY <3>1, <3>2, <3>5
      <4>2. resource[Old(p)].m_buf # resource[r].m_buf
        BY <3>5, <4>1 DEF Backed, Owners
      <4>3. resource'[p].m_buf \in mapped' \ orphans'
        BY <3>2, <3>5, <4>1, <4>2 DEF Backed, Owners
      <4>4. ASSUME resource'[p].m_buf = resource'[q].m_buf  PROVE p = q
        <5>1. q # o
          BY <3>1, <3>2, <4>3, <4>4, AllocatorConstants DEF Backed, Owners
        <5>2. Old(p) = Old(q)
          BY <3>5, <4>1, <4>4, <5>1 DEF Backed, Owners
        <5> QED  BY <4>1, <5>1, <5>2
      <4> QED  BY <4>3, <4>4
    <3> QED  BY <3>3, <3>4, <3>5 DEF Owners
  <2> QED  BY <2>1, <2>2, <2>3
<1> QED  BY <1>1, <1>2 DEF Backed

\* Constructing and destroying allocators needs no more than before.
LEMMA BackedByObjects ==
  ASSUME IInv, Backed, NEW a \in Allocators, construct(a) \/ destroy(a)
  PROVE  Backed'
<1>1. UNCHANGED <<resources, threads>> /\ \A b \in Allocators :
        m_alloc'[b].m_initialized => m_alloc'[b] = m_alloc[b]
  BY DEF IInv, TypeOK, construct, destroy, Empty
<1> QED  BY <1>1 DEF Backed, Needed, Owners, Initializing, resources, threads

\* A call begins; the buffer of init is that of an initialized resource.
LEMMA BackedByCalls ==
  ASSUME IInv, Backed, NEW t \in Threads, NEW a \in Allocators,
         \/ \E op \in {"use", "is_initialized", "uninit"} : call_one(t, op, a)
         \/ \E r \in Resources : call_init(t, a, r)
         \/ \E o \in Allocators : call_move(t, a, o) \/ call_move_construct(t, a, o)
  PROVE  Backed'
<1>1. UNCHANGED <<resources, m_alloc, using>>
  BY DEF call_one, call_init, call_move, call_move_construct, Calls
<1>2. ASSUME NEW u \in Threads, Initializing(u)'
      PROVE  call'[u].arg \in mapped
  BY <1>2 DEF IInv, TypeOK, Backed, Needed, Owners, Initializing, Goto, Calls,
              call_one, call_init, call_move, call_move_construct
<1> QED  BY <1>1, <1>2 DEF Backed, Needed, Owners, resources

\* A call goes on; an arena that becomes an allocator's was needed before.
LEMMA BackedByProceeding ==
  ASSUME IInv, Backed, NEW t \in Threads, Proceed(t)
  PROVE  Backed'
<1>1. UNCHANGED resources
  BY DEF Proceed, lock, unlock, use, init, leave_arena, is_initialized, uninit, move
<1>2. ASSUME NEW u \in Threads, Initializing(u)'
      PROVE  call'[u].arg \in mapped
  <2>1. Initializing(u) /\ call'[u] = call[u]
    BY <1>2 DEF IInv, TypeOK, Targets, Initializing, Goto, NoCall, In, Proceed, lock,
                unlock, use, init, leave_arena, is_initialized, uninit, move
  <2> QED  BY <2>1 DEF Backed, Needed
<1>3. ASSUME NEW u \in Threads, using'[u] # NULL
      PROVE  using'[u] \in mapped
  <2>1. CASE use(t)
    BY <1>3, <2>1 DEF IInv, TypeOK, Targets, Backed, Needed, use, In
  <2>2. CASE init(t)
    BY <1>3, <2>2 DEF IInv, TypeOK, Backed, Needed, Initializing, init, In
  <2>3. CASE leave_arena(t)
    BY <1>3, <2>3 DEF IInv, TypeOK, Backed, Needed, leave_arena
  <2>4. CASE UNCHANGED using
    BY <1>3, <2>4 DEF Backed, Needed
  <2> QED
    BY <2>1, <2>2, <2>3, <2>4
    DEF Proceed, lock, unlock, is_initialized, uninit, move
<1>4. ASSUME NEW a \in Allocators, m_alloc'[a].m_initialized
      PROVE  m_alloc'[a].m_arena \in mapped
  <2>1. CASE leave_arena(t)
    <3>1. CASE UNCHANGED m_alloc
      BY <1>4, <3>1 DEF Backed, Needed
    <3>2. CASE /\ call[t].op = "init"
               /\ m_alloc' = [m_alloc EXCEPT ![call[t].this] =
                                [m_initialized |-> TRUE, m_arena |-> using[t]]]
      <4>1. using[t] \in mapped
        BY <2>1, <3>2 DEF IInv, Inside, Backed, Needed, Initializing, leave_arena
      <4> QED  BY <1>4, <3>2, <4>1 DEF IInv, TypeOK, Backed, Needed
    <3> QED  BY <2>1, <3>1, <3>2 DEF leave_arena
  <2>2. CASE uninit(t)
    BY <1>4, <2>2 DEF IInv, TypeOK, Backed, Needed, Empty, uninit
  <2>3. CASE move(t)
    <3>1. call[t].arg \in Allocators
      BY <2>3 DEF IInv, TypeOK, Targets, move, In
    <3>2. \/ m_alloc'[a] = Empty \/ m_alloc'[a] = m_alloc[a]
          \/ m_alloc'[a] = m_alloc[call[t].arg]
      BY <2>3 DEF IInv, TypeOK, move
    <3>3. m_alloc'[a] # Empty
      BY <1>4 DEF Empty
    <3> QED  BY <1>4, <3>1, <3>2, <3>3 DEF Backed, Needed
  <2>4. CASE UNCHANGED m_alloc
    BY <1>4, <2>4 DEF Backed, Needed
  <2> QED
    BY <2>1, <2>2, <2>3, <2>4
    DEF Proceed, lock, unlock, use, init, is_initialized
<1> QED  BY <1>1, <1>2, <1>3, <1>4 DEF Backed, Needed, Owners, resources

\* MMapMemoryResource and RTAllocator together: every arena an allocator owns
\* or a thread works in is mapped, and every mapping has exactly one owner
\* unless an assignment has overwritten it.
THEOREM ArenasBacked == Spec => []ArenaBacked
<1>1. Init => IInv /\ Backed
  BY InitInvariant, AllocatorConstants
  DEF Init, Backed, Needed, Owners, Initializing, Unmapped, Empty, NoCall
<1>2. IInv /\ Backed /\ [Next]_vars => IInv' /\ Backed'
  <2> SUFFICES ASSUME IInv, Backed, [Next]_vars  PROVE Backed'
    BY StepInvariant
  <2>1. CASE UNCHANGED vars
    BY <2>1 DEF vars, resources, threads, Backed, Needed, Owners, Initializing
  <2>2. CASE Next
    BY <2>2, BackedByResources, BackedByObjects, BackedByCalls, BackedByProceeding
    DEF Next
  <2> QED  BY <2>1, <2>2
<1>3. IInv /\ Backed => ArenaBacked
  BY DEF Backed, Needed, Owners, ArenaBacked
<1> QED  BY <1>1, <1>2, <1>3, PTL DEF Spec

=============================================================================
