----------------------------- MODULE ObjectPool -----------------------------
(***************************************************************************)
(* rtl::object_pool (rtlcpp/object_pool.hpp): pools of raw objects on one  *)
(* allocator, and a client that gets objects, holds them directly or in an *)
(* Obj, and puts them back.  A pool keeps the objects it has at hand in an *)
(* rtl::vector, whose buffer comes from the same allocator and may have to *)
(* grow at any push_back.                                                  *)
(***************************************************************************)
EXTENDS PoolOps

CONSTANTS
  Pools,
  Amounts,         \* arguments of the constructor and of add_to_pool
  Elasticities,    \* arguments of the constructor and of set_elasticity
  MaxHeld          \* bound on the objects the client holds

ObjectPools == [m_vector : Vectors, m_alloc : BOOLEAN, m_elasticity : Nat]

ASSUME PoolConstants ==
  /\ Amounts \subseteq Nat /\ Elasticities \subseteq Nat /\ MaxHeld \in Nat
  /\ NULL \notin ObjectPools

VARIABLES
  pool,       \* Pools -> the object, or NULL while there is none
  held,       \* what get() returned to the client and it has not put back
  autos       \* the Obj that hold an object, as <<pool, object>>

poolVars == <<pool, live, misfreed, held, autos, dropped>>

-----------------------------------------------------------------------------
(* Actions. *)

\* A pool that was moved from has no allocator, nor has its vector.
UsablePool(p) == pool[p] # NULL /\ pool[p].m_alloc

\* The objects of p, and the heap, become what r says.
Update(p, r) ==
  /\ pool' = [pool EXCEPT ![p].m_vector = r.v]
  /\ live' = r.h.live /\ misfreed' = r.h.misfreed
  /\ dropped' = dropped \cup r.lost

object_pool(p, num, elasticity) ==
  /\ pool[p] = NULL
  /\ \E h \in Heaps :
       LET r == AddToPool(vector, h, num)
       IN  /\ pool' = [pool EXCEPT ![p] =
                [m_vector |-> r.v, m_alloc |-> TRUE,
                 m_elasticity |-> IF elasticity < 1 THEN 1 ELSE elasticity]]
           /\ live' = r.h.live /\ misfreed' = r.h.misfreed
           /\ dropped' = dropped \cup r.lost
  /\ UNCHANGED <<held, autos>>

\* The objects at hand and then the buffer of the vector; no Obj may be left,
\* its destructor would use the pool.
destroy_object_pool(p) ==
  /\ pool[p] # NULL
  /\ \A o \in autos : o[1] # p
  /\ LET h == destroy_pool(pool[p].m_vector, Heap(live, misfreed, {}))
     IN  live' = h.live /\ misfreed' = h.misfreed
  /\ pool' = [pool EXCEPT ![p] = NULL]
  /\ UNCHANGED <<held, autos, dropped>>

MovedFromPool(o) == [o EXCEPT !.m_vector = vector, !.m_alloc = FALSE]

\* An Obj would go on to use the pool that was moved from.
pool_move_construct(p, o) ==
  /\ pool[p] = NULL /\ UsablePool(o)
  /\ \A a \in autos : a[1] # o
  /\ pool' = [pool EXCEPT ![p] = pool[o], ![o] = MovedFromPool(@)]
  /\ UNCHANGED <<live, misfreed, held, autos, dropped>>

\* The assignment of the vectors deallocates the buffer of p, not the objects
\* it points to.  No Obj may be left that goes on to use o, nor one of p if o
\* was itself moved from and has no allocator to give.
pool_move_assign(p, o) ==
  /\ p # o /\ pool[p] # NULL /\ pool[o] # NULL
  /\ \A a \in autos : a[1] # o /\ (a[1] = p => pool[o].m_alloc)
  /\ LET h == destroy_vector(pool[p].m_vector, Heap(live, misfreed, {}))
     IN  live' = h.live /\ misfreed' = h.misfreed
  /\ dropped' = dropped \cup Range(pool[p].m_vector.items)
  /\ pool' = [pool EXCEPT ![p] = pool[o], ![o] = MovedFromPool(@)]
  /\ UNCHANGED <<held, autos>>

add_to_pool(p, num) ==
  /\ UsablePool(p)
  /\ \E h \in Heaps : Update(p, AddToPool(pool[p].m_vector, h, num))
  /\ UNCHANGED <<held, autos>>

Holding == Cardinality(held) + Cardinality(autos)

pool_get(p) ==
  /\ UsablePool(p) /\ Holding < MaxHeld
  /\ \E h \in Heaps :
       LET r == Get(pool[p].m_vector, h, pool[p].m_elasticity)
       IN  Update(p, r) /\ held' = held \cup ({r.rval} \ {NULL})
  /\ UNCHANGED autos

\* The Obj is built in place; one without an object does nothing.
get_auto(p) ==
  /\ UsablePool(p) /\ Holding < MaxHeld
  /\ \E h \in Heaps :
       LET r == Get(pool[p].m_vector, h, pool[p].m_elasticity)
       IN  Update(p, r) /\ autos' = autos \cup ({<<p, r.rval>>} \ {<<p, NULL>>})
  /\ UNCHANGED held

\* Any pool on the allocator takes the object.
pool_put(p, in) ==
  /\ UsablePool(p) /\ in \in held
  /\ \E h \in Heaps : Update(p, Put(pool[p].m_vector, h, in))
  /\ held' = held \ {in}
  /\ UNCHANGED autos

\* ~Obj
destroy_Obj(o) ==
  /\ o \in autos
  /\ \E h \in Heaps : Update(o[1], Put(pool[o[1]].m_vector, h, o[2]))
  /\ autos' = autos \ {o}
  /\ UNCHANGED held

set_elasticity(p, elasticity) ==
  /\ UsablePool(p)
  /\ pool' = [pool EXCEPT ![p].m_elasticity = elasticity]
  /\ UNCHANGED <<live, misfreed, held, autos, dropped>>

PoolInit ==
  /\ pool = [p \in Pools |-> NULL]
  /\ live = {} /\ misfreed = FALSE /\ dropped = {}
  /\ held = {} /\ autos = {}

PoolNext ==
  \/ \E p \in Pools :
       \/ \E num \in Amounts, e \in Elasticities : object_pool(p, num, e)
       \/ destroy_object_pool(p)
       \/ \E o \in Pools : pool_move_construct(p, o) \/ pool_move_assign(p, o)
       \/ \E num \in Amounts : add_to_pool(p, num)
       \/ pool_get(p) \/ get_auto(p)
       \/ \E in \in held : pool_put(p, in)
       \/ \E e \in Elasticities : set_elasticity(p, e)
  \/ \E o \in autos : destroy_Obj(o)

PoolSpec == PoolInit /\ [][PoolNext]_poolVars

-----------------------------------------------------------------------------
(* Properties. *)

TherePools == {p \in Pools : pool[p] # NULL}

Items(p) == pool[p].m_vector.items

\* Where blocks are: the client's hands, the Obj, the slots and the buffers of
\* the pools, and what has been dropped.
Hands == {<<"held", b, b>> : b \in held}
Objs == {<<"obj", o, o[2]>> : o \in autos}
Slots(p) == {<<"slot", <<p, i>>, Items(p)[i]>> : i \in DOMAIN Items(p)}
Buffers == {<<"buffer", p, pool[p].m_vector.m_buf>> :
              p \in {q \in TherePools : pool[q].m_vector.m_buf # NULL}}
Drops == {<<"dropped", b, b>> : b \in dropped}

Places == Hands \cup Objs \cup Buffers \cup Drops
            \cup UNION {Slots(p) : p \in TherePools}

\* Every allocated block has exactly one place and no place holds a block
\* that was freed, whatever failed on the way: an object is never handed out
\* twice, nor freed while it is out, nor freed twice, and only what is in
\* dropped is out of reach.
OnePlace ==
  /\ ~misfreed
  /\ {x[3] : x \in Places} = live
  /\ \A x, y \in Places : x[3] = y[3] => x = y

\* "Pointers received from this function must be returned via the put() call
\* otherwise memory will leak" (get): objects that the client does return, or
\* never took, are not lost.
NothingDropped == dropped = {}

=============================================================================
