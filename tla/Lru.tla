-------------------------------- MODULE Lru --------------------------------
(***************************************************************************)
(* rtl::lru (rtlcpp/lru.hpp): an intrusive doubly linked list of nodes, an *)
(* rtl::unordered_map from keys to nodes and an rtl::object_pool that the  *)
(* nodes come from, all on one allocator that may run out.                 *)
(*                                                                         *)
(* The pool and its vector are those of PoolOps.  The map is used through  *)
(* its contract: the constructor either reserves its buckets and locks the *)
(* size of the table, or leaves it in the state ERROR; a put may find no   *)
(* memory.  A null pointer that is dereferenced ends the program.          *)
(***************************************************************************)
EXTENDS PoolOps

CONSTANTS
  Caches, Keys,
  Values,         \* Keys -> the values that are put for the key
  Capacities      \* arguments of the constructor

\* What a cache is and what is in a node of its list; complete says that the
\* pool got all its nodes from the constructor.
LRUs ==
  [m_head : Blocks \cup {NULL}, m_tail : Blocks \cup {NULL}, m_size : Nat,
   m_capacity : Nat, m_map : [Keys -> Blocks \cup {NULL}],
   m_state : {"STABLE", "ERROR"}, m_vector : Vectors, m_alloc : BOOLEAN,
   complete : BOOLEAN]

EntriesIn == UNION {[key : {k}, val : Values[k]] : k \in Keys}

ASSUME LruConstants ==
  /\ Capacities \subseteq Nat \ {0}
  /\ NULL \notin LRUs /\ NULL \notin Seq(EntriesIn)

VARIABLES
  lru,         \* Caches -> the object, or NULL while there is none
  node,        \* Blocks -> the LRUNode in it, or NULL
  answer,      \* the last get or put, with its arguments and what it returned
  crashed

vars == <<lru, node, live, misfreed, dropped, answer, crashed>>

NoKeys == [k \in Keys |-> NULL]

-----------------------------------------------------------------------------
(* The list.  s is a cache, the nodes and the heap during a call. *)

Begin(c, h) == [l |-> lru[c], node |-> node, h |-> h, lost |-> {},
                crashed |-> FALSE]

Unlinked(s, n) ==
  [s EXCEPT !.node[n].prev = NULL, !.node[n].next = NULL, !.l.m_size = @ - 1]

\* Mutant: the node after the one taken keeps its prev.
take_node_half(s, n) ==
  LET prev == s.node[n].prev
      next == s.node[n].next
      t    == Unlinked(s, n)
  IN  CASE s.l.m_size = 1 -> [t EXCEPT !.l.m_head = NULL, !.l.m_tail = NULL]
        [] s.l.m_size > 1 /\ n = s.l.m_head -> [t EXCEPT !.l.m_head = next]
        [] s.l.m_size > 1 /\ n # s.l.m_head /\ n = s.l.m_tail ->
             [t EXCEPT !.l.m_tail = prev]
        [] OTHER -> [t EXCEPT !.node[prev].next = next]

\* The neighbour of the first or of the last node keeps its pointer to it.
take_node(s, n) ==
  LET prev == s.node[n].prev
      next == s.node[n].next
      t    == Unlinked(s, n)
  IN  CASE s.l.m_size = 1 -> [t EXCEPT !.l.m_head = NULL, !.l.m_tail = NULL]
        [] s.l.m_size > 1 /\ n = s.l.m_head -> [t EXCEPT !.l.m_head = next]
        [] s.l.m_size > 1 /\ n # s.l.m_head /\ n = s.l.m_tail ->
             [t EXCEPT !.l.m_tail = prev]
        [] OTHER -> [t EXCEPT !.node[prev].next = next, !.node[next].prev = prev]

\* A null node is dereferenced; the assertions are that it is in no list.
push_front(s, n) ==
  CASE n = NULL -> [s EXCEPT !.crashed = TRUE]
    [] n # NULL /\ (s.node[n].prev # NULL \/ s.node[n].next # NULL) ->
         [s EXCEPT !.crashed = TRUE]
    [] OTHER ->
         LET old == s.l.m_head
             t   == [s EXCEPT !.l.m_head = n, !.l.m_size = @ + 1]
         IN  IF s.l.m_size = 0 THEN [t EXCEPT !.l.m_tail = n]
             ELSE [t EXCEPT !.node[n].next = old, !.node[old].prev = n]

\* A node goes back to the pool, which destroys it.
PutNode(s, n) ==
  LET r == Put(s.l.m_vector, s.h, n)
  IN  [s EXCEPT !.l.m_vector = r.v, !.h = r.h, !.lost = @ \cup r.lost,
                !.node = [b \in Blocks |-> IF b = n THEN NULL ELSE @[b]]]

lru_pop_back(s) ==
  CASE s.l.m_size = 0 -> s
    [] s.l.m_size = 1 ->
         PutNode([s EXCEPT !.l.m_head = NULL, !.l.m_tail = NULL,
                           !.l.m_size = 0], s.l.m_head)
    [] OTHER ->
         LET prev == s.node[s.l.m_tail].prev
         IN  PutNode([s EXCEPT !.l.m_tail = prev, !.node[prev].next = NULL,
                               !.l.m_size = @ - 1], s.l.m_tail)

\* The cache after each pop_back until it is empty.
Pops(s) ==
  LET after[i \in 0 .. s.l.m_size] ==
        IF i = 0 THEN s ELSE lru_pop_back(after[i - 1])
  IN  after

\* while (m_head) pop_back()
PopAll(s) == Pops(s)[s.l.m_size]

-----------------------------------------------------------------------------
(* put.  The cache during a call is named where it changes, as the only     *)
(* member of a set.                                                         *)

\* The call on c ends with s.
End(c, s) ==
  IF s.crashed
    THEN crashed' = TRUE /\ UNCHANGED <<lru, node, live, misfreed, dropped>>
    ELSE /\ lru' = [lru EXCEPT ![c] = s.l]
         /\ node' = s.node
         /\ live' = s.h.live /\ misfreed' = s.h.misfreed
         /\ dropped' = dropped \cup s.lost
         /\ UNCHANGED crashed

\* So does a call with these arguments, which returns ans unless it crashes.
Return(c, s, arguments, ans) ==
  /\ End(c, s)
  /\ answer' = Append(arguments, IF s.crashed THEN NULL ELSE ans)

\* The entry used least recently makes room.
Evict(s) ==
  IF s.l.m_size = s.l.m_capacity
    THEN lru_pop_back([s EXCEPT !.l.m_map[s.node[s.l.m_tail].key] = NULL])
    ELSE s

\* The node and the heap after m_pool.get.
NewNode(s, k, v) ==
  LET g == Get(s.l.m_vector, s.h, 1)
      t == [s EXCEPT !.l.m_vector = g.v, !.h = g.h, !.lost = @ \cup g.lost]
  IN  [n |-> g.rval,
       s |-> IF g.rval = NULL THEN t
             ELSE [t EXCEPT !.node[g.rval] =
                     [key |-> k, val |-> v, prev |-> NULL, next |-> NULL]]]

\* Mutant: the value is not stored.
PutPresent_keeps(c, h, k, v) ==
  LET n == lru[c].m_map[k]
  IN  \E s \in {take_node(Begin(c, h), n)} :
        \E t \in {push_front([s EXCEPT !.node[n].key = k], n)} :
          Return(c, t, <<c, k, v>>, TRUE)

PutPresent(c, h, k, v) ==
  LET n == lru[c].m_map[k]
  IN  \E s \in {take_node(Begin(c, h), n)} :
        \E t \in {push_front([s EXCEPT !.node[n].key = k, !.node[n].val = v], n)} :
          Return(c, t, <<c, k, v>>, TRUE)

\* Mutant: the node of a put that failed does not go back to the pool.
PutAbsent_leaks(c, h, k, v, ok) ==
  \E s \in {Evict(Begin(c, h))} :
    \E new \in {NewNode(s, k, v)} :
      \E t \in {IF ok THEN push_front([new.s EXCEPT !.l.m_map[k] = new.n], new.n)
                ELSE new.s} :
        Return(c, t, <<c, k, v>>, ok)

\* ok: the map has memory for the entry.  A null node is put in the map too.
PutAbsent(c, h, k, v, ok) ==
  \E s \in {Evict(Begin(c, h))} :
    \E new \in {NewNode(s, k, v)} :
      \E t \in {IF ok THEN push_front([new.s EXCEPT !.l.m_map[k] = new.n], new.n)
                ELSE PutNode(new.s, new.n)} :
        Return(c, t, <<c, k, v>>, ok)

-----------------------------------------------------------------------------
(* Actions. *)

Usable(c) == ~crashed /\ lru[c] # NULL /\ lru[c].m_alloc

construct(c, capacity) ==
  /\ ~crashed /\ lru[c] = NULL
  /\ \E h \in Heaps, state \in {"STABLE", "ERROR"} :
       \E r \in {AddToPool(vector, h, capacity)} :
         End(c, [Begin(c, r.h) EXCEPT
                   !.lost = r.lost,
                   !.l = [m_head |-> NULL, m_tail |-> NULL, m_size |-> 0,
                          m_capacity |-> capacity, m_map |-> NoKeys,
                          m_state |-> state, m_vector |-> r.v,
                          m_alloc |-> TRUE,
                          complete |-> r.added = capacity]])
  /\ answer' = <<>>

destroy(c) ==
  /\ ~crashed /\ lru[c] # NULL
  /\ \E h \in Heaps : \E s \in {PopAll(Begin(c, h))} :
       \E g \in {destroy_pool(s.l.m_vector, s.h)} :
         End(c, [s EXCEPT !.l = NULL, !.h = g])
  /\ answer' = <<>>

MovedFrom(l) ==
  [l EXCEPT !.m_head = NULL, !.m_tail = NULL, !.m_size = 0, !.m_capacity = 0,
            !.m_map = NoKeys, !.m_state = "ERROR", !.m_vector = vector,
            !.m_alloc = FALSE]

move_construct(c, o) ==
  /\ lru[c] = NULL /\ Usable(o)
  /\ lru' = [lru EXCEPT ![c] = lru[o], ![o] = MovedFrom(@)]
  /\ answer' = <<>>
  /\ UNCHANGED <<node, live, misfreed, dropped, crashed>>

\* The assignment of the pools loses the nodes of c.
move_assign(c, o) ==
  /\ c # o /\ lru[c] # NULL /\ Usable(o)
  /\ \E h \in Heaps : \E s \in {PopAll(Begin(c, h))} :
       LET g == destroy_vector(s.l.m_vector, s.h)
       IN  /\ lru' = [lru EXCEPT ![c] = lru[o], ![o] = MovedFrom(@)]
           /\ node' = s.node
           /\ live' = g.live /\ misfreed' = g.misfreed
           /\ dropped' = dropped \cup s.lost \cup Range(s.l.m_vector.items)
  /\ answer' = <<>>
  /\ UNCHANGED crashed

reset(c) ==
  /\ Usable(c)
  /\ \E h \in Heaps : \E s \in {PopAll(Begin(c, h))} :
       End(c, [s EXCEPT !.l.m_size = 0,
                        !.l.m_map = IF s.l.m_state = "ERROR" THEN @ ELSE NoKeys])
  /\ answer' = <<>>

\* The entry of k becomes the first; what is returned is the value in its node.
Use(c, k) ==
  LET s == Begin(c, Heap(live, misfreed, {}))
      n == lru[c].m_map[k]
  IN  \/ n = NULL /\ Return(c, s, <<c, k>>, NULL)
      \/ /\ n # NULL
         /\ \E t \in {take_node(s, n)} : \E u \in {push_front(t, n)} :
              Return(c, u, <<c, k>>, u.node[n].val)

get(c, k) == Usable(c) /\ Use(c, k)

get_ptr(c, k) == Usable(c) /\ Use(c, k)

put(c, k, v) ==
  /\ Usable(c)
  /\ \E h \in Heaps :
       \/ /\ lru[c].m_map[k] # NULL
          /\ PutPresent(c, h, k, v)
       \/ /\ lru[c].m_map[k] = NULL
          /\ \E ok \in BOOLEAN :
               /\ ok => lru[c].m_state = "STABLE"
               /\ PutAbsent(c, h, k, v, ok)

Init ==
  /\ lru = [c \in Caches |-> NULL] /\ node = [b \in Blocks |-> NULL]
  /\ live = {} /\ misfreed = FALSE /\ dropped = {}
  /\ answer = <<>> /\ crashed = FALSE

Next ==
  \E c \in Caches :
    \/ \E n \in Capacities : construct(c, n)
    \/ destroy(c) \/ reset(c)
    \/ \E o \in Caches : move_construct(c, o) \/ move_assign(c, o)
    \/ \E k \in Keys : get(c, k) \/ get_ptr(c, k)
                         \/ \E v \in Values[k] : put(c, k, v)

Spec == Init /\ [][Next]_vars

-----------------------------------------------------------------------------
(* Properties. *)

There == {c \in Caches : lru[c] # NULL}

\* The nodes of c, following next from the first or prev from the last one.
Forward(c) ==
  LET f[i \in 1 .. lru[c].m_size] ==
        IF i = 1 THEN lru[c].m_head ELSE node[f[i - 1]].next
  IN  f

Backward(c) ==
  LET f[i \in 1 .. lru[c].m_size] ==
        IF i = 1 THEN lru[c].m_tail ELSE node[f[i - 1]].prev
  IN  f

\* Both directions of the list show the same m_size nodes, no node is in two
\* lists, and the map has an entry for each of them and nothing else, although
\* take_node leaves pointers of the neighbours behind.
ListMatchesMap ==
  \A c \in There :
    LET nodes == Forward(c)
        rev   == Backward(c)
        map   == lru[c].m_map
    IN  /\ \A i \in DOMAIN nodes : nodes[i] = rev[lru[c].m_size + 1 - i]
        /\ \A i \in DOMAIN nodes : map[node[nodes[i]].key] = nodes[i]
        /\ \A k \in Keys : map[k] # NULL =>
             map[k] \in Range(nodes) /\ node[map[k]].key = k
        /\ \A d \in There \ {c} : Range(nodes) \cap Range(Forward(d)) = {}

\* A cache whose constructor got all its nodes has them for good: they are in
\* its list or at hand in its pool, which has room for all of them, so that no
\* later call needs memory for nodes.  The program can only end in put of a
\* cache that came up short.
FullPoolSuffices ==
  /\ \A c \in There :
       lru[c].complete /\ lru[c].m_alloc =>
         /\ lru[c].m_size + Len(lru[c].m_vector.items) = lru[c].m_capacity
         /\ lru[c].m_vector.m_capacity >= lru[c].m_capacity
         /\ Range(Forward(c)) \cup Range(lru[c].m_vector.items) \subseteq live
  /\ crashed => \E c \in There : ~lru[c].complete
  /\ ~misfreed

Entries(nodes) ==
  [i \in DOMAIN nodes |-> LET n == node[nodes[i]]
                          IN  [key |-> n.key, val |-> n.val]]

\* What a client knows of the caches: the entries in the order of the list,
\* and the capacities.
EntriesOf ==
  [c \in Caches |-> IF lru[c] = NULL THEN NULL ELSE Entries(Forward(c))]

CapacityOf == [c \in Caches |-> IF lru[c] = NULL THEN 0 ELSE lru[c].m_capacity]

ShortOf == [c \in Caches |-> lru[c] # NULL /\ ~lru[c].complete]

Recency == INSTANCE RecencyCache WITH
  entries <- EntriesOf, capacity <- CapacityOf, short <- ShortOf

\* The cache keeps the entries used most recently, in the order of their use;
\* a put that returns true has stored its value under its key, get returns the
\* value put last, only a new key at full capacity or a reset removes an
\* entry, and the program ends nowhere but in a put of a new key to a cache
\* whose constructor came short of nodes.
ImplementsRecency == Recency!Spec

=============================================================================
