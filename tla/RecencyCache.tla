---------------------------- MODULE RecencyCache ----------------------------
(***************************************************************************)
(* What rtlcpp/lru.hpp promises of a cache: the entries in the order of    *)
(* their last use, the most recent first, at most capacity of them, the    *)
(* last of which makes room for a new one; get(k) returns the value that   *)
(* was put for k last, and put(k, v) says whether v is now there under k.  *)
(*                                                                         *)
(* One thing is here that the header does not say: a put of a new key may  *)
(* never return, if the constructor of the cache came short of nodes.      *)
(***************************************************************************)
EXTENDS Integers, Sequences

CONSTANTS Caches, Keys, Values, Capacities, NULL

VARIABLES entries,    \* Caches -> sequence of [key, val], NULL: no object
          capacity,   \* Caches -> Nat
          short,      \* Caches -> did the constructor find too little memory
          answer      \* the last get as <<c, k, what it returned>>, the last
                      \* put as <<c, k, v, what it returned>>, or <<>>

Has(es, k) == \E i \in DOMAIN es : es[i].key = k

Without(es, i) == SubSeq(es, 1, i - 1) \o SubSeq(es, i + 1, Len(es))

\* The entries that stay when there must be room for one more.
Room(es, n) == IF Len(es) = n THEN SubSeq(es, 1, n - 1) ELSE es

Becomes(c, es) ==
  entries' = [entries EXCEPT ![c] = es] /\ UNCHANGED <<capacity, short>>

New(c) ==
  /\ answer' = <<>>
  /\ entries[c] = NULL
  /\ \E n \in Capacities : capacity' = [capacity EXCEPT ![c] = n]
  /\ \E b \in BOOLEAN : short' = [short EXCEPT ![c] = b]
  /\ entries' = [entries EXCEPT ![c] = <<>>]

Delete(c) ==
  /\ answer' = <<>>
  /\ entries[c] # NULL
  /\ capacity' = [capacity EXCEPT ![c] = 0]
  /\ short' = [short EXCEPT ![c] = FALSE]
  /\ entries' = [entries EXCEPT ![c] = NULL]

\* Whatever c had is gone and o is left empty.
Move(c, o) ==
  /\ answer' = <<>>
  /\ c # o /\ entries[o] # NULL
  /\ capacity' = [capacity EXCEPT ![c] = capacity[o], ![o] = 0]
  /\ short' = [short EXCEPT ![c] = short[o]]
  /\ entries' = [entries EXCEPT ![c] = entries[o], ![o] = <<>>]

Reset(c) ==
  /\ answer' = <<>>
  /\ entries[c] # NULL
  /\ Becomes(c, <<>>)

\* The step is a get or a put of c with the key k.
Called(c, k) == answer' # <<>> /\ answer'[1] = c /\ answer'[2] = k

\* A key that is not there changes nothing.
GetNothing(c, k) ==
  /\ answer' = <<c, k, NULL>>
  /\ entries[c] # NULL /\ ~Has(entries[c], k)
  /\ UNCHANGED <<entries, capacity, short>>

\* v is the value that is returned.
Get(c, k, v) ==
  /\ answer' = <<c, k, v>>
  /\ LET es == entries[c]
     IN  /\ es # NULL
         /\ \E i \in DOMAIN es :
              /\ es[i] = [key |-> k, val |-> v]
              /\ Becomes(c, <<es[i]>> \o Without(es, i))

\* The value of this call is the one under the key of this call, and it is
\* the first entry.
Put(c, k, v) ==
  /\ answer' = <<c, k, v, TRUE>>
  /\ LET es  == entries[c]
         new == [key |-> k, val |-> v]
     IN  /\ es # NULL
         /\ \/ \E i \in DOMAIN es :
                 es[i].key = k /\ Becomes(c, <<new>> \o Without(es, i))
            \/ ~Has(es, k) /\ Becomes(c, <<new>> \o Room(es, capacity[c]))

\* Room has been made and the new entry is not there.
PutFails(c, k, v) ==
  /\ answer' = <<c, k, v, FALSE>>
  /\ LET es == entries[c]
     IN  es # NULL /\ ~Has(es, k) /\ Becomes(c, Room(es, capacity[c]))

\* The program ends in put.
PutEnds(c, k, v) ==
  /\ answer' = <<c, k, v, NULL>>
  /\ entries[c] # NULL /\ ~Has(entries[c], k) /\ short[c]
  /\ UNCHANGED <<entries, capacity, short>>

Init ==
  /\ entries = [c \in Caches |-> NULL]
  /\ capacity = [c \in Caches |-> 0]
  /\ short = [c \in Caches |-> FALSE]
  /\ answer = <<>>

Next ==
  \E c \in Caches :
    \/ New(c) \/ Delete(c) \/ Reset(c)
    \/ \E o \in Caches : Move(c, o)
    \/ \E k \in Keys :
         /\ Called(c, k)
         /\ \/ GetNothing(c, k)
            \/ \E v \in Values[k] :
                 \/ Get(c, k, v)
                 \/ Put(c, k, v) \/ PutFails(c, k, v) \/ PutEnds(c, k, v)

Spec == Init /\ [][Next]_<<entries, capacity, short, answer>>

=============================================================================
