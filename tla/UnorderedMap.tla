---------------------------- MODULE UnorderedMap ----------------------------
(***************************************************************************)
(* rtl::unordered_map (rtlcpp/map.hpp): chained buckets, and a resize that *)
(* is spread over the operations: while it lasts the map lives in two      *)
(* tables, and every operation moves up to KEYS_PER_TRANSFER entries from  *)
(* the main to the secondary one.                                          *)
(*                                                                         *)
(* The map is one record.  A bucket is an rtl::vector of entries: its      *)
(* capacity, which decides whether push_back allocates, and its contents.  *)
(* An entry whose value is NULL is a husk, left behind in the main table   *)
(* when put has moved its value to the secondary one.  Allocation failures *)
(* are inputs of the operations.                                           *)
(***************************************************************************)
EXTENDS Integers, Sequences, FiniteSets

CONSTANTS
  Keys, Values, NULL,
  Hash,                \* Keys -> Nat, rtl::hash
  Primes,              \* power of two -> number of buckets
  MIN_POWER, MAX_POWER,
  MaxLoadPercent,      \* m_max_load_factor_percent
  KEYS_PER_TRANSFER,   \* number_of_keys_to_transfer
  InitialBuckets,      \* what expand() managed to allocate at construction
  Failures,            \* allocations that may fail
  GoodMoves,           \* numbers of entries that a call moves before an
                       \* allocation for the next one fails
  DelOverwritten       \* TRUE: del may be called for a key that was put
                       \* during the present resize and before

ASSUME MapConstants ==
  /\ IsFiniteSet(Keys) /\ Hash \in [Keys -> Nat]
  /\ {MIN_POWER, MAX_POWER, KEYS_PER_TRANSFER} \subseteq Nat \ {0}
  /\ MIN_POWER <= MAX_POWER
  /\ Primes \in [MIN_POWER .. MAX_POWER -> Nat \ {0}]
  /\ MaxLoadPercent \in Nat
  /\ InitialBuckets \subseteq 0 .. Primes[MIN_POWER]
  /\ Failures \subseteq {"entry", "value", "table"}
  /\ GoodMoves \subseteq Nat
  /\ DelOverwritten \in BOOLEAN
  /\ NULL \notin Values

Bucket == [capacity : Nat,
           entries  : Seq([key : Keys, val : Values \cup {NULL}])]

\* The tables of n buckets and the given power of two.
TablesOf(power, n) ==
  [power : {power}, num_buckets : {n}, total_entries : Nat,
   buckets : [0 .. (n - 1) -> Bucket]]

\* A null pointer to a table is none.
ASSUME NullIsNoTable ==
  \A power \in MIN_POWER .. MAX_POWER : \A n \in 0 .. Primes[power] :
    NULL \notin TablesOf(power, n)

VARIABLES
  map,       \* the object: its tables and its state
  content,   \* what the return values have told the client: Keys -> value
  hung       \* a call that will never return

vars == <<map, content, hung>>

-----------------------------------------------------------------------------
(* Buckets. *)

Last(es) == es[Len(es)]
Pop(es)  == SubSeq(es, 1, Len(es) - 1)

\* Position of the entry of key k, 0 if there is none.
Position(es, k) ==
  IF \E i \in DOMAIN es : es[i].key = k
    THEN CHOOSE i \in DOMAIN es :
           es[i].key = k /\ \A j \in 1 .. (i - 1) : es[j].key # k
    ELSE 0

\* vector::remove_fast
remove_fast(es, i) == Pop([es EXCEPT ![i] = Last(es), ![Len(es)] = es[i]])

\* vector::push_back of an entry without a value.
Room(b) == Len(b.entries) < b.capacity

push_back(b, k) ==
  [capacity |-> IF Room(b) THEN b.capacity
                ELSE IF b.capacity = 0 THEN 1 ELSE 2 * b.capacity,
   entries  |-> Append(b.entries, [key |-> k, val |-> NULL])]

-----------------------------------------------------------------------------
(* Tables. *)

Table(power, n) ==
  [power |-> power, num_buckets |-> n, total_entries |-> 0,
   buckets |-> [i \in 0 .. (n - 1) |-> [capacity |-> 0, entries |-> <<>>]]]

get_bucket_index(t, k) == Hash[k] % t.num_buckets

BucketOf(t, k) == t.buckets[get_bucket_index(t, k)].entries

HasEntry(t, k) == t.num_buckets # 0 /\ Position(BucketOf(t, k), k) # 0

\* Table::get: the value of k, NULL if there is no entry or it is a husk.
TableGet(t, k) ==
  IF HasEntry(t, k) THEN BucketOf(t, k)[Position(BucketOf(t, k), k)].val
  ELSE NULL

SetVal(t, k, v) ==
  [t EXCEPT !.buckets[get_bucket_index(t, k)]
              .entries[Position(BucketOf(t, k), k)].val = v]

bucket_remove(t, k) ==
  [t EXCEPT !.buckets[get_bucket_index(t, k)].entries =
     remove_fast(@, Position(@, k))]

\* ok says whether an allocation by push_back succeeds.
table_get_or_create_entry(t, k, ok) ==
  LET i == get_bucket_index(t, k)
  IN  CASE t.num_buckets = 0 -> [table |-> t, how |-> "failed"]
        [] HasEntry(t, k) -> [table |-> t, how |-> "found"]
        [] t.num_buckets # 0 /\ ~HasEntry(t, k) /\ (Room(t.buckets[i]) \/ ok) ->
             [table |-> [t EXCEPT !.buckets[i] = push_back(@, k),
                                  !.total_entries = @ + 1],
              how   |-> "created"]
        [] OTHER -> [table |-> t, how |-> "failed"]

\* Mutant: the entry goes, the counter stays.
TableDel_uncounted(t, k) == IF HasEntry(t, k) THEN bucket_remove(t, k) ELSE t

\* Table::del: afterwards the table, and whether there was an entry.
TableDel(t, k) ==
  IF HasEntry(t, k) THEN [bucket_remove(t, k) EXCEPT !.total_entries = @ - 1]
  ELSE t

table_delete_all_entries(t) ==
  [t EXCEPT !.total_entries = 0,
            !.buckets = [i \in DOMAIN @ |-> [@[i] EXCEPT !.entries = <<>>]]]

-----------------------------------------------------------------------------
(* The amortised resize. *)

should_resize(m) ==
  /\ ~m.locked
  /\ m.main.total_entries >= (MaxLoadPercent * m.main.num_buckets) \div 100

Error(m) == [m EXCEPT !.state = "ERROR"]

\* The secondary table must have got all its buckets; there is no table
\* beyond MAX_POWER.
begin_resize(m, power, ok) ==
  IF ok /\ power <= MAX_POWER
    THEN [m EXCEPT !.secondary = Table(power, Primes[power]),
                   !.state = "TRANSFER", !.current = 0]
    ELSE Error(m)

\* What get, put and del do at their end in the STABLE state.
MaybeResize(m, ok) ==
  IF should_resize(m) THEN begin_resize(m, m.main.power + 1, ok) ELSE m

is_transfer_complete(m) == m.main.total_entries = 0

end_resize(m) ==
  [m EXCEPT !.main = m.secondary, !.secondary = NULL, !.state = "STABLE",
            !.current = 0]

\* The next bucket of the main table with an entry, from the current one on.
NextBucket(m) ==
  IF \E i \in m.current .. (m.main.num_buckets - 1) :
       m.main.buckets[i].entries # <<>>
    THEN CHOOSE i \in m.current .. (m.main.num_buckets - 1) :
           /\ m.main.buckets[i].entries # <<>>
           /\ \A j \in m.current .. (i - 1) : m.main.buckets[j].entries = <<>>
    ELSE m.main.num_buckets

\* Mutant: an entry that is found in the secondary table is overwritten.
MoveEntry_overwrites(m, ok) ==
  LET i == NextBucket(m)
      e == Last(m.main.buckets[i].entries)
      r == table_get_or_create_entry(m.secondary, e.key, ok)
      rest == [m.main EXCEPT !.buckets[i].entries = Pop(@),
                             !.total_entries = @ - 1]
  IN  IF i = m.main.num_buckets THEN [map |-> m, how |-> "done"]
      ELSE IF r.how = "failed" THEN [map |-> m, how |-> "failed"]
      ELSE [map |-> [m EXCEPT !.main = rest, !.current = i,
                              !.secondary = SetVal(r.table, e.key, e.val)],
            how |-> "more"]

\* Mutant: the entry is copied and stays in the main table.
MoveEntry_copies(m, ok) ==
  LET i == NextBucket(m)
      e == Last(m.main.buckets[i].entries)
      r == table_get_or_create_entry(m.secondary, e.key, ok)
  IN  CASE i = m.main.num_buckets -> [map |-> m, how |-> "done"]
        [] i < m.main.num_buckets /\ r.how = "created" ->
             [map |-> [m EXCEPT !.secondary = SetVal(r.table, e.key, e.val)],
              how |-> "more"]
        [] OTHER -> [map |-> m, how |-> "failed"]

\* Mutant: the cursor moves on although the bucket has more entries.
MoveEntry_skips(m, ok) ==
  LET i == NextBucket(m)
      e == Last(m.main.buckets[i].entries)
      r == table_get_or_create_entry(m.secondary, e.key, ok)
      rest == [m.main EXCEPT !.buckets[i].entries = Pop(@),
                             !.total_entries = @ - 1]
  IN  IF i = m.main.num_buckets THEN [map |-> m, how |-> "done"]
      ELSE IF r.how = "failed" THEN [map |-> m, how |-> "failed"]
      ELSE [map |-> [m EXCEPT !.main = rest, !.current = i + 1,
                       !.secondary = IF r.how = "found" THEN @
                                     ELSE SetVal(r.table, e.key, e.val)],
            how |-> "more"]

\* Move one entry: into a new entry of the secondary table, or just away if
\* the key is there already.
MoveEntry(m, ok) ==
  LET i == NextBucket(m)
      e == Last(m.main.buckets[i].entries)
      r == table_get_or_create_entry(m.secondary, e.key, ok)
      rest == [m.main EXCEPT !.buckets[i].entries = Pop(@),
                             !.total_entries = @ - 1]
      n == [m EXCEPT !.current = i]
  IN  CASE i = m.main.num_buckets -> [map |-> n, how |-> "done"]
        [] i < m.main.num_buckets /\ r.how = "failed" ->
             [map |-> n, how |-> "failed"]
        [] i < m.main.num_buckets /\ r.how = "found" ->
             [map |-> [n EXCEPT !.main = rest], how |-> "more"]
        [] i < m.main.num_buckets /\ r.how = "created" ->
             [map |-> [n EXCEPT !.main = rest,
                         !.secondary = SetVal(r.table, e.key, e.val)],
              how |-> "more"]

\* The loop ends when a move fails and when there is nothing left to move.
MoveOn(r, ok) == IF r.how # "more" THEN r ELSE MoveEntry(r.map, ok)

\* The map after each of up to limit moves; allocations succeed for the first
\* good ones.
Moves(m, limit, good) ==
  LET after[j \in 0 .. limit] ==
        IF j = 0 THEN [map |-> m, how |-> "more"]
        ELSE MoveOn(after[j - 1], j <= good)
  IN  after

\* After the last move the cursor is at the next bucket with an entry.
Stop(r) ==
  IF r.how # "more" THEN r ELSE [r EXCEPT !.map.current = NextBucket(r.map)]

\* The moves are named as the only member of a set, which TLC evaluates once.
Transfer(m, limit, good) ==
  CHOOSE r \in {Stop(last) : last \in {Moves(m, limit, good)[limit]}} : TRUE

perform_partial_transfer(m, good) == Transfer(m, KEYS_PER_TRANSFER, good)

\* What get, put and del do at their end in the TRANSFER state.
PartialTransfer(m, good) ==
  LET r == perform_partial_transfer(m, good)
  IN  CASE r.how = "failed" -> Error(r.map)
        [] r.how # "failed" /\ is_transfer_complete(r.map) -> end_resize(r.map)
        [] OTHER -> r.map

\* More entries than any table holds.
AllEntries == 2 * Cardinality(Keys) + 1

\* The loop of finalize and reserve.  It never ends if no entry is left to be
\* moved and the main table still counts some.
TransferLoop(m, good) ==
  LET r == Transfer(m, AllEntries, good)
  IN  CASE is_transfer_complete(m) -> [map |-> end_resize(m), how |-> "complete"]
        [] ~is_transfer_complete(m) /\ r.how = "failed" -> r
        [] ~is_transfer_complete(m) /\ r.how # "failed"
             /\ is_transfer_complete(r.map) ->
             [map |-> end_resize(r.map), how |-> "complete"]
        [] OTHER -> [map |-> r.map, how |-> "loops"]

-----------------------------------------------------------------------------
(* Operations.  fail is the set of allocations that fail during the call and *)
(* good the number of entries that are moved before one.                     *)

Ok(fail, what) == what \notin fail

\* The table into which put writes, as it is after the attempt, and whether
\* the value is in.
Store(t, k, v, seed, fail) ==
  LET r == table_get_or_create_entry(t, k, Ok(fail, "entry"))
      s == IF r.how = "created" THEN SetVal(r.table, k, seed) ELSE r.table
  IN  CASE r.how = "failed" -> [table |-> t, done |-> FALSE]
        [] r.how # "failed" /\ (TableGet(s, k) # NULL \/ Ok(fail, "value")) ->
             [table |-> SetVal(s, k, v), done |-> TRUE]
        [] OTHER -> [table |-> IF r.how = "created" THEN bucket_remove(s, k)
                               ELSE s,
                     done  |-> FALSE]

put(k, v, fail, good) ==
  /\ ~hung
  /\ LET into == IF map.state = "STABLE" THEN map.main ELSE map.secondary
         seed == IF map.state = "STABLE" THEN NULL ELSE TableGet(map.main, k)
         r    == Store(into, k, v, seed, fail)
         husk == IF /\ ~HasEntry(into, k) /\ HasEntry(map.main, k)
                    /\ HasEntry(r.table, k)
                   THEN SetVal(map.main, k, NULL) ELSE map.main
     IN  /\ map' = CASE map.state = "ERROR" -> map
                     [] map.state = "STABLE" ->
                          MaybeResize([map EXCEPT !.main = r.table],
                                      Ok(fail, "table"))
                     [] map.state = "TRANSFER" ->
                          PartialTransfer([map EXCEPT !.main = husk,
                                                      !.secondary = r.table],
                                          good)
         /\ content' = IF map.state # "ERROR" /\ r.done
                         THEN [content EXCEPT ![k] = v] ELSE content
  /\ UNCHANGED hung

\* Mutant: get takes no part in a transfer.
get_idle(fail, good) ==
  /\ ~hung
  /\ map' = IF map.state = "STABLE" THEN MaybeResize(map, Ok(fail, "table"))
            ELSE map
  /\ UNCHANGED <<content, hung>>

\* What get returns is Lookup, below; this is what it does to the map.
get(fail, good) ==
  /\ ~hung
  /\ map' = CASE map.state = "ERROR" -> map
              [] map.state = "STABLE" -> MaybeResize(map, Ok(fail, "table"))
              [] map.state = "TRANSFER" -> PartialTransfer(map, good)
  /\ UNCHANGED <<content, hung>>

del(k, fail, good) ==
  /\ ~hung
  /\ map.state = "TRANSFER" /\ HasEntry(map.main, k)
       /\ HasEntry(map.secondary, k) => DelOverwritten
  /\ map' = CASE map.state = "ERROR" -> map
              [] map.state = "STABLE" ->
                   MaybeResize([map EXCEPT !.main = TableDel(@, k)],
                               Ok(fail, "table"))
              [] map.state = "TRANSFER" ->
                   PartialTransfer(
                     IF HasEntry(map.main, k)
                       THEN [map EXCEPT !.main = TableDel(@, k)]
                       ELSE [map EXCEPT !.secondary = TableDel(@, k)],
                     good)
  /\ content' = IF map.state = "ERROR" THEN content
                ELSE [content EXCEPT ![k] = NULL]
  /\ UNCHANGED hung

finalize(good) ==
  /\ ~hung
  /\ LET r == TransferLoop(map, good)
     IN  IF map.state = "TRANSFER"
           THEN map' = r.map /\ hung' = (r.how = "loops")
           ELSE UNCHANGED <<map, hung>>
  /\ UNCHANGED content

delete_all_keys ==
  /\ ~hung
  /\ map' = CASE map.state = "ERROR" -> map
              [] map.state = "STABLE" ->
                   [map EXCEPT !.main = table_delete_all_entries(@)]
              [] map.state = "TRANSFER" ->
                   TransferLoop(
                     [map EXCEPT !.main = table_delete_all_entries(@),
                                 !.secondary = table_delete_all_entries(@)],
                     0).map
  /\ content' = IF map.state = "ERROR" THEN content ELSE [k \in Keys |-> NULL]
  /\ UNCHANGED hung

\* reserve of a number of buckets that needs a table of the given power.
reserve(power, fail, good) ==
  /\ ~hung
  /\ LET first  == IF map.state = "TRANSFER" THEN TransferLoop(map, good)
                   ELSE [map |-> map, how |-> "complete"]
         bigger == begin_resize(first.map, power, Ok(fail, "table"))
         second == TransferLoop(bigger, good)
     IN  CASE map.state = "ERROR" -> UNCHANGED <<map, hung>>
           [] map.state # "ERROR" /\ first.how # "complete" ->
                map' = first.map /\ hung' = (first.how = "loops")
           [] map.state # "ERROR" /\ first.how = "complete"
                /\ power <= first.map.main.power ->
                map' = first.map /\ UNCHANGED hung
           [] OTHER ->
                IF bigger.state = "ERROR" THEN map' = bigger /\ UNCHANGED hung
                ELSE map' = second.map /\ hung' = (second.how = "loops")
  /\ UNCHANGED content

lock_table_size(b) ==
  /\ ~hung
  /\ map' = [map EXCEPT !.locked = b]
  /\ UNCHANGED <<content, hung>>

\* The constructor: no main table, or one with the buckets it could get.
Init ==
  /\ map \in {[main |-> Table(MIN_POWER, n), secondary |-> NULL,
               state |-> "STABLE", current |-> 0, locked |-> FALSE]
                : n \in InitialBuckets}
             \cup (IF "table" \in Failures
                     THEN {[main |-> NULL, secondary |-> NULL,
                            state |-> "ERROR", current |-> 0, locked |-> FALSE]}
                     ELSE {})
  /\ content = [k \in Keys |-> NULL]
  /\ hung = FALSE

\* The failures that get, del and reserve can meet.
TableFailures == SUBSET (Failures \cap {"table"})

Lookups == \E fail \in TableFailures, good \in GoodMoves : get(fail, good)

Next ==
  \/ \E k \in Keys, v \in Values, fail \in SUBSET Failures, good \in GoodMoves :
       put(k, v, fail, good)
  \/ \E fail \in TableFailures, good \in GoodMoves :
       \/ \E k \in Keys : del(k, fail, good)
       \/ \E power \in MIN_POWER .. MAX_POWER : reserve(power, fail, good)
  \/ Lookups
  \/ \E good \in GoodMoves : finalize(good)
  \/ delete_all_keys
  \/ \E b \in BOOLEAN : lock_table_size(b)

Spec == Init /\ [][Next]_vars

\* The client keeps looking keys up.
FairSpec == Spec /\ WF_vars(Lookups)

-----------------------------------------------------------------------------
(* Properties. *)

Tables == {map.main, map.secondary} \ {NULL}

Entries(t) == UNION {{<<i, j>> : j \in DOMAIN t.buckets[i].entries}
                      : i \in DOMAIN t.buckets}

Entry(t, p) == t.buckets[p[1]].entries[p[2]]

IsTable(t) ==
  /\ t.power \in MIN_POWER .. MAX_POWER
  /\ t.num_buckets \in 0 .. Primes[t.power]
  /\ t \in TablesOf(t.power, t.num_buckets)
  /\ \A i \in DOMAIN t.buckets :
       Len(t.buckets[i].entries) <= t.buckets[i].capacity

\* The shape of the object: which tables exist in which state.
TypeOK ==
  /\ map.state \in {"ERROR", "STABLE", "TRANSFER"}
  /\ map.state = "STABLE" => map.main # NULL /\ map.secondary = NULL
  /\ map.state = "TRANSFER" => map.main # NULL /\ map.secondary # NULL
  /\ \A t \in Tables : IsTable(t)
  /\ map.current \in Nat /\ map.locked \in BOOLEAN
  /\ content \in [Keys -> Values \cup {NULL}]
  /\ hung \in BOOLEAN

\* What get would find.
Lookup(k) ==
  IF map.state = "TRANSFER" /\ TableGet(map.secondary, k) # NULL
    THEN TableGet(map.secondary, k) ELSE TableGet(map.main, k)

\* At every moment of a resize a lookup gives what was put last, and nothing
\* for a key that was deleted: "Deletes value pointed to by key" (map.hpp, del).
LookupFindsContent ==
  map.state # "ERROR" => \A k \in Keys : Lookup(k) = content[k]

\* The counters that decide on resizing and on the end of a transfer agree
\* with the buckets.
EntriesCounted ==
  \A t \in Tables : t.total_entries = Cardinality(Entries(t))

\* A key has one entry per table, in the bucket of its hash; the only husks
\* are entries of the main table whose key is in the secondary one.  With the
\* assertion of perform_partial_transfer that such an entry has no value, no
\* value is dropped or owned twice, even after a failed transfer.
EntriesWellPlaced ==
  /\ TypeOK
  /\ \A t \in Tables : \A p, q \in Entries(t) :
       /\ p[1] = get_bucket_index(t, Entry(t, p).key)
       /\ Entry(t, p).key = Entry(t, q).key => p = q
  /\ map.main # NULL => \A p \in Entries(map.main) :
       LET e == Entry(map.main, p)
       IN  e.val = NULL <=>
             map.secondary # NULL /\ HasEntry(map.secondary, e.key)
  /\ map.secondary # NULL =>
       \A p \in Entries(map.secondary) : Entry(map.secondary, p).val # NULL

\* No entry is stranded behind the cursor of the transfer, where no operation
\* would look for it again.
NothingStranded ==
  map.state = "TRANSFER" =>
    \A p \in Entries(map.main) : p[1] >= map.current

\* "Perform partial transfers at every opportunity" (map.hpp): a resize ends
\* if the client goes on using the map, whatever keys it puts and deletes
\* meanwhile and even if finalize fails again and again, as long as the values
\* themselves can be copied.
ResizeEnds == map.state = "TRANSFER" ~> map.state # "TRANSFER"

\* finalize and reserve return, although a failed put was rolled back before:
\* "Roll back everything if we created it" (map.hpp, put).
CallsReturn == ~hung

=============================================================================
