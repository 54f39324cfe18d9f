--------------------------- MODULE MCUnorderedMap ---------------------------
(***************************************************************************)
(* Tables of 2, 3 and 5 buckets and a load factor of one: with three keys  *)
(* a map is resized twice, and keys collide in some tables only.           *)
(***************************************************************************)
EXTENDS UnorderedMap, TLC

CONSTANTS k1, k2, k3

MCKeys   == {k1, k2, k3}
MCHash   == (k1 :> 0 @@ k2 :> 2 @@ k3 :> 3)
MCPrimes == (4 :> 2 @@ 5 :> 3 @@ 6 :> 5)

\* At construction all buckets or none could be allocated.
MCInitialBuckets == {0, 2}
OnlyFull         == {2}

EntryOrTable == {"entry", "table"}
ValueFails   == {"value"}
NoFailure    == {}

\* The first, the second or no allocation of a transfer fails.
MCGoodMoves == {0, 1, AllEntries}
AlwaysGood  == {AllEntries}

=============================================================================
