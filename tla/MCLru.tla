-------------------------------- MODULE MCLru --------------------------------
(***************************************************************************)
(* Two caches of two or three entries and three keys; one key is put with  *)
(* two different values.                                                   *)
(***************************************************************************)
EXTENDS Lru, TLC

CONSTANTS k1, v0, v1, v2

ValuesOf == [k \in Keys |-> IF k = k1 THEN {v1, v2} ELSE {v0}]

Symmetric ==
  Permutations(Caches) \cup Permutations(Keys \ {k1}) \cup Permutations({v1, v2})

=============================================================================
