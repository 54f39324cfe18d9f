---------------------------- MODULE MCObjectPool ----------------------------
(***************************************************************************)
(* Two pools, four blocks for objects and buffers together, and calls of   *)
(* whose first three allocations any may fail.                             *)
(***************************************************************************)
EXTENDS ObjectPool, TLC

SymmetricPools == Permutations(Pools)

=============================================================================
