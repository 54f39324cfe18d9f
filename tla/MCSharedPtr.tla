----------------------------- MODULE MCSharedPtr -----------------------------
(***************************************************************************)
(* Three threads and four handles of each kind, so that two threads can    *)
(* race for the last one while the third still works with the object.      *)
(***************************************************************************)
EXTENDS SharedPtr, TLC

Symmetric == Permutations(Threads \ {Creator}) \cup Permutations(Handles)

=============================================================================
