-------------------------------- MODULE Mutex --------------------------------
(***************************************************************************)
(* What IMutex (rtlcpp/mutex.hpp) promises: at most one thread is between  *)
(* a lock, or a try_lock that returned true, and its unlock.               *)
(***************************************************************************)
CONSTANTS Threads, Nobody

VARIABLE holder

Acquire(t) == holder = Nobody /\ holder' = t

Release(t) == holder = t /\ holder' = Nobody

Init == holder = Nobody

Next == \E t \in Threads : Acquire(t) \/ Release(t)

Spec == Init /\ [][Next]_holder

=============================================================================
