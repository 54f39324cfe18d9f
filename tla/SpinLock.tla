------------------------------ MODULE SpinLock ------------------------------
(***************************************************************************)
(* SpinLock (rtlcpp/mutex.hpp), used by threads that keep entering and     *)
(* leaving a critical section with lock or try_lock.  Every operation on   *)
(* the atomic m_lock is a step.                                            *)
(***************************************************************************)
CONSTANTS Threads, NoThread

ASSUME SpinConstants == NoThread \notin Threads

VARIABLES
  m_lock,   \* the atomic flag
  pc        \* thread -> where it is

lockVars == <<m_lock, pc>>

GotoPc(t, l) == pc' = [pc EXCEPT ![t] = l]

lock(t) == pc[t] = "out" /\ GotoPc(t, "exchange") /\ UNCHANGED m_lock

\* m_lock.exchange(true), of lock and of try_lock.
Exchange(t, else) ==
  /\ m_lock' = TRUE
  /\ GotoPc(t, IF m_lock THEN else ELSE "in")

LockExchange(t) == pc[t] = "exchange" /\ Exchange(t, "spin")

\* while (m_lock.load()) relax: the loop ends when the flag is seen cleared.
Spin(t) ==
  /\ pc[t] = "spin" /\ ~m_lock
  /\ GotoPc(t, "exchange")
  /\ UNCHANGED m_lock

\* !m_lock.load() && !m_lock.exchange(true)
try_lock(t) ==
  /\ pc[t] = "out" /\ ~m_lock
  /\ GotoPc(t, "try")
  /\ UNCHANGED m_lock

\* Mutant: try_lock trusts its load and just stores.
TryExchange_blind(t) == pc[t] = "try" /\ m_lock' = TRUE /\ GotoPc(t, "in")

TryExchange(t) == pc[t] = "try" /\ Exchange(t, "out")

\* Mutant: unlock leaves the flag set.
unlock_not(t) == pc[t] = "in" /\ GotoPc(t, "out") /\ UNCHANGED m_lock

unlock(t) == pc[t] = "in" /\ m_lock' = FALSE /\ GotoPc(t, "out")

LockInit == m_lock = FALSE /\ pc = [t \in Threads |-> "out"]

\* The steps of a call that has begun, and the end of the critical section.
Proceed(t) == LockExchange(t) \/ Spin(t) \/ TryExchange(t) \/ unlock(t)

LockNext == \E t \in Threads : lock(t) \/ try_lock(t) \/ Proceed(t)

LockSpec == LockInit /\ [][LockNext]_lockVars

\* Every thread that can take a step is scheduled, and critical sections end.
FairLockSpec == LockSpec /\ \A t \in Threads : WF_lockVars(Proceed(t))

-----------------------------------------------------------------------------
(* Properties. *)

\* The flag is a Boolean and the threads are somewhere in the code.
LockTypeOK ==
  /\ m_lock \in BOOLEAN
  /\ pc \in [Threads -> {"out", "exchange", "spin", "try", "in"}]

Inside == {t \in Threads : pc[t] = "in"}

\* A thread that has got the lock, by lock or by try_lock, is the only one,
\* and the flag is set exactly as long as somebody has it: no exchange that
\* failed leaves it set for nobody.
Exclusive ==
  /\ \A t, u \in Inside : t = u
  /\ m_lock <=> Inside # {}

holder == IF Inside = {} THEN NoThread ELSE CHOOSE t \in Threads : t \in Inside

AbstractMutex == INSTANCE Mutex WITH Nobody <- NoThread

\* A SpinLock is a mutex.
ImplementsMutex == AbstractMutex!Spec

\* Somebody gets the lock as long as somebody is calling lock; nothing says
\* who.
SomebodyGetsIn ==
  (\E t \in Threads : pc[t] \in {"exchange", "spin"}) ~> (Inside # {})

=============================================================================
