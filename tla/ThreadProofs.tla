----------------------------- MODULE ThreadProofs -----------------------------
(***************************************************************************)
(* The parts of the library that are about threads: the safety properties  *)
(* of PeriodicTask, for every set of callers, and of SpinLock, for every   *)
(* set of threads, and that SpinLock implements the abstract mutex.  The   *)
(* two share no state.                                                     *)
(***************************************************************************)
EXTENDS PeriodicTask, SpinLock, TLAPS

\* A call begun after m_shutdown was set is the worker's last one.
LastCall ==
  /\ ~m_shutdown => late = 0
  /\ late = 1 => wpc \in {"call", "lock", "check", "done"}
  /\ OneMoreCall

\* Only start creates the thread; it is joinable as long as it runs, and a
\* destroyed task is not started again.
Lifetime ==
  /\ ~m_started => wpc = "none"
  /\ wpc \notin {"none", "done"} => m_thread
  /\ \A c \in Callers : cpc[c] = "gone" => dying /\ ~m_thread

IInv == TypeOK /\ MutexHeldInside /\ NoLostWakeup /\ LastCall /\ Lifetime

\* The constructed task.
LEMMA InitIInv == Init => IInv
<1> SUFFICES ASSUME Init PROVE IInv
  OBVIOUS
<1> USE DEF Init
<1>1. TypeOK
  <2>1. signals \in [Callers -> 0 .. MaxSignals] /\ late \in Nat
    BY TaskConstants
  <2>2. /\ m_mtx \in Callers \union {Worker, Nobody}
        /\ cpc \in [Callers -> {"idle", "locked", "notify", "join", "dying",
                               "gone"}]
    OBVIOUS
  <2> QED
    BY <2>1, <2>2, Zenon DEF TypeOK
<1>2. MutexHeldInside /\ NoLostWakeup
  BY TaskConstants DEF MutexHeldInside, NoLostWakeup
<1>3. LastCall
  BY DEF LastCall, OneMoreCall
<1>4. Lifetime
  BY DEF Lifetime
<1> QED
  BY <1>1, <1>2, <1>3, <1>4 DEF IInv

\* The steps of the worker, priv_start's loop, keep the invariant.
LEMMA WorkerIInv == IInv /\ (Work \/ Spurious) => IInv'
<1> SUFFICES ASSUME IInv, Work \/ Spurious PROVE IInv'
  OBVIOUS
<1> USE TaskConstants
    DEF IInv, TypeOK, MutexHeldInside, NoLostWakeup, LastCall, OneMoreCall,
        Lifetime, flags
<1>1. CASE SetSched
  <2>1. m_started /\ m_thread /\ UNCHANGED <<m_started, m_thread, cpc, dying>>
    BY <1>1 DEF SetSched
  <2>2. wpc' \in {"call", "done"}
    BY <1>1 DEF SetSched, CallAgain
  <2>3. Lifetime'
    BY <1>1, <2>1, <2>2
  <2>4. late' \in Nat /\ LastCall'
    BY <1>1 DEF SetSched, CallAgain
  <2>5. m_errored_out' \in BOOLEAN
    BY <1>1 DEF SetSched
  <2>6. TypeOK'
    BY <1>1, <2>2, <2>4, <2>5 DEF SetSched
  <2>7. MutexHeldInside' /\ NoLostWakeup'
    BY <1>1, <2>2 DEF SetSched
  <2> QED
    BY <2>3, <2>4, <2>6, <2>7
<1>2. CASE m_call
  BY <1>2 DEF m_call
<1>3. CASE Lock
  BY <1>3 DEF Lock
<1>4. CASE Check
  BY <1>4 DEF Check
<1>5. CASE StopWaiting
  BY <1>5 DEF StopWaiting
<1>6. CASE Relock
  BY <1>6 DEF Relock, CallAgain
<1> QED
  BY <1>1, <1>2, <1>3, <1>4, <1>5, <1>6 DEF Work, Timeout, Spurious

\* The steps of a caller keep it: start, notify_one, signal_shutdown, join and
\* the destructor.
LEMMA CallerIInv ==
  ASSUME NEW c \in Callers, IInv,
         \/ start(c) \/ notify_one(c) \/ signal_shutdown(c) \/ join(c)
         \/ Destroy(c) \/ Finish(c)
  PROVE  IInv'
<1> USE TaskConstants
    DEF IInv, TypeOK, MutexHeldInside, NoLostWakeup, LastCall, OneMoreCall,
        Lifetime, flags, Goto, Usable
<1>1. CASE start(c)
  BY <1>1 DEF start
<1>2. CASE notify_one(c)
  BY <1>2 DEF notify_one, Notified
<1>3. CASE signal_shutdown(c)
  BY <1>3 DEF signal_shutdown
<1>4. CASE join(c)
  BY <1>4 DEF join
<1>5. CASE Destroy(c)
  BY <1>5 DEF Destroy
<1>6. CASE SetFlag(c)
  BY <1>6 DEF SetFlag
<1>7. CASE Notify(c)
  BY <1>7 DEF Notify, Notified
<1>8. CASE JoinEnd(c)
  BY <1>8 DEF JoinEnd
<1>9. CASE DestroyLock(c)
  BY <1>9 DEF DestroyLock
<1> QED
  BY <1>1, <1>2, <1>3, <1>4, <1>5, <1>6, <1>7, <1>8, <1>9 DEF Finish

\* Every step of the task keeps the invariant.
LEMMA NextIInv == IInv /\ [Next]_vars => IInv'
<1>1. IInv /\ UNCHANGED vars => IInv'
  BY DEF IInv, TypeOK, MutexHeldInside, NoLostWakeup, LastCall, OneMoreCall,
         Lifetime, vars, flags
<1> QED
  BY <1>1, WorkerIInv, CallerIInv DEF Next

\* The invariant is one of every execution.
THEOREM Invariance == Spec => []IInv
  BY InitIInv, NextIInv, PTL DEF Spec

\* The members of the task keep their types.
THEOREM TypeCorrect == Spec => []TypeOK
<1>1. IInv => TypeOK
  BY DEF IInv
<1> QED
  BY <1>1, Invariance, PTL

\* No call of signal_shutdown is lost on a waiting worker, because the flag is
\* written under the mutex that the worker holds from its test to its wait.
THEOREM ShutdownNotLost == Spec => [](MutexHeldInside /\ NoLostWakeup)
<1>1. IInv => MutexHeldInside /\ NoLostWakeup
  BY DEF IInv
<1> QED
  BY <1>1, Invariance, PTL

\* After a shutdown the callable is begun at most once more.
THEOREM CallsEnd == Spec => []OneMoreCall
<1>1. IInv => OneMoreCall
  BY DEF IInv, LastCall
<1> QED
  BY <1>1, Invariance, PTL

\* The destructor returns only when the worker is through with the object.
THEOREM WorkerEndsFirst == Spec => []WorkerGoneFirst
<1>1. IInv => WorkerGoneFirst
  BY DEF IInv, Lifetime, WorkerGoneFirst
<1> QED
  BY <1>1, Invariance, PTL

-----------------------------------------------------------------------------
(* The spin lock, with its own threads and variables. *)

\* The flag and the places of the threads agree.
LockIInv == LockTypeOK /\ Exclusive

\* Every step keeps the flag and the set of threads inside in agreement: an
\* exchange lets a thread in only if it finds the flag cleared.
LEMMA LockStep == LockIInv /\ [LockNext]_lockVars => LockIInv'
<1> SUFFICES ASSUME LockIInv, [LockNext]_lockVars PROVE LockIInv'
  OBVIOUS
<1> USE DEF LockIInv, LockTypeOK, Exclusive, Inside, GotoPc
<1>1. ASSUME NEW t \in Threads, lock(t) PROVE LockIInv'
  BY <1>1 DEF lock
<1>2. ASSUME NEW t \in Threads, LockExchange(t) PROVE LockIInv'
  BY <1>2 DEF LockExchange, Exchange
<1>3. ASSUME NEW t \in Threads, Spin(t) PROVE LockIInv'
  BY <1>3 DEF Spin
<1>4. ASSUME NEW t \in Threads, try_lock(t) PROVE LockIInv'
  BY <1>4 DEF try_lock
<1>5. ASSUME NEW t \in Threads, TryExchange(t) PROVE LockIInv'
  BY <1>5 DEF TryExchange, Exchange
<1>6. ASSUME NEW t \in Threads, unlock(t) PROVE LockIInv'
  BY <1>6 DEF unlock
<1>7. CASE UNCHANGED lockVars
  BY <1>7 DEF lockVars
<1> QED
  BY <1>1, <1>2, <1>3, <1>4, <1>5, <1>6, <1>7 DEF LockNext, Proceed

\* In every execution, whatever the number of threads and however lock,
\* try_lock and unlock interleave, at most one thread holds the SpinLock, and
\* the flag is set exactly while one does.
THEOREM MutualExclusion == LockSpec => []Exclusive
<1>1. LockInit => LockIInv
  BY DEF LockInit, LockIInv, LockTypeOK, Exclusive, Inside
<1>2. LockIInv => Exclusive
  BY DEF LockIInv
<1> QED
  BY <1>1, <1>2, LockStep, PTL DEF LockSpec

\* holder names the thread inside, and nobody when there is none.
LEMMA HolderIs ==
  ASSUME Exclusive
  PROVE  /\ Inside = {} => holder = NoThread
         /\ \A t \in Inside : holder = t
  BY DEF Exclusive, holder, Inside

\* A step that keeps the set of threads inside keeps the holder.
LEMMA SameInside ==
  ASSUME Inside' = Inside
  PROVE  UNCHANGED holder
  BY DEF holder

\* An exchange that finds the flag cleared is Acquire of the abstract mutex,
\* and unlock is its Release; nothing else changes the holder.
LEMMA StepRefines ==
  LockIInv /\ LockIInv' /\ [LockNext]_lockVars => [AbstractMutex!Next]_holder
<1> SUFFICES ASSUME LockIInv, LockIInv', [LockNext]_lockVars
             PROVE  AbstractMutex!Next \/ UNCHANGED holder
  OBVIOUS
<1> USE DEF GotoPc
<1>a. pc \in [Threads -> {"out", "exchange", "spin", "try", "in"}]
  BY DEF LockIInv, LockTypeOK
<1>1. ASSUME NEW t \in Threads, lock(t) PROVE Inside' = Inside
  BY <1>1, <1>a DEF lock, Inside
<1>2. ASSUME NEW t \in Threads, Spin(t) PROVE Inside' = Inside
  BY <1>2, <1>a DEF Spin, Inside
<1>3. ASSUME NEW t \in Threads, try_lock(t) PROVE Inside' = Inside
  BY <1>3, <1>a DEF try_lock, Inside
<1>4. ASSUME NEW t \in Threads, LockExchange(t) \/ TryExchange(t)
      PROVE  AbstractMutex!Next \/ Inside' = Inside
  <2>1. CASE m_lock
    BY <1>4, <1>a, <2>1 DEF LockExchange, TryExchange, Exchange, Inside
  <2>2. CASE ~m_lock
    <3>1. Inside = {}
      BY <2>2 DEF LockIInv, Exclusive
    <3>2. t \in Inside'
      BY <1>4, <1>a, <2>2 DEF LockExchange, TryExchange, Exchange, Inside
    <3>3. holder = NoThread
      BY <3>1 DEF holder
    <3>4. holder' = t
      BY <3>2 DEF LockIInv, Exclusive, holder, Inside
    <3> QED
      BY <3>3, <3>4 DEF AbstractMutex!Next, AbstractMutex!Acquire
  <2> QED
    BY <2>1, <2>2
<1>5. ASSUME NEW t \in Threads, unlock(t) PROVE AbstractMutex!Next
  <2>1. t \in Inside
    BY <1>5 DEF unlock, Inside
  <2>2. holder = t
    BY <2>1, HolderIs DEF LockIInv
  <2>3. Inside' = {}
    BY <1>5 DEF unlock, LockIInv, Exclusive
  <2>4. holder' = NoThread
    BY <2>3 DEF holder
  <2> QED
    BY <2>2, <2>4 DEF AbstractMutex!Next, AbstractMutex!Release
<1>6. CASE UNCHANGED lockVars
  BY <1>6 DEF lockVars, holder, Inside
<1> QED
  BY <1>1, <1>2, <1>3, <1>4, <1>5, <1>6, SameInside DEF LockNext, Proceed

\* SpinLock implements the contract of IMutex: its atomic exchanges and stores
\* are acquisitions and releases of an abstract mutex.
THEOREM Refinement == LockSpec => ImplementsMutex
<1>1. LockInit => AbstractMutex!Init
  BY DEF LockInit, AbstractMutex!Init, holder, Inside
<1>2. LockInit => LockIInv
  BY DEF LockInit, LockIInv, LockTypeOK, Exclusive, Inside
<1> QED
  BY <1>1, <1>2, LockStep, StepRefines, PTL
  DEF LockSpec, ImplementsMutex, AbstractMutex!Spec


=============================================================================
