---------------------------- MODULE PeriodicTask ----------------------------
(***************************************************************************)
(* PeriodicTask (rtlcpp/task.hpp): a worker thread that runs a callable,   *)
(* waits on a condition variable (with or without a timeout) and runs it   *)
(* again, until the callable returns true or somebody has called           *)
(* signal_shutdown.  The owner of the object starts, joins and destroys    *)
(* it; every caller may notify it and shut it down.                        *)
(*                                                                         *)
(* std::mutex and std::condition_variable are modelled by their contract:  *)
(* waiting releases the mutex in the same step, a notification that finds  *)
(* nobody waiting is lost, and a wait may end for no reason at all.        *)
(***************************************************************************)
EXTENDS Integers

CONSTANTS
  Callers,     \* the threads that use the object
  Owner,       \* the one that starts, joins and destroys it
  Worker,      \* the thread start() creates
  Nobody,      \* the owner of a free mutex
  MaxSignals   \* bound on the calls of signal_shutdown by each caller

ASSUME TaskConstants ==
  /\ Owner \in Callers
  /\ Worker \notin Callers /\ Nobody \notin Callers \union {Worker}
  /\ MaxSignals \in Nat \ {0}

VARIABLES
  m_started, m_shutdown, m_errored_out,
  m_options,   \* [sched |-> set scheduling parameters?, timeout |-> any?]
  m_mtx,       \* the thread that holds the mutex
  m_thread,    \* TRUE while the thread is joinable
  wpc,         \* where the worker is
  cpc,         \* caller -> where it is in a call
  signals,     \* caller -> calls of signal_shutdown it may still make
  dying,       \* the destructor has begun
  late         \* ghost: calls of m_call begun after m_shutdown was set

flags == <<m_started, m_shutdown, m_errored_out, m_options>>
vars  == <<flags, m_mtx, m_thread, wpc, cpc, signals, dying, late>>

Options == [sched : BOOLEAN, timeout : BOOLEAN]

-----------------------------------------------------------------------------
(* The worker: the lambda of priv_start. *)

\* The worker begins a call of m_call.
CallAgain == wpc' = "call" /\ late' = IF m_shutdown THEN late + 1 ELSE late

\* pthread_setschedparam, when the options ask for it.
SetSched ==
  /\ wpc = "sched"
  /\ \/ CallAgain /\ UNCHANGED m_errored_out
     \/ m_options.sched /\ m_errored_out' = TRUE /\ wpc' = "done"
        /\ UNCHANGED late
  /\ UNCHANGED <<m_started, m_shutdown, m_options, m_mtx, m_thread, cpc,
                 signals, dying>>

\* m_call returns true, and the loop ends, or false.
m_call ==
  /\ wpc = "call"
  /\ wpc' \in {"done", "lock"}
  /\ UNCHANGED <<flags, m_mtx, m_thread, cpc, signals, dying, late>>

\* Mutant: the worker ends its turn without looking at the flag.
Lock_skips ==
  /\ wpc = "lock" /\ m_mtx = Nobody
  /\ wpc' = "relock"
  /\ UNCHANGED <<flags, m_mtx, m_thread, cpc, signals, dying, late>>

Lock ==
  /\ wpc = "lock" /\ m_mtx = Nobody
  /\ m_mtx' = Worker /\ wpc' = "check"
  /\ UNCHANGED <<flags, m_thread, cpc, signals, dying, late>>

\* Mutant: the flag is not looked at before waiting.
Check_not ==
  /\ wpc = "check"
  /\ wpc' = "wait" /\ m_mtx' = Nobody
  /\ UNCHANGED <<flags, m_thread, cpc, signals, dying, late>>

\* if (m_shutdown) break; m_cv.wait(lck): both release the mutex.
Check ==
  /\ wpc = "check"
  /\ wpc' = IF m_shutdown THEN "done" ELSE "wait"
  /\ m_mtx' = Nobody
  /\ UNCHANGED <<flags, m_thread, cpc, signals, dying, late>>

\* Mutant: wait_for goes on waiting.
StopWaiting_not == wpc = "wait" /\ UNCHANGED vars

\* wait_for gives up, or the wait ends without a notification.
StopWaiting ==
  /\ wpc = "wait" /\ wpc' = "relock"
  /\ UNCHANGED <<flags, m_mtx, m_thread, cpc, signals, dying, late>>

Timeout  == m_options.timeout /\ StopWaiting
Spurious == StopWaiting

\* The end of a wait takes the mutex, and the end of the block releases it.
Relock ==
  /\ wpc = "relock" /\ m_mtx = Nobody
  /\ CallAgain
  /\ UNCHANGED <<flags, m_mtx, m_thread, cpc, signals, dying>>

-----------------------------------------------------------------------------
(* The callers. *)

Goto(c, l) == cpc' = [cpc EXCEPT ![c] = l]

\* The object may be used by its owner, and by the others until it is being
\* destroyed.
Usable(c) == cpc[c] = "idle" /\ ~dying

start(c) ==
  /\ c = Owner /\ Usable(c) /\ ~m_started
  /\ m_started' = TRUE /\ m_thread' = TRUE
  /\ m_options' \in Options
  /\ wpc' = "sched"
  /\ UNCHANGED <<m_shutdown, m_errored_out, m_mtx, cpc, signals, dying, late>>

\* notify_one wakes the worker if it waits.
Notified == wpc' = IF wpc = "wait" THEN "relock" ELSE wpc

notify_one(c) ==
  /\ Usable(c)
  /\ Notified
  /\ UNCHANGED <<flags, m_mtx, m_thread, cpc, signals, dying, late>>

\* signal_shutdown: lock; write the flag and unlock; notify.
signal_shutdown(c) ==
  /\ Usable(c) /\ signals[c] > 0 /\ m_mtx = Nobody
  /\ m_mtx' = c /\ Goto(c, "locked")
  /\ signals' = [signals EXCEPT ![c] = @ - 1]
  /\ UNCHANGED <<flags, m_thread, wpc, dying, late>>

\* Mutant: signal_shutdown does not notify.
SetFlag_only(c) ==
  /\ cpc[c] = "locked"
  /\ m_shutdown' = TRUE /\ m_mtx' = Nobody
  /\ Goto(c, IF dying THEN "join" ELSE "idle")
  /\ UNCHANGED <<m_started, m_errored_out, m_options, m_thread, wpc, signals,
                 dying, late>>

SetFlag(c) ==
  /\ cpc[c] = "locked"
  /\ m_shutdown' = TRUE /\ m_mtx' = Nobody /\ Goto(c, "notify")
  /\ UNCHANGED <<m_started, m_errored_out, m_options, m_thread, wpc, signals,
                 dying, late>>

Notify(c) ==
  /\ cpc[c] = "notify"
  /\ Notified
  /\ Goto(c, IF dying THEN "join" ELSE "idle")
  /\ UNCHANGED <<flags, m_mtx, m_thread, signals, dying, late>>

join(c) ==
  /\ c = Owner /\ Usable(c)
  /\ Goto(c, "join")
  /\ UNCHANGED <<flags, m_mtx, m_thread, wpc, signals, dying, late>>

\* Mutant: the thread is detached instead of joined.
JoinEnd_detach(c) ==
  /\ cpc[c] = "join"
  /\ m_thread' = FALSE
  /\ Goto(c, IF dying THEN "gone" ELSE "idle")
  /\ UNCHANGED <<flags, m_mtx, wpc, signals, dying, late>>

\* m_thread.join() returns when the thread has ended; nothing to wait for
\* when it is not joinable.
JoinEnd(c) ==
  /\ cpc[c] = "join" /\ (m_thread => wpc = "done")
  /\ m_thread' = FALSE
  /\ Goto(c, IF dying THEN "gone" ELSE "idle")
  /\ UNCHANGED <<flags, m_mtx, wpc, signals, dying, late>>

\* ~PeriodicTask: signal_shutdown, then join.  Nobody else uses the object
\* any more.
Destroy(c) ==
  /\ c = Owner /\ Usable(c)
  /\ \A d \in Callers : cpc[d] = "idle"
  /\ dying' = TRUE /\ Goto(c, "dying")
  /\ UNCHANGED <<flags, m_mtx, m_thread, wpc, signals, late>>

DestroyLock(c) ==
  /\ cpc[c] = "dying" /\ m_mtx = Nobody
  /\ m_mtx' = c /\ Goto(c, "locked")
  /\ UNCHANGED <<flags, m_thread, wpc, signals, dying, late>>

-----------------------------------------------------------------------------
Init ==
  /\ m_started = FALSE /\ m_shutdown = FALSE /\ m_errored_out = FALSE
  /\ m_options \in Options
  /\ m_mtx = Nobody /\ m_thread = FALSE
  /\ wpc = "none"
  /\ cpc = [c \in Callers |-> "idle"]
  /\ signals = [c \in Callers |-> MaxSignals]
  /\ dying = FALSE /\ late = 0

\* The steps of the worker that it takes on its own.
Work == SetSched \/ m_call \/ Lock \/ Check \/ Timeout \/ Relock

\* The steps that end a call once it has begun.
Finish(c) == SetFlag(c) \/ Notify(c) \/ JoinEnd(c) \/ DestroyLock(c)

Next ==
  \/ Work
  \/ Spurious
  \/ \E c \in Callers :
       \/ start(c) \/ notify_one(c) \/ signal_shutdown(c) \/ join(c)
       \/ Destroy(c) \/ Finish(c)

Spec == Init /\ [][Next]_vars

\* The scheduler runs every thread that can run, the callable returns, a
\* timeout expires, and the destructor gets a mutex that the worker releases
\* again and again.  Nothing is assumed of who begins which call, or of
\* spurious wake-ups.
FairSpec ==
  /\ Spec
  /\ WF_vars(Work)
  /\ \A c \in Callers : WF_vars(Finish(c)) /\ SF_vars(DestroyLock(c))

-----------------------------------------------------------------------------
(* Properties. *)

\* The types of the members, of the threads' positions and of the counters.
TypeOK ==
  /\ m_started \in BOOLEAN /\ m_shutdown \in BOOLEAN /\ m_errored_out \in BOOLEAN
  /\ m_options \in Options
  /\ m_mtx \in Callers \union {Worker, Nobody}
  /\ m_thread \in BOOLEAN
  /\ wpc \in {"none", "sched", "call", "lock", "check", "wait", "relock", "done"}
  /\ cpc \in [Callers -> {"idle", "locked", "notify", "join", "dying", "gone"}]
  /\ signals \in [Callers -> 0 .. MaxSignals]
  /\ dying \in BOOLEAN /\ late \in Nat

\* The mutex is held exactly while its holder is inside a locked block.
MutexHeldInside ==
  /\ m_mtx = Worker <=> wpc = "check"
  /\ \A c \in Callers : m_mtx = c <=> cpc[c] = "locked"

\* No shutdown is missed: when the flag is set and the worker still waits, a
\* signal_shutdown is about to wake it.  "The mutex needs to protect it
\* anyway": without the lock the flag could be set between the worker's test
\* and its wait.
NoLostWakeup ==
  m_shutdown /\ wpc = "wait" => \E c \in Callers : cpc[c] = "notify"

\* After signal_shutdown the callable is begun at most once more.
OneMoreCall == late <= 1

\* When the destructor has returned, the worker touches neither mutex,
\* condition variable nor callable any more.
WorkerGoneFirst ==
  (\E c \in Callers : cpc[c] = "gone") => wpc \in {"none", "done"}

\* Destroying the task always comes to an end.
DestructorReturns == dying ~> cpc[Owner] = "gone"

\* With a timeout the callable is run again, whether or not anybody notifies.
RunsAgain == (wpc = "wait" /\ m_options.timeout) ~> wpc = "call"

=============================================================================
