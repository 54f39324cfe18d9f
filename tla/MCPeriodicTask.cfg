CONSTANTS
  Callers = {c1, c2, c3}
  Owner = c1
  Worker = w
  Nobody = nobody
  MaxSignals = 2
SPECIFICATION FairSpec
CHECK_DEADLOCK FALSE
INVARIANTS NoLostWakeup OneMoreCall WorkerGoneFirst
PROPERTIES DestructorReturns RunsAgain
