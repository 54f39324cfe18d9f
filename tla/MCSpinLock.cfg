CONSTANTS
  Threads = {t1, t2, t3, t4}
  NoThread = nobody
SPECIFICATION FairLockSpec
PROPERTIES ImplementsMutex SomebodyGetsIn
