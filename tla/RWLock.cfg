SPECIFICATION LiveSpec
CONSTANTS
  Threads = {t1, t2, t3, t4}
  t1 = t1
  t2 = t2
  t3 = t3
  t4 = t4
  MaxThreads = 3
  MaxNest = 3
  Upgrades = FALSE
INVARIANT TypeOK
INVARIANT NoneStranded
PROPERTY ImplementsLock
PROPERTY WriterAdmitted
