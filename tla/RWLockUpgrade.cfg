SPECIFICATION Spec
CONSTANTS
  Threads = {t1, t2, t3}
  t1 = t1
  t2 = t2
  t3 = t3
  MaxThreads = 3
  MaxNest = 2
  Upgrades = TRUE
INVARIANT WriterIsAlone
