SPECIFICATION FairSpec
CONSTANTS
  t1 = t1
  t2 = t2
  t3 = t3
  m1 = m1
  NoOne = NoOne
  Slot <- ThreeThreads
  Mtx <- OneMutex
  Killable <- TwoKillable
CHECK_DEADLOCK FALSE
INVARIANTS
  MutualExclusion
  MutexInv
PROPERTIES
  ImplementsFifoLock
  QueuedGetsLock
