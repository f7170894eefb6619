SPECIFICATION FairSpec
CONSTANTS
  t1 = t1
  t2 = t2
  t3 = t3
  mtx = mtx
  empty = empty
  fill = fill
  Slot <- Threads
  Worker <- Threads
  Producer <- OneProducer
  Consumer <- TwoConsumers
  Mtx <- OneMutex
  Cv <- TwoCvs
  Killable <- NoneKillable
  loops <- ThreeTwoOne
  MAX = 2
  Broadcast = TRUE
CHECK_DEADLOCK FALSE
INVARIANTS
  NoLostWakeup
PROPERTIES
  ImplementsFifo
  Termination
