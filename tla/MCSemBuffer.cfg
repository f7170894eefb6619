SPECIFICATION FairSpec
CONSTANTS
  t1 = t1
  t2 = t2
  t3 = t3
  m1 = m1
  m2 = m2
  c1 = c1
  c2 = c2
  mtx = mtx
  sempty = sempty
  sfull = sfull
  Slot <- Threads
  Worker <- Threads
  Producer <- OneProducer
  Consumer <- TwoConsumers
  Mtx <- Mutexes
  Cv <- Cvs
  Sem <- Sems
  semMtx <- MtxOf
  semCond <- CondOf
  Killable <- NoneKillable
  loops <- ThreeOneOne
  MAX = 2
CHECK_DEADLOCK FALSE
PROPERTIES
  ImplementsFifo
  Termination
