SPECIFICATION Spec
CONSTANTS
  c1 = c1
  c2 = c2
  None = None
  Ticks = Ticks
  NPROC = 4
  Slot <- Table4
  Cpu <- OneCpu
  Syscalls <- ThreadCalls
  Growth = {}
  JoinFirst = TRUE
  MemFail = TRUE
  MaxPid = 4
  USERTOP = 1
  NPAGES = 16
  KPT = 1
  MaxLost = 1
CHECK_DEADLOCK FALSE
INVARIANTS
  NoMissedExit
  ThreadsHaveMemory
  PagesConserved
