SPECIFICATION Spec
CONSTANTS
  c1 = c1
  c2 = c2
  None = None
  Ticks = Ticks
  NPROC = 3
  Slot <- Table3
  Cpu <- TwoCpus
  Syscalls <- ProcessCalls
  Growth <- Sizes
  JoinFirst = FALSE
  MemFail = TRUE
  MaxPid = 4
  USERTOP = 3
  NPAGES = 13
  KPT = 1
  MaxLost = 1
SYMMETRY Symmetry
INVARIANTS
  OnOneCpu
  ParentAlive
  MemoryOwned
  PagesConserved
