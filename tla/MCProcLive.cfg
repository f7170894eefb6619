SPECIFICATION FairSpec
CONSTANTS
  c1 = c1
  c2 = c2
  None = None
  Ticks = Ticks
  NPROC = 3
  Slot <- Table3
  Cpu <- OneCpu
  Syscalls <- BlockCalls
  Growth = {}
  JoinFirst = FALSE
  MemFail = FALSE
  MaxPid = 3
  USERTOP = 1
  NPAGES = 20
  KPT = 1
  MaxLost = 1
PROPERTIES
  NoStarvation
  KilledExits
  OrphansReaped
