SPECIFICATION Spec
CONSTANTS
  c0 = c0
  c1 = c1
  p1 = p1
  p2 = p2
  irq = irq
  None = None
  Cpu <- TwoCpus
  Process <- Procs
  Context <- Contexts
  Lock <- Locks
  IrqCpu = c0
  Irq = irq
  INPUT_BUF = 2
  WORD = 4
  Key <- Keys
  MaxN = 2
  MaxKilled = 1
SYMMETRY Same
CHECK_DEADLOCK FALSE
INVARIANTS
  LocksHeld
  InputInOrder
  ReadersWoken
