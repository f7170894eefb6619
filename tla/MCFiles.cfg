SPECIFICATION Spec
CONSTANTS
  p1 = p1
  p2 = p2
  Process <- TwoProcs
  Calls <- TwoPrograms
  MaxCalls = 2
  NINODES = 5
  NBLOCKS = 9
  BSIZE = 2
  NDIRECT = 1
  NINODE = 5
  NFILE = 2
  NOFILE = 2
CHECK_DEADLOCK FALSE
INVARIANTS
  RefsCounted
  LinksCounted
  BlocksOwned
  NoPanic
  NoDeadlock
