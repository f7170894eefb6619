SPECIFICATION Spec
CONSTANTS
  main = main
  w1 = w1
  None = None
  Main = main
  Worker <- OneWorker
  NALLOC = 5
  Stack = 3
  Request <- Requests
  Top = 15
  MaxCalls = 4
CHECK_DEADLOCK FALSE
INVARIANT UnitsConserved
PROPERTIES
  ImplementsAllocator
  CallsReturn
