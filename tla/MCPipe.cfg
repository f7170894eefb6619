SPECIFICATION FairSpec
CONSTANTS
  p1 = p1
  p2 = p2
  p3 = p3
  NoOne = NoOne
  Process <- Three
  Writer <- Writes
  Reader <- Reads
  Sizes <- Lengths
  Killable <- OneKill
  PIPESIZE = 2
  W = 4
  MaxSent = 5
CHECK_DEADLOCK FALSE
INVARIANTS
  InOrder
  NoUseAfterFree
PROPERTIES
  ZeroMeansEof
  CallsReturn
