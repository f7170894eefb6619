SPECIFICATION FairSpec
CONSTANTS
  p1 = p1
  p2 = p2
  p3 = p3
  s1 = s1
  s2 = s2
  s3 = s3
  v0 = v0
  v1 = v1
  NoOne = NoOne
  NBUF = 2
  Process <- ThreeProcs
  Sector <- ThreeSectors
  Data <- TwoValues
  Uses <- Reads
  Writer <- OneWriter
  MaxErrors = 1
CHECK_DEADLOCK FALSE
INVARIANTS
  OneBufferPerSector
PROPERTIES
  ImplementsStore
  RequestsServed
