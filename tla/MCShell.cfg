SPECIFICATION Spec
CONSTANTS
  NPROC = 7
  NOFILE = 5
  MAXARGS = 10
  Commands <- FourCommands
  BadLines <- Bad2
  MaxLines = 2
\* A shell that waits for ever violates PromptReturns.
CHECK_DEADLOCK FALSE
INVARIANTS
  Wired
  Sequenced
PROPERTY PromptReturns
