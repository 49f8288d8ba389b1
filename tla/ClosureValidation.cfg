\* Every closure over three paths: safety and termination.
SPECIFICATION FairSpec
CONSTANTS
  p1 = p1
  p2 = p2
  p3 = p3
  Paths <- MCPaths
INVARIANTS
  TypeOK
  VerdictCorrect
PROPERTY
  Terminates
\* validate_closure returns.
CHECK_DEADLOCK FALSE
