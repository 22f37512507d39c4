SPECIFICATION FairSpec
CONSTANTS
  main = main
  worker = worker
  p = p
  a = a
  b = b
  missing = missing
  Threads <- MCThreads
  Nobody = Nobody
  Main <- main
  Names <- MCNames
  Program <- p
  Parts <- MCParts
  Calls <- MCCalls
  Handles = {h1, h2, h3}
  MaxDepth = 4
INVARIANTS
  TypeOK
  EvaluatedOnce
  Singletons
  OnlyCyclesSeePartialExports
  LockMatchesRequires
  HandlesInUseSurvive
  FinishedBeforeUnload
PROPERTIES
  ShutdownEnds
CHECK_DEADLOCK FALSE
