SPECIFICATION Spec
CONSTANTS
  main = main
  worker = worker
  p = p
  a = a
  b = b
  missing = missing
  Threads <- OneThread
  Nobody = Nobody
  Main <- main
  Names <- FewNames
  Program <- p
  Parts <- FewParts
  Calls <- FewCalls
  Handles = {h1,h2}
  MaxDepth = 2
INVARIANTS
  HandleOutlivesScope
CHECK_DEADLOCK FALSE
