SPECIFICATION Spec
CONSTANTS
  t1 = t1
  t2 = t2
  main = main
  Objs <- MCObjs
  Main <- main
  Starters <- MainOnly
  Faults <- NoFaults
  RereadHandle = TRUE
INVARIANTS
  NoTrap
CHECK_DEADLOCK FALSE
