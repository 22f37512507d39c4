SPECIFICATION FairSpec
CONSTANTS
  t1 = t1
  t2 = t2
  main = main
  Objs <- MCObjs
  Main <- main
  Starters <- MCActors
  Faults <- AllFaults
  RereadHandle = FALSE
INVARIANTS
  TypeOK
  HandleOutlivesThread
  JoinedOnce
  
  NoTrap
PROPERTIES
  FiniTerminates
CHECK_DEADLOCK FALSE
