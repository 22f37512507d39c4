SPECIFICATION FairSpec
CONSTANTS
  Threads = {t1, t2, t3}
  Nobody = Nobody
  MaxNesting = 2
INVARIANTS
  TypeOK
  DepthBelongsToHolder
  AssertsHold
PROPERTIES
  ImplementsMutex
  WantedLockIsTaken
