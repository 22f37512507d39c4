SPECIFICATION Spec
CONSTANTS
  t1 = t1
  t2 = t2
  k1 = k1
  k2 = k2
  v1 = v1
  v2 = v2
  Threads <- MCThreads
  Nobody = Nobody
  Keys <- MCKeys
  Values <- MCValues
  NoKey = NoKey
  Nothing = Nothing
  InitialSizes <- MCSizes
  MaxSize = 4
INVARIANTS
  TypeOK
  NoneLeftForRealm
  MonitorBalanced
PROPERTIES
  ImplementsStore
  NoChangeUnderIteration
SYMMETRY MCSymmetry
