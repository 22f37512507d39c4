SPECIFICATION Spec
CONSTANTS
  Objects = {o1, o2}
  NoHandle = NoHandle
  NoList = NoList
  Null = Null
  Wild = Wild
  FreeBlock = FreeBlock
  Bytes = {0, 1}
  Unknown = Unknown
  MinCapacity = 2
  MaxLength = 2
  n1 = n1
  n2 = n2
  i1 = i1
  i2 = i2
  q1 = q1
  q2 = q2
  WfRealms <- MCRealms
  NoWfRealm = NoWfRealm
  Finalizees <- MCNames
  CFunctions <- MCFiles
  NoCall = NoCall
  Processes <- MCNames
  CacheFiles <- MCFiles
  Sources = {s1, s2}
  FirstSource = s1
  NoFile = NoFile
  MaxVersion = 2
  MaxTime = 1
  Events = {1, 2, 3}
  Delays = {0, 1}
  IntervalClamp = 1
  Epoch = 2
  LastTime = 4
INVARIANTS
  TypeOK
  
  
  
  ThawedIsCurrent
  CleanupsFinish

  
  
SYMMETRY MCSymmetry
CHECK_DEADLOCK FALSE
