SPECIFICATION Spec
CONSTANTS
  Contexts = {1, 2, 3}
  CoreCx = 2
  Entries = {1, 2, 3}
  NoEntry = 0
  SigThreads = {t1, t2}
  NoCx = NoCx
  MaxSignals = 3
  RcThreads = {t1, t2}
  NoThread = NoThread
  RcRealms = {r1, r2}
  NoRealm = NoRealm
  Addresses = {a1, a2, a3}
  NoAddress = NoAddress
INVARIANTS
  TypeOK
  CallbackListSafe
  SlotExclusive
  NoTrapBeforeRemoval
  ContextsKnown
  OneUser
PROPERTIES
  RuntimeStops
  
CHECK_DEADLOCK FALSE
