SPECIFICATION AsyncSpec
CONSTANTS
  Contexts = {1, 2}
  CoreCx = 2
  Entries = {1, 2}
  NoEntry = 0
INVARIANTS TriggerRunsWhileRegistered
CHECK_DEADLOCK FALSE
