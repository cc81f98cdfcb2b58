SPECIFICATION Spec
CONSTANTS
  c1 = c1  c2 = c2  k1 = k1 
  Threads <- MCThreads
  NoEntry = NoEntry
  Keys    = {k1}
  TTL     = 2
  MaxTime = 3
INVARIANTS TypeOK BoundedStaleness SerialRepeatIsServed
PROPERTIES NeverBlocked
CHECK_DEADLOCK FALSE
