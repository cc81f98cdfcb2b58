SPECIFICATION Spec
CONSTANTS
  c1 = c1  c2 = c2
  Callers     <- MCCallers
  Members     <- MCMembers
  Enabled     <- MCEnabled
  Aggregators <- MCAggregators
  Says        <- MCLongSays
  PageLimit   <- MCPages
  Own         = "own"
  Current     = "mgmt"
  Unknown     = "unknown"
  Home        = "us-east-1"
  FanOut      = TRUE
  MaxFailures <- MCFailures
INVARIANTS TypeOK SerialScansOnce EstateIsAccounted RecordsStand
PROPERTIES QuestionsEnd
CHECK_DEADLOCK FALSE
