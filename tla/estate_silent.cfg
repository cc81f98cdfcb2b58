SPECIFICATION Spec
CONSTANTS
  c1 = c1  c2 = c2
  Callers     <- MCCaller
  Members     <- MCMembers
  Enabled     <- MCEnabled
  Aggregators <- MCAggregators
  Says        <- MCSays
  PageLimit   <- MCPages
  Own         = "own"
  Current     = "mgmt"
  Unknown     = "unknown"
  Home        = "us-east-1"
  FanOut      = TRUE
  MaxFailures <- MCFailure
INVARIANTS SilentEstateIsComplete
CHECK_DEADLOCK FALSE
