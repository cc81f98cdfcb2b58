SPECIFICATION SerialSpec
CONSTANTS
  w1 = w1  w2 = w2  t1 = t1  t2 = t2  a1 = a1  a2 = a2  b1 = b1  p0 = p0  p1 = p1
  Workers   <- MCWorkers
  Tokens    <- MCTokens
  Allowlist = {a1, a2}
  Unlisted  = {b1}
  Params    <- MCParams
  NoParams  = p0
  NoCall    = NoCall
  MaxCalls  = 4
CHECK_DEADLOCK FALSE
INVARIANTS TypeOK SingleUse SpentTokenGone PreviewedTokenWorks
PROPERTIES ImplementsLedger
