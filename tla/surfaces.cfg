SPECIFICATION Spec
CONSTANTS
  r1 = r1  r2 = r2
  None = none  Shared = shared
  Numerals <- MCNumerals
  Kinds    <- MCKinds
  Requests <- MCRequests
  Routes   <- AllRoutes
  Asking   <- MCAsking
  Wanted   <- MCWanted
  Files    <- MCFiles
  Models   <- MCModels
  Envs     <- MCEnvs
SYMMETRY Alike
CHECK_DEADLOCK FALSE
INVARIANTS TypeOK WritesWereAllowed  NothingLeaks
