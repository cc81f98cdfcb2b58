SPECIFICATION Spec
CONSTANTS
  Worlds <- MCWorlds
  TopN = 2
  Scale = 10
  None = None
  NoAmount = NoAmount
INVARIANTS TypeOK SectionsAreTheirOwn SpendIsSound SavingsAreBest GapsAreNoted
PROPERTIES EveryTargetIsTried
CHECK_DEADLOCK FALSE
