SPECIFICATION Spec
CONSTANTS
  a1 = a1  u1 = u1  home = home  away = away
  Agents = {a1}
  Users  = {u1}
  Regions = {home, away}
  Host = host  Home = home  None = none
  MaxIndexes = 2
  Attempts   = 2
  MaxFaults  = 2
  MaxVersion = 1
INVARIANTS TypeOK 
PROPERTIES KeepsItsPlace StackComesUp
