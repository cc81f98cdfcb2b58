SPECIFICATION Spec
CONSTANTS
  s1 = s1  s2 = s2  a1 = a1  a2 = a2
  None = None  Empty = Empty  Torn = Torn
  Sessions <- MCSessions
  Topics <- MCTopics
  Queries <- MCQueries
  Told <- MCTold
  Accounts = {a1, a2}
  Limits = {1, 2}
SYMMETRY Symmetry
INVARIANTS TypeOK NoDuplicates SerialDurableFacts SearchRanks
CHECK_DEADLOCK FALSE
