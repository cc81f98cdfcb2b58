SPECIFICATION Spec
CONSTANTS
  s1 = s1  s2 = s2  t1 = t1  Unset = Unset
  Sessions <- MCSessions
  Tokens = {t1}
  Actions = {"create_budget"}
  MaxTurns = 1
  MaxClicks = 1
  Configured = "advisory"
  DiagnosisWorlds = {}
  ReviewWorlds = {}
  Limit = 2
CHECK_DEADLOCK FALSE
PROPERTIES OpensAsConfigured
