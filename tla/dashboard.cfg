SPECIFICATION Spec
CONSTANTS
  s1 = s1  s2 = s2  t1 = t1  Unset = Unset
  Sessions <- MCSessions
  Tokens = {t1}
  Actions = {"create_budget"}
  MaxTurns = 2
  MaxClicks = 3
  Configured = "advisory"
  DiagnosisWorlds <- MCDiagnosisWorlds
  ReviewWorlds <- MCReviewWorlds
  Limit = 2
SYMMETRY MCSymmetry
CHECK_DEADLOCK FALSE
INVARIANTS TypeOK AnswersFollowQuestions TurnsAreTheirOwn ReportsAreSound AppliesOwnPreviewOnce
