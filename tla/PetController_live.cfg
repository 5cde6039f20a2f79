SPECIFICATION FairSpec
CONSTANTS
  Decisions = {d1}
  Sessions = {s1, s2}
  s1 = s1
  s2 = s2
  Contexts <- TwoTurns
  Kinds = {"smile", "wave", "speech"}
  Loses = TRUE
  None = None
PROPERTIES AllEnds
CHECK_DEADLOCK FALSE
