SPECIFICATION Spec
CONSTANTS
  Decisions = {d1, d2}
  Sessions = {s1, s2}
  s1 = s1
  s2 = s2
  Contexts <- Turns3
  Kinds = {"smile", "call", "look_up", "return"}
  Loses = FALSE
  None = None
SYMMETRY Symmetry
INVARIANTS StoppedIsStill OnePerTurn BaselineCurrent ShownTruly
PROPERTIES ReceiptsAdvance
CHECK_DEADLOCK FALSE
