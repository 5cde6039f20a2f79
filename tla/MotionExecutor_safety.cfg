SPECIFICATION Spec
CONSTANTS
  Ids = {r1, r2, r3}
  Turns = {t1, t2}
  Kinds = {"clip", "micro", "look_up", "return_to_start"}
  Capacity = 1
  HistoryLimit = 2
  MaxStops = 1
  MayCut = {"reread", "hold"}
  None = None
SYMMETRY Symmetry
INVARIANTS PendingAccounted TurnCurrent 
PROPERTIES FaultIsFinal NeverRunTwice KeepsContract
CHECK_DEADLOCK FALSE
