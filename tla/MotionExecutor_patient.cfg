SPECIFICATION FairSpec
CONSTANTS
  Ids = {r1, r2}
  Turns = {t1, t2}
  Kinds = {"clip", "micro", "look_up", "return_to_start"}
  Capacity = 1
  HistoryLimit = 2
  MaxStops = 0
  MayCut = {"post_cancelled", "stop", "reread"}
  None = None
 
PROPERTY AllReturn
CHECK_DEADLOCK FALSE
