SPECIFICATION Spec
CONSTANTS
  Answers = {a1, a2}
  Cues = {v1, v2}
  Leases = {l1, l2}
  MaxEpoch = 3
  SeenLimit = 2
  EventLimit = 1
  None = None
SYMMETRY Symmetry
INVARIANTS SoundYields AnswersAccounted
PROPERTIES NeverReplayed
CHECK_DEADLOCK FALSE
