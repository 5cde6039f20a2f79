SPECIFICATION Spec
CONSTANTS
  Places = {p1, p2}
  Gap = 4
  Settle = 3
  Absent = 6
  Release = 6
  Refresh = 8
  Duration = 8
  MinFrames = 4
  Cooldown = 12
  MaxAge = 12
INVARIANTS CueEarned OneCue PresenceSteady
