SPECIFICATION FairSpec
CONSTANTS
  j1 = j1
  j2 = j2
  s1 = s1
  s2 = s2
  c1 = c1
  c2 = c2
  None = None
  Jobs <- TwoJobs
  Sessions <- TwoSessions
  Callers <- OneCaller
  Kinds <- WithPhoto
  MaxPending = 1
  Restarts = TRUE
INVARIANTS NotReplayed EffectSettled CompletedTold
PROPERTIES SilentWhenQuiet OutcomeFinal AllEnds
