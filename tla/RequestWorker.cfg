SPECIFICATION FairSpec
CONSTANTS
  Requests = {r1, r2}
  Sessions = {s1}
  Clients = {c1, c2}
  Callers = {h1, h2}
  Kinds = {"message", "capture"}
  Crashes = TRUE
  None = None
INVARIANTS RowsAccounted AnswerRecorded InterruptedForCause
PROPERTIES GivenUpIsFinal AllEnds
CHECK_DEADLOCK FALSE
