--------------------------- MODULE MCAgentService ---------------------------
EXTENDS AgentService, TLC

CONSTANTS j1, j2, s1, s2, c1, c2

OneSession == {s1}
TwoSessions == {s1, s2}
OneJob == {j1}
TwoJobs == {j1, j2}
OneCaller == {c1}
TwoCallers == {c1, c2}
WithoutPhoto == {"message"}
WithPhoto == {"message", "capture"}

JobSymmetry == Permutations({j1, j2})
Symmetry == JobSymmetry \cup Permutations({s1, s2}) \cup Permutations({c1, c2})
=============================================================================
