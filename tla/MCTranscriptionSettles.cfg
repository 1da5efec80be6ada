SPECIFICATION FairSpec
CONSTANTS
  c1 = c1
  c2 = c2
  r1 = r1
  Nobody = Nobody
  NoJob = NoJob
  Chunks = {c1, c2}
  Runners = {r1}
  MaxAttempts = 2
  MaxTrouble = 2
  Faults = {"error"}
INVARIANTS
  CleanedIsGone
PROPERTIES
  RunSettles
CHECK_DEADLOCK FALSE
