SPECIFICATION FairSpec
CONSTANTS
  c1 = c1
  r1 = r1
  Nobody = Nobody
  NoJob = NoJob
  Chunks = {c1}
  Runners = {r1}
  MaxAttempts = 2
  MaxTrouble = 2
  Faults = {"crash"}
PROPERTIES
  RunSettles
CHECK_DEADLOCK FALSE
