SPECIFICATION Spec
CONSTANTS
  c1 = c1
  r1 = r1
  r2 = r2
  Nobody = Nobody
  NoJob = NoJob
  Chunks = {c1}
  Runners = {r1, r2}
  MaxAttempts = 2
  MaxTrouble = 1
  Faults = {"lease"}
PROPERTIES
  DuplicateIsNoOp
CHECK_DEADLOCK FALSE
