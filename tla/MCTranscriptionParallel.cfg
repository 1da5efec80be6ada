SPECIFICATION SpecParallel
CONSTANTS
  c1 = c1
  c2 = c2
  r1 = r1
  r2 = r2
  Nobody = Nobody
  NoJob = NoJob
  Chunks = {c1, c2}
  Runners = {r1, r2}
  MaxAttempts = 2
  MaxTrouble = 2
  Faults = {"lease"}
SYMMETRY Interchangeable
INVARIANTS
  NeededObjectsPresent
  AtMostOneSubmission
PROPERTIES
  ImplementsOutcome
CHECK_DEADLOCK FALSE
