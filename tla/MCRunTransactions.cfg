SPECIFICATION SSpec
CONSTANTS
  c1 = c1
  c2 = c2
  s1 = s1
  s2 = s2
  Chunk = {c1, c2}
  Windows <- InOrder
  Session = {s1, s2}
  MaxCopies = 2
SYMMETRY Interchangeable
INVARIANTS
  TypeOK
  AlignedOnce
  PreparedFreedOnce
  MapsSaved
  EpisodeAgrees
  NoWaitCycle
PROPERTIES
  ImplementsSerial
CHECK_DEADLOCK FALSE
