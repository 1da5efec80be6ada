SPECIFICATION ASpec
CONSTANTS
  CoreWindow = 4
  Overlap = 2
  MaxDuration = 42
  MinAlignment = 2
  Transcribed = {3, 8, 12}
  Answers <- Recognitions
INVARIANTS
  TypeOK
  CoresTile
  SegmentsOwnedOnce
  RendersCore
  NeighboursOverlap
  StableMatching
  FollowsTheVoice
  MergedOnce
  SpeakersListed
CHECK_DEADLOCK FALSE
