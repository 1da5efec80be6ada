SPECIFICATION Spec
CONSTANTS
  feed = feed
  link = link
  w1 = w1
  w2 = w2
  None = None
  Import = {feed, link}
  Key <- Keys
  Resolutions <- Answers
  Worker = {w1, w2}
  MaxAttempts = 2
  MaxFailedRuns = 1
SYMMETRY Interchangeable
PROPERTIES
  CompletedRunIsReturned
CHECK_DEADLOCK FALSE
