CONSTANTS
  N = 5
  MaxFrags = 2
  Frames = 3
  Polls = 1
  LosesKick = TRUE
  StopsBusy = FALSE
SPECIFICATION LiveSpec
INVARIANT InuseCounts
INVARIANT NeverHitsEnd
INVARIANT FreedIsUnderway
INVARIANT SentInOrder
CHECK_DEADLOCK FALSE
PROPERTY OutOfDescriptorsEnds
PROPERTY KickRepaired
