CONSTANTS
  Capacity = 1
  Window = 1
  MaxActions = 4
  MaxStreams = 2
SPECIFICATION FairSpec
INVARIANTS TypeOK RejectedOnTheBoard SilentOnlyAtFull
PROPERTIES MonotoneFeed StallsOnlyBehind
CHECK_DEADLOCK FALSE
