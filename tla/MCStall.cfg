CONSTANTS
  Capacity = 1
  Window = 1
  MaxActions = 3
  MaxStreams = 2
SPECIFICATION FairSpec
PROPERTY DrivesUntilGameEnds
CHECK_DEADLOCK FALSE
