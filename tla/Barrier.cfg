SPECIFICATION FairSpec
CONSTANTS
  NODE_COUNT = 3
  SCHAR_MAX = 3
  INT_MAX = 7
  MaxRounds = 9
INVARIANTS TypeOK NoEarlyLeave LeaveSeesAll AllStarted
PROPERTY WaitEnds
CHECK_DEADLOCK FALSE
