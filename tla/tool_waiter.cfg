SPECIFICATION FairSpec
CONSTANTS
  MaxCalls = 1
  MaxRequests = 1
PROPERTY WaitersReleased
CHECK_DEADLOCK FALSE
