SPECIFICATION FairSpec
CONSTANTS
  MaxCalls = 2
  MaxRequests = 2
INVARIANTS
  SnapshotPrecedesMutation
  SerialAlone
  AnswersRecorded
PROPERTIES
  CallsEnd
  GateOpens
CHECK_DEADLOCK FALSE
