SPECIFICATION FairSpec
CONSTANTS
  MaxSessions = 1
  MaxVersions = 1
  MaxKeys = 2
  LossBound = 1
  MaxMoved = 1
  MaxInFlight = 1
CHECK_DEADLOCK FALSE
PROPERTY KeyRefreshed
