SPECIFICATION FairSpec
CONSTANTS
  MaxSessions = 2
  MaxVersions = 2
  MaxKeys = 2
  LossBound = 1
  MaxMoved = 1
  MaxInFlight = 2
CHECK_DEADLOCK FALSE
INVARIANT OneSessionPerForm
INVARIANT ShownSinceMount
PROPERTY FollowsToReview
