\* Three versions of a session and up to seven attempts at its runs.
SPECIFICATION FairSpec
CONSTANTS
  None = None
  Silent <- MCSilent
  MaxRefinements = 2
  MaxVersions = 3
  MaxRuns = 7
CHECK_DEADLOCK FALSE
INVARIANT OutlineKept
INVARIANT FeedbackReaches
INVARIANT ReviewedIsCurrent
INVARIANT BookedOnce
PROPERTY VersionsFrozen
PROPERTY RunEnds
