SPECIFICATION Spec
CONSTANTS
  Sessions = {s1}
  Events = {e1, e2}
  Owners = {a1, a2}
  NoSession = NoSession
  NoEvent = NoEvent
  NoOwner = NoOwner
  MaxAttempts = 2
  AttemptBound = 3
  MaxCopies = 2
  Faults = {"slowStart", "skew", "crash"}
SYMMETRY Symmetry
CHECK_DEADLOCK FALSE
INVARIANT SoleRunner
