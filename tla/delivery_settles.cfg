SPECIFICATION FairSpec
CONSTANTS
  Sessions = {s1}
  Events = {e1}
  Owners = {a1, a2}
  NoSession = NoSession
  NoEvent = NoEvent
  NoOwner = NoOwner
  MaxAttempts = 2
  AttemptBound = 3
  MaxCopies = 1
  Faults = {"crash", "loss", "stall", "dbError"}
CHECK_DEADLOCK FALSE
PROPERTY Settles
