SPECIFICATION Spec
CONSTANTS
  Sessions = {s1}
  Events = {e1, e2, e3}
  Owners = {a1, a2}
  NoSession = NoSession
  NoEvent = NoEvent
  NoOwner = NoOwner
  MaxAttempts = 1
  AttemptBound = 2
  MaxCopies = 1
  Faults = {"stall", "dbError"}
SYMMETRY Symmetry
CHECK_DEADLOCK FALSE
INVARIANT DeliveryInv
INVARIANT OutstandingWork
INVARIANT OwnerIsCurrent
INVARIANT VersionMirrorsSession
PROPERTY TerminalIsFinal
PROPERTY TransitionsAllowed
PROPERTY ImplementsLifecycle
