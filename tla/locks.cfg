SPECIFICATION Spec
CONSTANTS
  Owners = {a1, a2}
  NoOwner = NoOwner
  NoTx = NoTx
  Reaper = Reaper
  MaxAttempts = 2
  AttemptBound = 3
  Faults = {"crash", "stall"}
SYMMETRY Symmetry
CHECK_DEADLOCK FALSE
INVARIANT OnlyHeartbeatsDeadlock
PROPERTY AsIfAtomic
PROPERTY OneOutcome
