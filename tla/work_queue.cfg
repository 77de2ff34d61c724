\* A list of one entry, one event delivered twice over, and one worker: any two faults can strike.
SPECIFICATION FairSpec
CONSTANTS
  Events = {e1}
  Workers = {w1}
  Depth = 1
  Capacity = 1
  Copies = 2
  FaultBound = 2
CHECK_DEADLOCK FALSE
INVARIANT NoSleepOnWork
INVARIANT OneHolder
PROPERTY Delivered
