SPECIFICATION Spec
CONSTANTS
  Users = {u1}
  Hosts = {h1, h2}
  Service = Service
  Nobody = Nobody
  ServiceLimit = 2
  Limit = 1
  Window = 3
  MaxDelay = 1
  MaxClock = 6
  MaxRequests = 3
  MaxOpen = 3
  LossBound = 1
SYMMETRY SameHosts
CHECK_DEADLOCK FALSE
INVARIANT WithinLimit
PROPERTY NoFalseRefusal
PROPERTY RetryHonoured
