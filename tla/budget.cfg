SPECIFICATION Spec
CONSTANTS
  Requests = {r1, r2}
  Sessions = {s1, s2, s3}
  Keys = {k1}
  NoKey = NoKey
  NoRequest = NoRequest
  NoSession = NoSession
  DailyLimit = 2
  Grant = 5
  Estimate = 2
  Costs = {1}
  MaxDay = 1
  ChargeBound = 3
  Faults = {"crash", "lockExpiry"}
SYMMETRY Symmetry
CHECK_DEADLOCK FALSE
INVARIANT DailyQuota
INVARIANT OneSessionPerKey
INVARIANT ConservedInv
INVARIANT AccountMirrorsReservations
INVARIANT Funded
INVARIANT ActiveBounded
