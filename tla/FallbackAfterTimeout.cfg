SPECIFICATION Spec
CONSTANTS
  Payments = {p1}
  NoPayment = NoPayment
  Requests = {r1}
  Workers = {w1}
  Operations = {"approve"}
  Scenarios = {"timeout"}
  Registered = {"mock-instant", "manual-test"}
  Routes <- SeedRoutes
  FallbackCodes <- SeedFallback
  ScanAccepted = TRUE
  MaxRequests = 1
  MaxDrops = 0
INVARIANT
  OneOpenCharge
CHECK_DEADLOCK FALSE
