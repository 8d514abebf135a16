SPECIFICATION FairSpec
CONSTANTS
  Payments = {p1}
  NoPayment = NoPayment
  Requests = {r1}
  Workers = {w1}
  Operations = {"approve"}
  Scenarios = {"timeout"}
  Registered = {"mock-instant", "manual-test"}
  Routes <- MockOnly
  FallbackCodes <- SeedFallback
  ScanAccepted = FALSE
  MaxRequests = 1
  MaxDrops = 0
PROPERTY
  AmbiguityIsResolved
CHECK_DEADLOCK FALSE
