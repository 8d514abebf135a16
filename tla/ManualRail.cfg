SPECIFICATION Spec
CONSTANTS
  Payments = {p1}
  NoPayment = NoPayment
  Requests = {r1}
  Workers = {w1}
  Operations = {"approve"}
  Scenarios = {"success"}
  Registered = {"mock-instant", "manual-test"}
  Routes <- ManualOnly
  FallbackCodes <- SeedFallback
  ScanAccepted = TRUE
  MaxRequests = 1
  MaxDrops = 0
INVARIANT
  ManualPaymentWaits
CHECK_DEADLOCK FALSE
