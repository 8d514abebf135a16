SPECIFICATION Spec
CONSTANTS
  Payments = {p1}
  NoPayment = NoPayment
  Requests = {r1, r2}
  Workers = {w1}
  Operations = {"approve", "reject", "cancel", "refund", "reconcile"}
  Scenarios <- AllScenarios
  Registered = {"mock-instant", "manual-test"}
  Routes <- SeedRoutes
  FallbackCodes <- SeedFallback
  ScanAccepted = TRUE
  MaxRequests = 3
  MaxDrops = 1
SYMMETRY RequestSymmetry
INVARIANTS
  TypeOK
  FaithfulHistory
  WithdrawnNeverAsked
  SettledIsBacked
  AttemptsMatchLedger
PROPERTIES
  KeepsContract
  DecidedOnce
CHECK_DEADLOCK FALSE
