SPECIFICATION FairSpec
CONSTANTS
  Payments = {p1}
  NoPayment = NoPayment
  Requests = {r1, r2}
  Workers = {w1}
  Operations = {"approve", "get", "replay", "settle_manual", "fail_manual"}
  Scenarios = {"success", "delayed", "timeout", "store_error"}
  Registered = {"mock-instant", "manual-test"}
  Routes <- ManualRoutes
  FallbackCodes <- SeedFallback
  ScanAccepted = FALSE
  MaxRequests = 3
  MaxDrops = 1
INVARIANTS
  SnapshotsAgree
PROPERTIES
  OverdueIsClosed
  ReplayDecidesNothing
CHECK_DEADLOCK FALSE
