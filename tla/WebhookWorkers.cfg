SPECIFICATION FairSpec
CONSTANTS
  Events = {1}
  Endpoints = {bad}
  Workers = {w1, w2}
  Wants <- WantsAll
  Steady = {}
  MaxAttempts = 2
  Threshold = 2
  DrainLimit = 1
  DeliverLimit = 1
  MaxDrops = 0
  MaxEdits = 0
INVARIANTS
  TypeOK
  FanOutIsBounded
  RowsMatchTraffic
PROPERTIES
  DeliveriesEnd
