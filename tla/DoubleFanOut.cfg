SPECIFICATION Spec
CONSTANTS
  Events = {1}
  Endpoints = {good}
  Workers = {w1, w2}
  Wants <- WantsAll
  Steady = {good}
  MaxAttempts = 2
  Threshold = 1
  DrainLimit = 1
  DeliverLimit = 1
  MaxDrops = 0
  MaxEdits = 0
INVARIANT
  FannedOutOnce
