SPECIFICATION FairSpec
CONSTANTS
  Events = {1, 2}
  Endpoints = {good, bad}
  Workers = {w1}
  Wants <- WantsSome
  Steady = {good}
  MaxAttempts = 2
  Threshold = 1
  DrainLimit = 1
  DeliverLimit = 2
  MaxDrops = 1
  MaxEdits = 1
INVARIANTS
  SteadyGetsEveryEvent
  TriesAreBounded
PROPERTIES
  EventsArePublished
  KeepsDeliveries
  OverIsFinal
