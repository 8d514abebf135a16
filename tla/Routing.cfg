SPECIFICATION Spec
CONSTANTS
  Connectors <- AllConnectors
  Catalog <- Rows
  Registered <- SeedRegistry
  Answers <- AllAnswers
  Policies = {"seed", "own"}
  FirstPolicies <- SeedPolicies
  PolicyPatches <- Patches
  ConnectorPatches <- RefPatches
  FirstRefs <- OldRefs
  Opaque <- NoScheme
  Contexts <- Payments
  Requests = {s1}
  Replicas = {r1, r2, r3}
  Keyed = {r1, r2}
  MaxEdits = 2
  MaxStarts = 2
CONSTRAINT ConcernsApart
SYMMETRY ReplicaSymmetry
INVARIANTS
  TypeOK
  RoutesAreRanked
  DisabledNotAsked
  FallbackIsBounded
  SealedAfterStart
  RefsSurviveStarts
