SPECIFICATION Spec
CONSTANTS
  Replicas = {r1, r2}
  Admins = {a1, a2}
  Config <- ProductionConfig
  Patches <- RatePatches
  Production = TRUE
  MaxUpdates = 3
  MaxRestarts = 1
  MaxDrops = 1
SYMMETRY SettingsSymmetry
CHECK_DEADLOCK FALSE
INVARIANTS
  TypeOK
  UpdatesStick
  SnapshotsWereSaved
  ServingReplicaIsCurrent
