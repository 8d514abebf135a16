SPECIFICATION Spec
CONSTANTS
  Replicas = {r1, r2}
  Limits = {1, 2}
  Production = TRUE
  Keys = {k1}
  Creds = {k1}
  Requests = {q1, q2}
  MaxHits = 3
  MaxEdits = 1
  MaxFaults = 2
SYMMETRY GateSymmetry
INVARIANTS
  TypeOK
  WindowIsBounded
  CountersExpire
  RevokedKeysAreRefused
