SPECIFICATION Spec
CONSTANTS
  root = root
  ann = ann
  bob = bob
  k1 = k1
  k2 = k2
  None = None
  r1 = r1
  r2 = r2
  r3 = r3
  Requests = {r1, r2, r3}
  Users = {root, ann, bob}
  Keys = {k1, k2}
  Starts <- OnlyRunning
  ForeignKeys = {TRUE}
  Faults = FALSE
  Lifetime = 1
  MaxDevice = 3
  MaxEntry = 2
  MaxTime = 2
  MaxRestart = 1
  MaxInFlight = 2
SYMMETRY RequestSymmetry
CHECK_DEADLOCK FALSE
INVARIANT RevokedHasNoSession
