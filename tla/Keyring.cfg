SPECIFICATION Spec
CONSTANTS
  Requests = {r1, r2, r3, r4}
  Passwords = {"right", "wrong"}
  Settings <- BothSettings
  Faults = TRUE
  MaxDevice = 3
  MaxCrash = 1
SYMMETRY RequestSymmetry
CHECK_DEADLOCK FALSE
INVARIANT FileOpensAgain
INVARIANT TokensAreTheDevices
