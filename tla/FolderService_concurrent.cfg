SPECIFICATION Spec
CONSTANTS
  Requests = {r1, r2, r3}
  MaxFolder = 4
  MaxFile = 1
  MaxInFlight = 3
  Bits = {"Admin", "CreateFolder", "MoveFolder", "DeleteFolder", "Create"}
  Seeds <- Chain3
  SeedPerms <- OnlyAdmin
  Operations = {"CreateFolder", "MoveFolder", "DeleteFolder", "UploadFile"}
  SubtreeMoves = TRUE
  Faults = TRUE
SYMMETRY RequestSymmetry
CHECK_DEADLOCK FALSE
INVARIANT TypeOK
INVARIANT ParentIsLast
INVARIANT OrphansAreLocked
