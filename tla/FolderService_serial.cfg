SPECIFICATION Spec
CONSTANTS
  Requests = {r1, r2, r3}
  MaxFolder = 5
  MaxFile = 1
  MaxInFlight = 1
  Bits = {"Admin", "CreateFolder", "MoveFolder", "DeleteFolder", "Create"}
  Seeds <- Chain3
  SeedPerms <- TwoUsers
  Operations = {"CreateFolder", "MoveFolder", "DeleteFolder", "UploadFile"}
  SubtreeMoves = FALSE
  Faults = TRUE
SYMMETRY RequestSymmetry
CHECK_DEADLOCK FALSE
INVARIANT PathsAreHierarchical
INVARIANT NothingOutlivesItsFolder
 
