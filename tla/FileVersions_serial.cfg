SPECIFICATION Spec
CONSTANTS
  d1 = d1
  d2 = d2
  n1 = n1
  n2 = n2
  c1 = c1
  c2 = c2
  c3 = c3
  None = None
  r1 = r1
  r2 = r2
  r3 = r3
  Requests = {r1, r2, r3}
  Folders = {d1, d2}
  Names = {n1, n2}
  Contents = {c1}
  Grants <- SplitGrants
  Retentions = {0, 1, 2}
  MaxFile = 4
  MaxVersion = 4
  ForeignKeys = {TRUE, FALSE}
  Operations = {"UploadFile", "UploadVersion", "ModifyFile", "DeleteFile", "SetRetentionPolicy", "DeleteFolder"}
  MaxInFlight = 1
  Faults = FALSE
  NumSeeds = 1
  Seeds <- OneSeed
SYMMETRY RequestSymmetry
INVARIANT VersionNumbersUnique
INVARIANT DefaultIsLatest
INVARIANT CurrentVersionKept
PROPERTY UploadsTakeFreeNames
PROPERTY PruneLeavesLastN
INVARIANT NoFileOutlivesItsFolder
PROPERTY WritesAreGranted
