SPECIFICATION Spec
CONSTANTS
  d1 = d1
  d2 = d2
  n1 = n1
  n2 = n2
  c1 = c1
  c2 = c2
  c3 = c3
  None = None
  r1 = r1
  r2 = r2
  r3 = r3
  Requests = {r1, r2, r3}
  Folders = {d1}
  Names = {n1}
  Contents = {c1, c2}
  Grants <- AllGrants
  Retentions = {0, 2}
  MaxFile = 3
  MaxVersion = 3
  ForeignKeys = {TRUE, FALSE}
  Operations = {"UploadFile", "UploadVersion", "DownloadFile", "DeleteFolder"}
  MaxInFlight = 3
  Faults = TRUE
  NumSeeds = 0
  Seeds <- NoSeeds
SYMMETRY RequestSymmetry
INVARIANT TypeOK
INVARIANT RowsHaveContent
INVARIANT PointerMatchesContent
INVARIANT DownloadsServeTheFile
PROPERTY DeletionIsFinal
