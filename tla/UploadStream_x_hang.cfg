SPECIFICATION FairSpec
CONSTANTS
  a = a
  b = b
  Uploads = {u1}
  Chunks = {a, b}
  Streams <- OneFile
  Schemes = {"file"}
  EarlyFaults = TRUE
  Faults = FALSE
  Crashes = FALSE
  Decay = FALSE
CHECK_DEADLOCK FALSE
PROPERTY WritersGetOn
