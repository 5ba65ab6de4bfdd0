SPECIFICATION FairSpec
CONSTANTS
  a = a
  b = b
  Uploads = {u1, u2}
  Chunks = {a, b}
  Streams <- Files
  Schemes = {"file", "s3"}
  EarlyFaults = TRUE
  Faults = TRUE
  Crashes = TRUE
  Decay = TRUE
CHECK_DEADLOCK FALSE
INVARIANT TypeOK
INVARIANT StoredIsReceived
INVARIANT AnsweredIsStored
PROPERTY ImplementsStore
PROPERTY WaitersAreAnswered
PROPERTY StoringEnds
