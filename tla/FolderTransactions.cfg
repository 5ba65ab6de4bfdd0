SPECIFICATION FairSpec
CONSTANTS
  Txs = {t1, t2}
  MaxFolder = 7
  MaxFile = 2
  Bits = {"Admin"}
  Settings <- Both
  Faults = TRUE
CHECK_DEADLOCK FALSE
PROPERTY CallsAreOneStep
INVARIANT OrphansAreLocked
PROPERTY CallsEnd
