SPECIFICATION Spec
CONSTANTS
  Txs = {t1, t2}
  MaxFolder = 7
  MaxFile = 2
  Bits = {"Admin"}
  Settings <- OnlyPostgres
  Faults = FALSE
CHECK_DEADLOCK FALSE
INVARIANT MovesTakeAlong
