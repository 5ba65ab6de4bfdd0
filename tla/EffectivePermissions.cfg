SPECIFICATION Spec
CONSTANTS
  MaxFolder = 4
  Bits = {"Read", "Admin"}
  Environments <- GrantsOrMoves
CHECK_DEADLOCK FALSE
INVARIANT TypeOK
INVARIANT AnswerFollowsInheritance
INVARIANT AnswerWasTrue
