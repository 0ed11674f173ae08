SPECIFICATION TypingSpec
CONSTANTS
  Users <- ThreeUsers
  Observers = {}
  Orders <- Mixed
  InitialText <- TwoChars
  MaxRequests <- JustOneEach
  MaxInserts <- OneEach
  MaxErase = 2
  Kinds = {"insert", "erase"}
  MaxTotalLogSize = 100
CHECK_DEADLOCK FALSE
INVARIANT Convergence NoAssertionFails
