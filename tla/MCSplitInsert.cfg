SPECIFICATION GivenSpec
CONSTANTS
  Users <- TwoUsers
  Observers = {}
  Orders <- Upwards
  InitialText <- TwoChars
  MaxRequests <- JustTwoEach
  MaxInserts <- OneEach
  MaxErase = 2
  Kinds = {"insert", "erase", "undo"}
  MaxTotalLogSize = 100
CHECK_DEADLOCK FALSE
INVARIANT NoAssertionFails
