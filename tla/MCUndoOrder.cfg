SPECIFICATION GivenSpec
CONSTANTS
  Users <- ThreeUsers
  Observers = {}
  Orders <- Upwards
  InitialText <- OneChar
  MaxRequests <- JustTwoOneOne
  MaxInserts <- ZeroOneOne
  MaxErase = 1
  Kinds = {"insert", "erase", "undo"}
  MaxTotalLogSize = 100
CHECK_DEADLOCK FALSE
INVARIANT Convergence
