SPECIFICATION EditingSpec
CONSTANTS
  Users <- TwoUsers
  Observers = {}
  Orders <- Mixed
  InitialText <- OneChar
  MaxRequests <- JustOneEach
  MaxInserts <- OneEach
  MaxErase = 1
  Kinds = {"insert"}
  MaxTotalLogSize = 100
CHECK_DEADLOCK FALSE
INVARIANT UndoLeavesNoTrace LogsExact FlagTellsUnsaved CleanupKeepsNeeded
