SPECIFICATION ComponentsSpec
CONSTANTS
  MaxEnd = 9
  ArrayEnd = 7
  Inc = 2
  Addresses = {A1, A2}
  Scenarios <- MCScenarios
  Watches = {"w1", "w2", "w3"}
  Timeouts = {"t1", "t2"}
  Dispatches = {"d1", "d2"}
  SocketOf <- MCSocketOf
  Programs <- MCPrograms
  MaxTotalLogSize = 4
  FirstAlloc = 1
  MaxOwn = 5
  MaxOthers = 1
  MaxGroups = 1
CHECK_DEADLOCK FALSE
INVARIANT TypeOK ChainsNest LogExact ConnectionExact OnlyKnownFailures GroupingExact LoopsExact
PROPERTY ImplementsUndoHistory Implement DispatchesRun
