SPECIFICATION GroupingSpec
CONSTANTS
  MaxEnd = 1
  ArrayEnd = 1
  Inc = 1
  Addresses = {A1}
  Scenarios <- MCScenarios
  Watches = {"w1", "w2"}
  Timeouts = {"t1", "t2"}
  Dispatches = {}
  SocketOf <- MCSocketOf
  Programs <- TwoTimeouts
  MaxTotalLogSize = 4
  FirstAlloc = 1
  MaxOwn = 5
  MaxOthers = 2
  MaxGroups = 1
CHECK_DEADLOCK FALSE
INVARIANT RequestsValid
