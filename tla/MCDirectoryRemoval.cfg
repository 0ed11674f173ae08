SPECIFICATION DirectorySpec
CONSTANTS
  None = None
  alice = alice
  bob = bob
  Clients <- MCClients
  Names <- MCNames
  Plans <- RemovalPlans
  InnerQueueLimit = 2
  Scenarios <- MCScenarios
CHECK_DEADLOCK FALSE
INVARIANT NoSuchNodeReported
