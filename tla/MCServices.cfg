SPECIFICATION ServicesSpec
CONSTANTS
  None = None
  alice = alice
  bob = bob
  Clients <- MCClients
  Names <- MCNames
  Plans <- MCPlans
  InnerQueueLimit = 2
  Scenarios <- MCScenarios
CHECK_DEADLOCK FALSE
INVARIANT TreesHold ClientsAgree NobodyWaits NothingTwiceNorDangling OnlyKnownErrors
PROPERTY RequestsAnswered
