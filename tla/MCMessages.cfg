SPECIFICATION MessagesSpec
CONSTANTS
  Groups = {directory, document}
  Permanent = {directory}
  InnerQueueLimit = 2
  MaxMessages = 4
  MaxPeriods = 3
  NoGroup = NoGroup
  directory = directory
  document = document
CHECK_DEADLOCK FALSE
INVARIANT NoAssertionFails InnerCountExact ReportsMatchRegistration SentInOrder ReceptionExact
PROPERTY NothingLost QueuesEmpty
