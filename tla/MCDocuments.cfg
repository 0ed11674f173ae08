SPECIFICATION DocumentsSpec
CONSTANTS
  Users = {1, 2}
  Everyone = {1, 2, 3}
  Hosts = {"client", "server"}
  Ids = {1, 2, 3}
  MaxN = 2
  Authors = {1, 2}
  Chars = {1, 2}
  MaxLength = 5
  MaxInserted = 3
  NoopInterval = 2
  CaretInterval = 1
  MaxTime = 4
  Habits <- MCHabits
  Chats <- MCChats
  MaxRequests = 3
  MaxChanges = 1
  Word = 64
  Stories <- MCStories
  Plots <- MCPlots
CHECK_DEADLOCK FALSE
INVARIANT DataExact SessionsTell ChatTold ReplayFollowsRecord CaretsAgree
PROPERTY RegionsFollow
