------------------------------- MODULE MCServices -------------------------------
(* The services around the documents, for TLC: the directory and a session. In a *)
(* behavior one of them moves, and the other stays as it was at the start.       *)
EXTENDS DirectoryService

CONSTANTS alice, bob, InnerQueueLimit, Scenarios

VARIABLES part, scenario, server, client, line, upstream, downstream, asked, done, lines

sessionVars == <<scenario, server, client, line, upstream, downstream, asked, done, lines>>

S == INSTANCE SessionService

ASSUME SessionAssumption == S!ProxyAssumption /\ S!ScenarioAssumption

------------------------------------------------------------------------------
(* What each of two clients does in the directory *)

MCClients == {alice, bob}
MCNames == {"a", "b"}

Both(n) == [c \in Clients |-> n]
Each(x, y) == [c \in Clients |-> IF c = alice THEN x ELSE y]
May(names, n) == [names |-> names, most |-> n]

OneNote == {<<<<"a">>, "note">>}
NoteInDirectory == {<<<<"a">>, "dir">>, <<<<"a", "a">>, "note">>}

Plan(a, b) ==
  [plugin |-> Clients, slow |-> {}, operations |-> Each(a, b), connects |-> Both(1),
   server |-> {}, calls |-> 0, requests |-> 4, storage |-> {}, writes |-> {TRUE}]

\* Notes come and go while they are used and saved.
Documents == [Plan(May({"subscribe", "leave", "save"}, 2), May({"subscribe", "remove"}, 1))
  EXCEPT !.storage = OneNote]

\* Two clients add nodes at the same place.
Additions == Plan(May({"add-subscribed", "leave"}, 2), May({"add-subscribed", "add-dir"}, 1))

\* Notes are brought along.
SyncIns == Plan(May({"sync-in-subscribed", "leave"}, 2), May({"add-note"}, 1))
SyncInsOfBoth == Plan(May({"sync-in-subscribed", "sync-in"}, 1), May({"sync-in"}, 1))

\* A directory is removed while something is added to it, brought to it, or used.
Removals == [Plan(May({"add-subscribed", "subscribe"}, 1), May({"remove"}, 1))
  EXCEPT !.storage = NoteInDirectory]
RemovalsWhileSyncing == [Plan(May({"sync-in-subscribed"}, 1), May({"remove"}, 1))
  EXCEPT !.storage = NoteInDirectory]

\* A client's connection is lost.
Losses == [Plan(May({"subscribe", "add-subscribed", "sync-in"}, 1), May({"subscribe"}, 1))
  EXCEPT !.storage = OneNote, !.connects = Each(2, 1)]

\* The chat is switched on and off.
Chats == [Plan(May({"chat", "leave"}, 3), May({}, 0))
  EXCEPT !.server = {"server-chat"}, !.calls = 3, !.connects = Each(2, 0)]

ChatAndRemoval == [Plan(May({"chat", "remove"}, 2), May({}, 0))
  EXCEPT !.server = {"server-chat"}, !.calls = 1, !.storage = OneNote, !.connects = Each(1, 0)]

\* The storage fails now and then, and the server's program uses a session.
Failing == [Plan(May({"add-dir", "add-subscribed", "sync-in", "subscribe"}, 1), May({}, 0))
  EXCEPT !.writes = BOOLEAN, !.storage = OneNote, !.connects = Each(1, 0),
         !.server = {"server-session"}, !.calls = 1]
FailingSaves ==
  [Failing EXCEPT !.operations = Each(May({"add-subscribed", "subscribe", "save"}, 2), May({}, 0))]

\* One client has no plugin for the notes, and declines them.
Declining == [Plan(May({"add-subscribed", "sync-in"}, 1), May({"add-subscribed", "remove"}, 2))
  EXCEPT !.plugin = {alice}]

\* The server's program adds, uses and removes nodes, too.
Hosting == [Plan(May({"add-subscribed", "subscribe"}, 1), May({}, 0))
  EXCEPT !.server = {"server-add-dir", "server-add-note", "server-remove", "server-save"},
         !.calls = 2, !.connects = Each(1, 0)]
HostingAlone == [Plan(May({}, 0), May({}, 0))
  EXCEPT !.server = {"server-explore", "server-add-dir", "server-add-note", "server-remove"},
         !.calls = 2, !.connects = Each(1, 1), !.writes = BOOLEAN, !.storage = NoteInDirectory,
         !.requests = 1]

\* The welcome is late, or never comes.
Late == [Plan(May({"add-dir"}, 1), May({}, 0)) EXCEPT !.slow = {alice}, !.connects = Each(2, 0)]

MCPlans == {Documents, Additions, SyncIns, SyncInsOfBoth, Removals, RemovalsWhileSyncing,
            Losses, Chats, ChatAndRemoval, Failing, FailingSaves, Declining, Hosting, HostingAlone, Late}

\* One client explores a directory while the other removes it.
RemovalPlans ==
  {[Plan(May({}, 0), May({"remove"}, 1)) EXCEPT !.storage = NoteInDirectory]}

------------------------------------------------------------------------------
(* What each of them does in a session *)

Scenario(a, b) ==
  [known |-> <<"x">>, names |-> {"x"}, does |-> Each(a, b), most |-> Each(2, 2),
   lines |-> Each(1, 1), close |-> "never"]

\* Both subscribe and join, under one name or different ones.
Joining == [Scenario({"subscribe", "join"}, {"subscribe", "join"})
  EXCEPT !.names = {"x", "y"}, !.most = Each(3, 3)]
\* A user goes and comes back under a name that another wants, too.
Changing == [Scenario({"subscribe", "join", "status"}, {"subscribe", "join"})
  EXCEPT !.most = Each(4, 2)]
\* A client leaves and subscribes again, while the other keeps it busy.
Leaving == [Scenario({"subscribe", "join", "leave"}, {"subscribe", "join", "status"})
  EXCEPT !.most = Each(3, 4)]
Losing == [Scenario({"subscribe", "join"}, {"subscribe", "join"})
  EXCEPT !.most = Each(3, 2), !.lines = Each(2, 1)]
Closing == [Scenario({"subscribe", "join"}, {"subscribe"}) EXCEPT !.close = "late"]
Interrupting == [Scenario({"subscribe", "leave"}, {"subscribe"}) EXCEPT !.close = "any time"]

MCScenarios == {Joining, Changing, Leaving, Losing, Closing, Interrupting}

------------------------------------------------------------------------------

ServicesInit ==
  \/ part = "directory" /\ Init /\ S!SessionInit /\ scenario = Closing
  \/ part = "session" /\ S!SessionInit /\ Init /\ plan = Late

InDirectory == part = "directory" /\ UNCHANGED <<part, sessionVars>>
InSession == part = "session" /\ UNCHANGED <<part, vars>>

DirectoryMoves ==
  \/ InDirectory /\ SaveTimeout
  \/ InDirectory /\ ServerProgram
  \/ \E c \in Clients :
       \/ InDirectory /\ Connect(c)
       \/ InDirectory /\ Lose(c)
       \/ InDirectory /\ ServerNotices(c)
       \/ InDirectory /\ BrowserNotices(c)
       \/ InDirectory /\ NoWelcome(c)
       \/ InDirectory /\ ServerReceives(c)
       \/ InDirectory /\ BrowserReceives(c)
       \/ InDirectory /\ AckSent(c)
       \/ InDirectory /\ Explore(c)
       \/ InDirectory /\ Add(c)
       \/ InDirectory /\ RemoveNode(c)
       \/ InDirectory /\ Subscribe(c)
       \/ InDirectory /\ Save(c)
       \/ InDirectory /\ SubscribeChat(c)
       \/ InDirectory /\ Leave(c)

SessionMoves ==
  \/ InSession /\ S!ServerCloses
  \/ \E c \in Clients :
       \/ InSession /\ S!Transmit(c)
       \/ InSession /\ S!ServerReceives(c)
       \/ InSession /\ S!ClientReceives(c)
       \/ InSession /\ S!Lose(c)
       \/ InSession /\ S!ServerNotices(c)
       \/ InSession /\ S!ClientNotices(c)
       \/ InSession /\ S!Reconnect(c)
       \/ InSession /\ S!Subscribe(c)
       \/ InSession /\ S!Join(c)
       \/ InSession /\ S!ChangeStatus(c)
       \/ InSession /\ S!Leave(c)

ServicesNext == DirectoryMoves \/ SessionMoves

\* The system does not stop as long as there is something to be delivered. (What
\* is not a delivery happens finitely often: deliveries are weakly fair.)
ServicesSpec ==
  /\ ServicesInit /\ [][ServicesNext]_<<part, vars, sessionVars>>
  /\ \/ []<>~(Deliverable \/ S!Deliverable)
     \/ []<><<TRUE>>_<<vars, sessionVars>>

\* The directory alone.
OnlyDirectoryInit == ServicesInit /\ part = "directory"
DirectorySpec == OnlyDirectoryInit /\ [][ServicesNext]_<<part, vars, sessionVars>>

\* When everything has arrived, a client has the sessions the server has it
\* subscribed to, and in a session both agree about the users and whose they are.
ClientsAgree == SessionsAgree /\ S!UsersAgree

\* When everything has arrived, no request is left unanswered in the directory,
\* and in a session nobody waits to join or to be synchronised.
NobodyWaits == AllAnswered /\ S!NobodyWaits

\* When everything has arrived, a client's tree is the server's, and the storage holds it.
TreesHold == TreesAgree /\ StorageHoldsTree

\* Names are unique and sessions single; no timeout or connection that the directory
\* remembers belongs to what is gone, and the available users of a session are those of
\* its subscribed connections.
NothingTwiceNorDangling ==
  NothingTwice /\ SaveTimeoutSafe /\ NoDanglingConnection /\ S!SubscriptionsExact

\* Of the assertions and unexpected messages, in the directory and in a session,
\* only those occur that are known to.
OnlyKnownErrors == OnlyKnownFailures /\ S!OnlyKnownFailures
=================================================================================
