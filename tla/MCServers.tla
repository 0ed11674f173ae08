------------------------------ MODULE MCServers ------------------------------
(* What is around the directory and its sessions, for TLC: the groups through      *)
(* which messages are passed on, the TCP connection below the streams, servers     *)
(* with their pool and publisher, the discovery of services, and the documents on  *)
(* disk with the plugins that save and copy them.  In a behavior one of them       *)
(* moves, and the others stay as they were at the start.                           *)
EXTENDS TcpConnection, Discovery, DocumentStorage, Servers

CONSTANTS Clients, Outings, Numbers

VARIABLES part, outing, used, hosted, status, client, pipe, executed, cut, since

groupVars == <<outing, used, hosted, status, client, pipe, executed, cut, since>>
discoveryVars == <<avahi, browser, info, conn, tree, answers, retries, failed>>

G == INSTANCE CommunicationGroups WITH Server <- 0,
       Factories <- << {<<"tcp/ip", "central">>, <<"jabber", "central">>} >>,
       Preferred <- << <<"jabber", "direct">> >>

ASSUME GroupsAssumption == G!GroupsAssumption
ASSUME ServersAssumption
ASSUME DiscoveryAssumption
ASSUME StorageAssumption

------------------------------------------------------------------------------
(* Three clients, of whom one is on another network *)

Net == [c \in Clients |-> IF c = 3 THEN "jabber" ELSE "tcp/ip"]
Quiet == [network |-> Net, says |-> [x \in Clients \cup {0} |-> 0], asks |-> [c \in Clients |-> 1],
          leaves |-> 0, losses |-> {}, closes |-> 0]
\* Members talk; one leaves and comes back; the group goes and comes back; a connection
\* is lost.
MCOutings ==
  {[Quiet EXCEPT !.says[1] = 1, !.says[3] = 1],
   [Quiet EXCEPT !.says[1] = 1, !.says[0] = 1, !.asks[3] = 0, !.asks[2] = 2, !.leaves = 1],
   [Quiet EXCEPT !.says[1] = 1, !.asks[1] = 2, !.asks[2] = 0, !.asks[3] = 1, !.closes = 1],
   [Quiet EXCEPT !.says[1] = 1, !.losses = {2}, !.network = [c \in Clients |-> "tcp/ip"]]}

\* Two users type into each note.
MCEditors == [n \in Notes |-> 1 .. 2]

------------------------------------------------------------------------------

DaemonInit ==
  /\ G!GroupsInit /\ TcpInit /\ ServersInit /\ DiscoveryInit /\ StorageInit
  /\ part \in {"groups", "tcp", "servers", "discovery", "storage"}
  /\ part # "groups" => outing = CHOOSE x \in Outings : TRUE
  /\ part # "discovery" => ~retries
  /\ part # "storage" => ~daemon.copying /\ daemon.interval = 0

InGroups == part = "groups" /\ UNCHANGED <<part, tcpVars, servers, discoveryVars, storage>>
InTcp == part = "tcp" /\ UNCHANGED <<part, groupVars, servers, discoveryVars, storage>>
InServers == part = "servers" /\ UNCHANGED <<part, groupVars, tcpVars, discoveryVars, storage>>
InDiscovery ==
  /\ part = "discovery" /\ failed = "no"
  /\ UNCHANGED <<part, groupVars, tcpVars, servers, storage>>
InStorage == part = "storage" /\ UNCHANGED <<part, groupVars, tcpVars, servers, discoveryVars>>

GroupMoves ==
  \/ InGroups /\ G!ServerSay
  \/ InGroups /\ G!SessionCloses
  \/ InGroups /\ G!SessionOpens
  \/ \E c \in Clients :
       \/ InGroups /\ G!ServerOpens(c)
       \/ InGroups /\ G!ServerReceive(c)
       \/ InGroups /\ G!ServerLoses(c)
       \/ InGroups /\ G!Ask(c)
       \/ InGroups /\ G!Say(c)
       \/ InGroups /\ G!LeaveSession(c)
       \/ InGroups /\ G!ClientReceive(c)
       \/ InGroups /\ G!ClientLoses(c)

TcpMoves ==
  \/ InTcp /\ Open
  \/ InTcp /\ CloseConnection
  \/ \E n \in 1 .. 3 : InTcp /\ SendBytes(n)
  \/ InTcp /\ IoCallback
  \/ InTcp /\ ConnectEnds
  \/ InTcp /\ RemoteReads
  \/ InTcp /\ RemoteWrites
  \/ InTcp /\ RemoteEnds

ServerMoves ==
  \/ InServers /\ DisposePool
  \/ InServers /\ PublisherRuns
  \/ InServers /\ PublisherRegisters
  \/ InServers /\ PublisherFails
  \/ \E i \in DOMAIN published : InServers /\ EntryGroup(i)
  \/ \E p \in Ports : InServers /\ OtherPorts(p)
  \/ \E s \in Servers :
       \/ \E p \in Ports : InServers /\ SetLocalPort(s, p)
       \/ InServers /\ Bind(s)
       \/ InServers /\ OpenServer(s)
       \/ InServers /\ CloseServer(s)
       \/ InServers /\ ServerIo(s)
       \/ InServers /\ Arrive(s)
       \/ InServers /\ CreateXmpp(s)
       \/ InServers /\ DisposeXmpp(s)
       \/ InServers /\ AddServer(s)
       \/ InServers /\ AddLocalPublisher(s)
       \/ InServers /\ RemoveServer(s)
       \/ InServers /\ CreateServer(s)

DiscoveryMoves ==
  \/ InDiscovery /\ AvahiRuns
  \/ InDiscovery /\ AvahiRegisters
  \/ InDiscovery /\ AvahiFails
  \/ InDiscovery /\ BrowserFails
  \/ \E s \in Numbers :
       \/ InDiscovery /\ BrowserNew(s)
       \/ InDiscovery /\ BrowserRemove(s)
       \/ InDiscovery /\ Resolver(s)
       \/ InDiscovery /\ Resolve(s)
       \/ InDiscovery /\ AddConnection(s)
       \/ InDiscovery /\ ReaddConnection(s)
       \/ InDiscovery /\ RemoveConnection(s)
       \/ InDiscovery /\ DropConnection(s)
       \/ InDiscovery /\ ConnectionChanges(s)
       \/ \E a \in Numbers : InDiscovery /\ SetRemote(s, a)

StorageMoves ==
  \/ InStorage /\ CreateFolder
  \/ InStorage /\ RemoveFolder
  \/ InStorage /\ Stop
  \/ InStorage /\ Crash
  \/ InStorage /\ Start
  \/ \E i \in Intervals : InStorage /\ Reload(i)
  \/ \E n \in Notes :
       \/ InStorage /\ CreateNote(n)
       \/ InStorage /\ Subscribe(n)
       \/ InStorage /\ Unsubscribe(n)
       \/ InStorage /\ EraseText(n)
       \/ InStorage /\ UndoText(n)
       \/ InStorage /\ SaveSession(n)
       \/ InStorage /\ AutosaveTimeout(n)
       \/ InStorage /\ SyncTimeout(n)
       \/ InStorage /\ SaveTimeout(n)
       \/ InStorage /\ RemoveNote(n)
       \/ \E u \in Editors[n] : InStorage /\ InsertText(n, u)

DaemonNext == GroupMoves \/ TcpMoves \/ ServerMoves \/ DiscoveryMoves \/ StorageMoves
around == <<part, groupVars, tcpVars, servers, discoveryVars, storage>>
DaemonSpec == DaemonInit /\ [][DaemonNext]_around

\* The documents on disk alone.
StopInit == DaemonInit /\ part = "storage"
StopSpec == StopInit /\ [][DaemonNext]_around

------------------------------------------------------------------------------
(* Properties, stated where they belong *)

\* Members of a group hear each other, unless passing a message on ended early, and are
\* registered exactly while their connection is open.
GroupsExact == G!EveryoneHears /\ G!RegisteredWhileOpen
==============================================================================
