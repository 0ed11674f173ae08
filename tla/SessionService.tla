---------------------------- MODULE SessionService ----------------------------
(***************************************************************************)
(* A session of the server and its clients.  A client asks the directory   *)
(* to subscribe; the answer does not wait in the queue of the session.     *)
(* Connections may be lost; each end notices it at a time of its own.      *)
(***************************************************************************)
EXTENDS InfdSessionProxy

K == INSTANCE InfcSessionProxy

\* What happens in a behavior: the names that were in use, those that users ask
\* for, what each client's program does and how often, how often a client
\* connects, and when the server closes the session: never, when no
\* synchronisation can be cancelled, or any time.
CONSTANT Scenarios

ScenarioAssumption ==
  \A p \in Scenarios :
    /\ p.known \in Seq(STRING) /\ p.names \subseteq STRING
    /\ p.does \in [Clients -> SUBSET {"subscribe", "join", "status", "leave"}]
    /\ p.most \in [Clients -> Nat] /\ p.lines \in [Clients -> Nat]
    /\ p.close \in {"never", "late", "any time"}

VARIABLES scenario,
          server,        \* the session
          client,        \* of each connection
          line,          \* of each connection: is it open, and which ends believe so
          upstream, downstream,   \* what was sent and has not arrived
          asked,         \* the clients whose acknowledgement the directory awaits
          done, lines    \* history: what each program has done, connections

sessionVars == <<scenario, server, client, line, upstream, downstream, asked, done, lines>>

NoLine == [open |-> FALSE, client |-> FALSE, server |-> FALSE]
UpLine == [open |-> TRUE, client |-> TRUE, server |-> TRUE]
Empty == [c \in Clients |-> <<>>]

SessionInit ==
  /\ scenario \in Scenarios
  /\ server = NewSession(scenario.known)
  /\ client = [c \in Clients |-> K!NewClient]
  /\ line = [c \in Clients |-> UpLine]
  /\ upstream = Empty /\ downstream = Empty
  /\ asked = {}
  /\ done = [c \in Clients |-> 0] /\ lines = [c \in Clients |-> 1]

\* A server that has stopped at an assertion does nothing any more.
Works == server.failure = None

\* Client c has become k: what it has sent is on its way, if there is a way.
ClientBecomes(c, k) ==
  /\ client' = [client EXCEPT ![c] = [k EXCEPT !.out = <<>>]]
  /\ upstream' = [upstream EXCEPT ![c] = IF line[c].open THEN @ \o k.out ELSE @]

------------------------------------------------------------------------------
(* What the programs do *)

Program(c, what) ==
  /\ Works /\ line[c].client /\ what \in scenario.does[c] /\ done[c] < scenario.most[c]
  /\ done' = [done EXCEPT ![c] = @ + 1]
  /\ UNCHANGED <<scenario, server, line, downstream, asked, lines>>

Subscribe(c) ==
  /\ client[c].phase = "none" /\ Program(c, "subscribe")
  /\ ClientBecomes(c, K!Reply([client[c] EXCEPT !.phase = "asked"], [type |-> "subscribe"]))

Join(c) ==
  /\ client[c].phase = "running" /\ Program(c, "join")
  /\ \E n \in scenario.names : ClientBecomes(c, K!JoinUser(client[c], n))

ChangeStatus(c) ==
  /\ client[c].phase = "running" /\ Program(c, "status")
  /\ \E u \in DOMAIN client[c].users, s \in {"inactive", "unavailable"} :
       /\ client[c].users[u].mine /\ client[c].users[u].status \notin {s, "unavailable"}
       /\ ClientBecomes(c, K!SetUserStatus(client[c], u, s))

Leave(c) ==
  /\ client[c].phase \in {"synchronizing", "running"} /\ Program(c, "leave")
  /\ ClientBecomes(c, K!Close(client[c]))

CanClose ==
  CASE scenario.close = "never" -> FALSE
    [] scenario.close = "late" -> \A c \in Clients : server.sync[c] # "in-progress"
    [] scenario.close = "any time" -> TRUE

ServerCloses ==
  /\ Works /\ server.open /\ asked = {} /\ CanClose
  /\ server' = CloseSession(server)
  /\ UNCHANGED <<scenario, client, line, upstream, downstream, asked, done, lines>>

------------------------------------------------------------------------------
(* Messages *)

\* The connection reports what it was given as sent.
Transmit(c) ==
  /\ Works /\ line[c].open /\ server.conn[c] # <<>>
  /\ downstream' = [downstream EXCEPT ![c] = @ \o server.conn[c]]
  /\ server' = Sent(server, c)
  /\ UNCHANGED <<scenario, client, line, upstream, asked, done, lines>>

\* The directory offers the session, as long as there is one.
DirectoryReceives(c, m) ==
  CASE m.type = "subscribe" /\ server.open ->
         /\ asked' = asked \cup {c}
         /\ server' = [server EXCEPT !.conn[c] = Append(@, m)]
    [] m.type = "subscribe-ack" /\ server.open ->
         asked' = asked \ {c} /\ server' = SubscribeTo(server, c)
    [] OTHER -> UNCHANGED <<server, asked>>

ServerReceives(c) ==
  /\ Works /\ line[c].open /\ upstream[c] # <<>>
  /\ upstream' = [upstream EXCEPT ![c] = Tail(@)]
  /\ LET m == Head(upstream[c])
     IN  IF m.type \in {"subscribe", "subscribe-ack"} THEN DirectoryReceives(c, m)
         ELSE server' = ServerReceive(server, c, m) /\ UNCHANGED asked
  /\ UNCHANGED <<scenario, client, line, downstream, done, lines>>

ClientReceives(c) ==
  /\ Works /\ line[c].open /\ downstream[c] # <<>>
  /\ downstream' = [downstream EXCEPT ![c] = Tail(@)]
  /\ ClientBecomes(c, K!ClientReceive(client[c], c, Head(downstream[c])))
  /\ UNCHANGED <<scenario, server, line, asked, done, lines>>

------------------------------------------------------------------------------
(* Connections *)

Lose(c) ==
  /\ Works /\ line[c].open /\ lines[c] < scenario.lines[c]
  /\ line' = [line EXCEPT ![c].open = FALSE]
  /\ upstream' = [upstream EXCEPT ![c] = <<>>] /\ downstream' = [downstream EXCEPT ![c] = <<>>]
  /\ UNCHANGED <<scenario, server, client, asked, done, lines>>

ServerNotices(c) ==
  /\ Works /\ ~line[c].open /\ line[c].server
  /\ line' = [line EXCEPT ![c].server = FALSE]
  /\ server' = ConnectionClosed(server, c) /\ asked' = asked \ {c}
  /\ UNCHANGED <<scenario, client, upstream, downstream, done, lines>>

ClientNotices(c) ==
  /\ Works /\ ~line[c].open /\ line[c].client
  /\ line' = [line EXCEPT ![c].client = FALSE]
  /\ client' = [client EXCEPT ![c] = K!Released(@)]
  /\ UNCHANGED <<scenario, server, upstream, downstream, asked, done, lines>>

Reconnect(c) ==
  /\ Works /\ line[c] = NoLine
  /\ line' = [line EXCEPT ![c] = UpLine] /\ lines' = [lines EXCEPT ![c] = @ + 1]
  /\ UNCHANGED <<scenario, server, client, upstream, downstream, asked, done>>

------------------------------------------------------------------------------
Deliver ==
  \E c \in Clients : Transmit(c) \/ ServerReceives(c) \/ ClientReceives(c)
                     \/ ServerNotices(c) \/ ClientNotices(c)

SessionNext ==
  \/ Deliver
  \/ ServerCloses
  \/ \E c \in Clients : Subscribe(c) \/ Join(c) \/ ChangeStatus(c) \/ Leave(c)
                        \/ Lose(c) \/ Reconnect(c)

SessionSpec == SessionInit /\ [][SessionNext]_sessionVars

\* Something waits to be delivered, or the loss of a connection to be noticed.
Deliverable ==
  Works /\ \E c \in Clients :
    \/ line[c].open /\ server.conn[c] \o upstream[c] \o downstream[c] # <<>>
    \/ ~line[c].open /\ (line[c].server \/ line[c].client)

------------------------------------------------------------------------------
(* Properties *)

Settled == Works /\ ~Deliverable

\* When everything has arrived, every subscribed client knows the users of the
\* server, with their names and states, and takes for its own, among those that
\* are there, the ones that joined through it.  (Joins, departures, renewed and
\* lost subscriptions meet synchronisations that take several bunches:
\* infd-session-proxy.c, infc-session-proxy.c.)
UsersAgree ==
  Settled /\ server.open =>
    \A c \in Clients : client[c].phase = "running" =>
      /\ DOMAIN client[c].users = DOMAIN server.users
      /\ \A u \in DOMAIN server.users :
           LET here == client[c].users[u]
               there == server.users[u]
           IN  /\ here.name = there.name /\ here.status = there.status
               /\ there.status # "unavailable" => (here.mine <=> there.by = c)

\* When everything has arrived, no user join waits for an answer and no client
\* is half synchronised, unless the session is gone.  (Answers go through the
\* queue and may be cancelled with it: infc-session-proxy.c:496,704.)
NobodyWaits ==
  Settled /\ server.open =>
    \A c \in Clients : client[c].requests = {} /\ client[c].phase \in {"none", "running"}

\* A user that is there joined from a subscribed connection, which lists it; a
\* user that is not there is listed nowhere; and nobody is synchronised without
\* being subscribed.  (infd_session_proxy_user_notify_status_cb and
\* inf_session_connection_notify_status_cb assert parts of this.)
SubscriptionsExact ==
  Works =>
    /\ \A c \in Clients :
         /\ UsersOf(server, c) = {u \in DOMAIN server.users : server.users[u].by = c}
         /\ server.sync[c] # "none" => server.subs[c] # None
         /\ server.entry[c].registered <=> server.subs[c] # None
    /\ \A u \in DOMAIN server.users : Available(server, u) <=> server.users[u].by # None
    /\ \A u, v \in DOMAIN server.users : server.users[u].name = server.users[v].name => u = v

\* Of the messages that can go wrong only those do that are known to: a client
\* that left while messages waited for it, and subscribes again, gets the rest
\* of them before its synchronisation begins, which fails.  And only one
\* assertion fails: cancelling a synchronisation after leaving the group.
OnlyKnownFailures ==
  /\ server.failure \in {None, "cancel for no member"}
  /\ \A c \in Clients : client[c].error \in {None, "no sync-begin yet"}
==============================================================================
