------------------------- MODULE CommunicationGroups -------------------------
(***************************************************************************)
(* Groups of libinfinity/communication: a server hosts the directory's     *)
(* group and that of a session, clients join them through one connection   *)
(* each, on one of several networks.  With the central method, the only    *)
(* one there is, whoever has something to say sends it to the publisher,   *)
(* who passes it on to the other members, on whichever network they are.   *)
(* The queues of the registry are those of CommunicationRegistry; here a   *)
(* message that was sent is in the pipe of its connection.                 *)
(***************************************************************************)
EXTENDS Integers, Sequences, FiniteSets, SequencesExt

CONSTANTS Clients, Server,
          Factories,   \* a sequence of sets of <<network, method>>: what each supports
          Preferred,   \* the methods of hosted groups, in order: <<network or "any", method>>
          Outings      \* who is where, and what is done: [network, says, asks, leaves, losses, closes]

VARIABLES outing, used,  \* the program, and how much of it is done
          hosted,    \* the groups of the server
          status,    \* of the connections, as the server sees them
          client,    \* of every client: its connection, groups and what it heard
          pipe,      \* of every connection: what is on its way up and down
          executed,  \* what the session's target at the server received or sent, in order
          cut,       \* a loop over members ended early
          since      \* how much of it there was when a client became a member

Groups == {"directory", "session"}
Networks == {outing.network[c] : c \in Clients}
GroupsAssumption == Server \notin Clients /\ Outings # {}

------------------------------------------------------------------------------
(* Who implements which method *)

\* The first factory that knows the method on this network.
GetFactoryFor(network, method) ==
  SelectInSeq(Factories, LAMBDA f : <<network, method>> \in f)

\* Hosted groups fall back to the central method.
HostedMethods == Append(Preferred, <<"any", "central">>)

MethodFor(network) ==
  LET i == SelectInSeq(HostedMethods, LAMBDA m :
             m[1] \in {"any", network} /\ GetFactoryFor(network, m[2]) > 0)
  IN  IF i = 0 THEN "none" ELSE HostedMethods[i][2]

\* A container names the publisher as sender and receiver both know it.
PublisherName(publisher, local, remote) ==
  IF publisher = local THEN "me" ELSE IF publisher = remote THEN "you" ELSE publisher
PublisherNamed(name, local, remote) ==
  IF name = "me" THEN remote ELSE IF name = "you" THEN local ELSE name

------------------------------------------------------------------------------
(* Members of a hosted group: those whose connection is open are registered *)

NoGroup == [open |-> FALSE, methods |-> {}, members |-> <<>>, registered |-> {}]
OpenGroup == [NoGroup EXCEPT !.open = TRUE]
Members(g) == ToSet(g.members)

AddMember(g, c) ==
  [g EXCEPT !.methods = @ \cup {outing.network[c]}, !.members = <<c>> \o @,
            !.registered = IF status[c] = "open" THEN @ \cup {c} ELSE @]
Without(g, gone) ==
  [g EXCEPT !.members = SelectSeq(@, LAMBDA c : c \notin gone), !.registered = @ \ gone]
RemoveMember(g, c) == Without(g, {c})

\* The method's connections, those that are registered when their turn comes.
SendAll(g, network) == {c \in g.registered : outing.network[c] = network}
SendGroupMessage(g) == UNION {SendAll(g, n) : n \in g.methods}

\* Sending to a client that is gone may fail, which closes the connection at once:
\* every group's method removes it then.
Gone(c) == client[c].status = "closed"
Failing(receivers) == SUBSET {c \in receivers : Gone(c)}
Close(failed) ==
  /\ hosted' = [g \in Groups |-> Without(hosted[g], failed)]
  /\ status' = [c \in Clients |-> IF c \in failed THEN "closed" ELSE status[c]]

\* Mutant: only who is on the sender's network gets it.
Relayed_SameNetwork(g, from) ==
  LET list == SelectSeq(g.members, LAMBDA c : outing.network[c] = outing.network[from] /\ c # from)
  IN  {[to |-> ToSet(list), failed |-> {}, cut |-> FALSE]}

\* The sender's method passes a message on to those in its list, then the methods of
\* the other networks do to theirs, of which they take a copy.  When sending fails,
\* the node of the list that the loop is at has been freed: it goes on, or it ends.
Relayed(g, from) ==
  LET list == SelectSeq(g.members, LAMBDA c : outing.network[c] = outing.network[from] /\ c # from)
      others == UNION {SendAll(g, n) : n \in g.methods \ {outing.network[from]}}
  IN  {[to |-> ToSet(list) \cup others, failed |-> f, cut |-> FALSE] :
         f \in Failing(ToSet(list) \cup others)}
      \cup {[to |-> ToSet(SubSeq(list, 1, i)) \cup others, failed |-> {list[i]}, cut |-> TRUE] :
              i \in {j \in 1 .. Len(list) - 1 : Gone(list[j])}}

Message(group, sender, receiver, type, from, n) ==
  [group |-> group, type |-> type, from |-> from, n |-> n,
   publisher |-> PublisherName(Server, sender, receiver)]
Down(receivers, group, type, from, n) ==
  [c \in Clients |-> IF c \in receivers
     THEN [pipe[c] EXCEPT !.down = Append(@, Message(group, Server, c, type, from, n))]
     ELSE pipe[c]]
Up(c, p, group, type, n) == [p EXCEPT !.up = Append(@, Message(group, c, Server, type, c, n))]

------------------------------------------------------------------------------
GroupsInit ==
  /\ outing \in Outings
  /\ used = [says |-> [x \in Clients \cup {Server} |-> 0], asks |-> [c \in Clients |-> 0],
             leaves |-> 0, closes |-> 0]
  /\ hosted = [directory |-> [OpenGroup EXCEPT !.members = SetToSeq(Clients), !.methods = Networks],
               session |-> OpenGroup]
  /\ status = [c \in Clients |-> "opening"]
  /\ client = [c \in Clients |-> [status |-> "opening", joined |-> {"directory"},
                                  registered |-> {}, asked |-> FALSE, heard |-> <<>>]]
  /\ pipe = [c \in Clients |-> [up |-> <<>>, down |-> <<>>]]
  /\ executed = <<>> /\ cut = FALSE /\ since = [c \in Clients |-> 0]

------------------------------------------------------------------------------
(* The server *)

\* A member in an opening connection is registered when it is open.
ServerOpens(c) ==
  /\ status[c] = "opening" /\ status' = [status EXCEPT ![c] = "open"]
  /\ hosted' = [g \in Groups |-> IF c \in Members(hosted[g])
                 THEN [hosted[g] EXCEPT !.registered = @ \cup {c}] ELSE hosted[g]]
  /\ pipe' = Down({c}, "directory", "ready", Server, 0)
  /\ UNCHANGED <<outing, used, client, executed, cut, since>>

ServerSay ==
  LET n == used.says[Server] + 1
  IN  /\ hosted["session"].open /\ n <= outing.says[Server]
      /\ used' = [used EXCEPT !.says[Server] = n]
      /\ executed' = Append(executed, [from |-> Server, n |-> n])
      /\ \E failed \in Failing(SendGroupMessage(hosted["session"])) : Close(failed)
      /\ pipe' = Down(SendGroupMessage(hosted["session"]), "session", "text", Server, n)
      /\ UNCHANGED <<outing, client, cut, since>>

\* The target of the group is who received it; all but requests are for the server only.
Received(c, m) ==
  CASE m.type = "subscribe" ->
         /\ pipe' = [Down({c}, "directory",
                          IF hosted["session"].open THEN "subscribed" ELSE "refused", Server, 0)
                       EXCEPT ![c].up = Tail(@)]
         /\ hosted' = hosted /\ UNCHANGED <<status, executed, cut, since>>
    [] m.type = "ack" ->
         /\ hosted' = [hosted EXCEPT !["session"] = AddMember(@, c)]
         /\ since' = [since EXCEPT ![c] = Len(executed)]
         /\ pipe' = [pipe EXCEPT ![c].up = Tail(@)] /\ UNCHANGED <<status, executed, cut>>
    [] m.type = "unsubscribe" ->
         /\ hosted' = [hosted EXCEPT !["session"] = RemoveMember(@, c)]
         /\ pipe' = [pipe EXCEPT ![c].up = Tail(@)] /\ UNCHANGED <<status, executed, cut, since>>
    [] m.type = "text" ->
         /\ executed' = Append(executed, [from |-> c, n |-> m.n])
         /\ \E relayed \in Relayed(hosted["session"], c) :
              /\ pipe' = [Down(relayed.to, "session", "text", c, m.n) EXCEPT ![c].up = Tail(@)]
              /\ Close(relayed.failed) /\ cut' = (cut \/ relayed.cut)
         /\ UNCHANGED since

\* What comes for a group the connection is not registered with is dropped.
ServerReceive(c) ==
  LET m == Head(pipe[c].up)
      known == /\ c \in hosted[m.group].registered
               /\ PublisherNamed(m.publisher, Server, c) = Server
  IN  /\ status[c] = "open" /\ pipe[c].up # <<>>
      /\ IF known THEN Received(c, m)
         ELSE pipe' = [pipe EXCEPT ![c].up = Tail(@)] 
              /\ UNCHANGED <<hosted, status, executed, cut, since>>
      /\ UNCHANGED <<outing, used, client>>

\* Closing or closed: the method removes the member.
ServerLoses(c) ==
  /\ status[c] # "closed"
  /\ c \in outing.losses \/ (client[c].status = "closed" /\ pipe[c].up = <<>>)
  /\ Close({c}) /\ pipe' = [pipe EXCEPT ![c].up = <<>>]
  /\ UNCHANGED <<outing, used, client, executed, cut, since>>

\* The session is closed when nobody is about to subscribe: that would keep it.
Pending(c) ==
  /\ status[c] = "open"
  /\ \/ \E i \in DOMAIN pipe[c].up : pipe[c].up[i].type = "ack"
     \/ \E i \in DOMAIN pipe[c].down : pipe[c].down[i].type = "subscribed"
SessionCloses ==
  /\ hosted["session"].open /\ used.closes < outing.closes /\ \A c \in Clients : ~Pending(c)
  /\ used' = [used EXCEPT !.closes = @ + 1]
  /\ pipe' = Down(SendGroupMessage(hosted["session"]), "session", "close", Server, 0)
  /\ hosted' = [hosted EXCEPT !["session"] = NoGroup]
  /\ executed' = <<>> /\ UNCHANGED <<outing, status, client, cut, since>>

\* The node is opened again: the group has the name of the one before.
SessionOpens ==
  /\ ~hosted["session"].open /\ hosted' = [hosted EXCEPT !["session"] = OpenGroup]
  /\ UNCHANGED <<outing, used, status, client, pipe, executed, cut, since>>

------------------------------------------------------------------------------
(* The clients *)

\* Joining: the connection must not be closing, nor the group have been joined before,
\* and the method that the server told must be known here.
JoinGroup(x, g, network, method) ==
  IF x.status = "closed" \/ g \in x.joined \/ GetFactoryFor(network, method) = 0 THEN x
  ELSE [x EXCEPT !.joined = @ \cup {g}, !.registered = IF x.status = "open" THEN @ \cup {g} ELSE @]
Leave(x, g) == [x EXCEPT !.joined = @ \ {g}, !.registered = @ \ {g}]

Ask(c) ==
  /\ "directory" \in client[c].registered /\ "session" \notin client[c].joined
  /\ ~client[c].asked /\ used.asks[c] < outing.asks[c]
  /\ used' = [used EXCEPT !.asks[c] = @ + 1]
  /\ client' = [client EXCEPT ![c].asked = TRUE]
  /\ pipe' = [pipe EXCEPT ![c] = Up(c, @, "directory", "subscribe", 0)]
  /\ UNCHANGED <<outing, hosted, status, executed, cut, since>>

Say(c) ==
  LET n == used.says[c] + 1
  IN  /\ "session" \in client[c].registered /\ n <= outing.says[c]
      /\ used' = [used EXCEPT !.says[c] = n]
      /\ pipe' = [pipe EXCEPT ![c] = Up(c, @, "session", "text", n)]
      /\ UNCHANGED <<outing, hosted, status, client, executed, cut, since>>

LeaveSession(c) ==
  /\ "session" \in client[c].registered /\ used.leaves < outing.leaves
  /\ used' = [used EXCEPT !.leaves = @ + 1]
  /\ client' = [client EXCEPT ![c] = Leave(@, "session")]
  /\ pipe' = [pipe EXCEPT ![c] = Up(c, @, "session", "unsubscribe", 0)]
  /\ UNCHANGED <<outing, hosted, status, executed, cut, since>>

ClientReceive(c) ==
  LET m == Head(pipe[c].down)
      x == client[c]
      p == [pipe[c] EXCEPT !.down = Tail(@)]
      known == /\ m.group \in x.registered
               /\ PublisherNamed(m.publisher, c, Server) = Server
      answered == [x EXCEPT !.asked = FALSE]
  IN  /\ x.status # "closed" /\ pipe[c].down # <<>>
      /\ client' = [client EXCEPT ![c] =
           CASE m.type = "ready" -> [x EXCEPT !.status = "open", !.registered = x.joined]
             [] known /\ m.type = "subscribed" ->
                  JoinGroup([answered EXCEPT !.heard = <<>>], "session",
                            outing.network[c], MethodFor(outing.network[c]))
             [] known /\ m.type = "refused" -> answered
             [] known /\ m.type = "text" ->
                  [x EXCEPT !.heard = Append(@, [from |-> m.from, n |-> m.n])]
             [] known /\ m.type = "close" -> Leave(x, "session")
             [] OTHER -> x]
      /\ pipe' = [pipe EXCEPT ![c] = IF known /\ m.type = "subscribed"
                                     THEN Up(c, p, "directory", "ack", 0) ELSE p]
      /\ UNCHANGED <<outing, used, hosted, status, executed, cut, since>>

\* The publisher is no more.
ClientLoses(c) ==
  /\ client[c].status # "closed" /\ (c \in outing.losses \/ status[c] = "closed")
  /\ client' = [client EXCEPT ![c].status = "closed", ![c].joined = {}, ![c].registered = {}]
  /\ pipe' = [pipe EXCEPT ![c].down = <<>>]
  /\ UNCHANGED <<outing, used, hosted, status, executed, cut, since>>

GroupsNext ==
  \/ ServerSay \/ SessionCloses \/ SessionOpens
  \/ \E c \in Clients :
       \/ ServerOpens(c) \/ ServerReceive(c) \/ ServerLoses(c)
       \/ Ask(c) \/ Say(c) \/ LeaveSession(c) \/ ClientReceive(c) \/ ClientLoses(c)

groups == <<outing, used, hosted, status, client, pipe, executed, cut, since>>
GroupsSpec == GroupsInit /\ [][GroupsNext]_groups

------------------------------------------------------------------------------
(* Properties *)

\* A member hears, in the publisher's order and once, what the others said while it
\* was one, on whichever network they are; and nothing from before it was, from an
\* earlier membership or from an earlier group of that name.
FromOthers(c) ==
  SelectSeq(SubSeq(executed, since[c] + 1, Len(executed)), LAMBDA e : e.from # c)
OnTheWay(c) ==
  LET texts == SelectSeq(pipe[c].down, LAMBDA m : m.type = "text")
  IN  [i \in DOMAIN texts |-> [from |-> texts[i].from, n |-> texts[i].n]]
Stays(c) == c \in hosted["session"].registered /\ "session" \in client[c].registered
AlwaysHeard ==
  \A c \in Clients : Stays(c) => client[c].heard \o OnTheWay(c) = FromOthers(c)

\* That is so unless passing a message on ended early.
EveryoneHears == cut \/ AlwaysHeard

\* Members are registered exactly while their connection is open, so that nothing is
\* passed on to somebody who is not, in spite of members that leave, connections that
\* break at either end first, and groups that go.
RegisteredWhileOpen ==
  \A g \in Groups :
    /\ hosted[g].registered = {c \in Members(hosted[g]) : status[c] = "open"}
    /\ IsInjective(hosted[g].members)
    /\ \A c \in Members(hosted[g]) : status[c] # "closed" /\ outing.network[c] \in hosted[g].methods
    /\ g = "session" => Members(hosted[g]) = hosted[g].registered
    /\ \A c \in Clients : client[c].registered =
                            IF client[c].status = "open" THEN client[c].joined ELSE {}
==============================================================================
