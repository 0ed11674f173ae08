---------------------------- MODULE DirectoryService ----------------------------
(***************************************************************************)
(* The server's directory and the browsers of its clients, connected by    *)
(* streams that deliver in order until they are lost.  Each end notices    *)
(* the loss at a time of its own, and a client may connect again.  An      *)
(* acknowledgement is on its way before the browser learns that it was     *)
(* sent, but arrives only after it was sent.                               *)
(***************************************************************************)
EXTENDS InfdDirectory

B == INSTANCE InfcBrowser

\* What the environment does in a behavior: which clients have a plugin for the
\* notes, for which the welcome may come too late, what their programs do and
\* how often, after how many requests they explore no more, how often they
\* connect, what the server's program does, what is on disk, and whether the
\* storage does as asked, fails, or may do either.
CONSTANT Plans

ASSUME ServiceAssumption ==
  /\ None \notin Clients
  /\ \A p \in Plans :
       /\ p.plugin \subseteq Clients /\ p.slow \subseteq Clients
       /\ p.operations \in [Clients -> [names : SUBSET STRING, most : Nat]]
       /\ p.connects \in [Clients -> Nat] /\ p.calls \in Nat /\ p.requests \in Nat
       /\ p.server \subseteq {"server-chat", "server-session", "server-explore", "server-add-dir",
                               "server-add-note", "server-remove", "server-save"}
       /\ p.writes \subseteq BOOLEAN

VARIABLES plan,        \* one of the plans
          directory,   \* the server
          browser,     \* the client of each connection
          link,        \* of each connection: is it open, and which ends believe so
          c2s, s2c,    \* what is on its way
          operations,  \* history: how many requests and closings each program
                       \* has started, apart from explorations
          connects,    \* history: how often each client has connected
          calls        \* history: how many calls the server's program has made

vars == <<plan, directory, browser, link, c2s, s2c, operations, connects, calls>>

Quiet == [c \in Clients |-> <<>>]
NoLink == [open |-> FALSE, client |-> FALSE, server |-> FALSE]
AllUp == [open |-> TRUE, client |-> TRUE, server |-> TRUE]

Init ==
  /\ plan \in Plans
  /\ directory = NewDirectory(plan.storage)
  /\ browser = [c \in Clients |-> B!NewBrowser(c \in plan.plugin)]
  /\ link = [c \in Clients |-> NoLink]
  /\ c2s = Quiet /\ s2c = Quiet
  /\ operations = [c \in Clients |-> 0] /\ connects = [c \in Clients |-> 0] /\ calls = 0

\* A program that has stopped at an assertion does nothing any more.
Running == directory.failure = None /\ \A c \in Clients : browser[c].failure = None

------------------------------------------------------------------------------
(* The server leaves the directory d behind, and a client its browser b: what *)
(* they have sent is on its way, if there is a way.                            *)

ServerBecomes(d, inbox) ==
  /\ directory' = [d EXCEPT !.out = Quiet]
  /\ s2c' = [c \in Clients |-> IF link'[c].open THEN inbox[c] \o d.out[c] ELSE <<>>]

BrowserBecomes(c, b, inbox) ==
  /\ browser' = [browser EXCEPT ![c] = [b EXCEPT !.out = <<>>]]
  /\ c2s' = [inbox EXCEPT ![c] = IF link'[c].open THEN @ \o b.out ELSE <<>>]

------------------------------------------------------------------------------
(* Connections *)

Connect(c) ==
  /\ Running /\ link[c] = NoLink /\ connects[c] < plan.connects[c]
  /\ link' = [link EXCEPT ![c] = AllUp]
  /\ connects' = [connects EXCEPT ![c] = @ + 1]
  /\ ServerBecomes(AddConnection(directory, c), s2c)
  /\ BrowserBecomes(c, B!BrowserConnected(browser[c]), c2s)
  /\ UNCHANGED <<plan, operations, calls>>

Lose(c) ==
  /\ Running /\ link[c].open /\ connects[c] < plan.connects[c]
  /\ link' = [link EXCEPT ![c].open = FALSE]
  /\ c2s' = [c2s EXCEPT ![c] = <<>>] /\ s2c' = [s2c EXCEPT ![c] = <<>>]
  /\ UNCHANGED <<plan, directory, browser, operations, connects, calls>>

ServerNotices(c) ==
  /\ Running /\ ~link[c].open /\ link[c].server
  /\ link' = [link EXCEPT ![c].server = FALSE]
  /\ ServerBecomes(ConnectionLost(directory, c), s2c)
  /\ UNCHANGED <<plan, browser, c2s, operations, connects, calls>>

BrowserNotices(c) ==
  /\ Running /\ ~link[c].open /\ link[c].client
  /\ link' = [link EXCEPT ![c].client = FALSE]
  /\ BrowserBecomes(c, B!BrowserDisconnected(browser[c]), c2s)
  /\ UNCHANGED <<plan, directory, s2c, operations, connects, calls>>

NoWelcome(c) ==
  /\ Running /\ browser[c].welcome_timeout /\ c \in plan.slow
  /\ UNCHANGED <<plan, directory, link, s2c, operations, connects, calls>>
  /\ BrowserBecomes(c, B!WelcomeTimeout(browser[c]), c2s)

------------------------------------------------------------------------------
(* Messages *)

\* The first message is there, unless it has not been sent yet.
Arrived(c) ==
  c2s[c] # <<>> /\ (Head(c2s[c]).type = "subscribe-ack" => Head(c2s[c]).sent)

ServerReceives(c) ==
  /\ Running /\ Arrived(c)
  /\ c2s' = [c2s EXCEPT ![c] = Tail(@)]
  /\ UNCHANGED <<plan, browser, link, operations, connects, calls>>
  /\ \E ok \in plan.writes : ServerBecomes(ServerReceive(directory, c, Head(c2s[c]), ok), s2c)

BrowserReceives(c) ==
  /\ Running /\ s2c[c] # <<>>
  /\ s2c' = [s2c EXCEPT ![c] = Tail(@)]
  /\ UNCHANGED <<plan, directory, link, operations, connects, calls>>
  /\ BrowserBecomes(c, B!BrowserReceive(browser[c], Head(s2c[c])), c2s)

Unsent(c) == {i \in DOMAIN c2s[c] : c2s[c][i].type = "subscribe-ack" /\ ~c2s[c][i].sent}

\* The browser learns that its next acknowledgement was sent.
AckSent(c) ==
  /\ Running /\ Unsent(c) # {}
  /\ UNCHANGED <<plan, directory, link, s2c, operations, connects, calls>>
  /\ LET i == CHOOSE j \in Unsent(c) : \A k \in Unsent(c) : j <= k
     IN  BrowserBecomes(c, B!BrowserSent(browser[c], c2s[c][i].id),
                        [c2s EXCEPT ![c][i].sent = TRUE])

------------------------------------------------------------------------------
(* The programs *)

Call(c, b) ==
  /\ UNCHANGED <<plan, directory, link, s2c, connects, calls>>
  /\ BrowserBecomes(c, b, c2s)

Operate(c, name, b) ==
  /\ operations[c] < plan.operations[c].most /\ name \in plan.operations[c].names
  /\ operations' = [operations EXCEPT ![c] = @ + 1]
  /\ Call(c, b)

Known(c) == DOMAIN browser[c].nodes

\* A program that is refused asks again, but not for ever.
Explore(c) == Running /\ \E id \in Known(c) : B!MayExplore(browser[c], id)
  /\ browser[c].next_seq < plan.requests
  /\ UNCHANGED operations /\ Call(c, B!Explore(browser[c], id))

Add(c) == Running /\ \E id \in Known(c), name \in Names : B!MayAdd(browser[c], id)
  /\ \/ Operate(c, "add-dir", B!Add(browser[c], id, name, "dir", FALSE, FALSE))
     \/ Operate(c, "add-note", B!Add(browser[c], id, name, "note", FALSE, FALSE))
     \/ Operate(c, "add-subscribed", B!Add(browser[c], id, name, "note", TRUE, FALSE))
     \/ Operate(c, "sync-in", B!Add(browser[c], id, name, "note", FALSE, TRUE))
     \/ Operate(c, "sync-in-subscribed", B!Add(browser[c], id, name, "note", TRUE, TRUE))

RemoveNode(c) == Running /\ \E id \in Known(c) : B!MayRemove(browser[c], id)
  /\ Operate(c, "remove", B!RemoveNode(browser[c], id))

Subscribe(c) == Running /\ \E id \in Known(c) : B!MaySubscribe(browser[c], id)
  /\ Operate(c, "subscribe", B!Subscribe(browser[c], id))

Save(c) == Running /\ \E id \in Known(c) : B!MaySave(browser[c], id)
  /\ Operate(c, "save", B!Save(browser[c], id))

SubscribeChat(c) == Running /\ B!MaySubscribeChat(browser[c])
  /\ Operate(c, "chat", B!SubscribeChat(browser[c]))

Leave(c) == Running /\ \E id \in Known(c) \cup {Chat} : B!MayLeave(browser[c], id)
  /\ Operate(c, "leave", B!Leave(browser[c], id))

SaveTimeout == Running /\ \E id \in DOMAIN directory.nodes, ok \in plan.writes :
  /\ directory.nodes[id].save_timeout
  /\ UNCHANGED <<plan, browser, link, c2s, operations, connects, calls>>
  /\ ServerBecomes(SessionSaveTimeout(directory, id, ok), s2c)

ServerCalls(name, d) ==
  /\ name \in plan.server /\ calls < plan.calls /\ calls' = calls + 1
  /\ UNCHANGED <<plan, browser, link, c2s, operations, connects>>
  /\ ServerBecomes(d, s2c)

ServerProgram == Running /\
  \/ ServerCalls("server-chat", IF directory.chat = None THEN EnableChat(directory)
                                ELSE DisableChat(directory))
  \/ \E id \in DOMAIN directory.nodes :
       /\ directory.nodes[id].kind = "note" /\ Readable(directory, id, TRUE)
       /\ ServerCalls("server-session", IterGetSession(directory, id))
  \/ \E id \in DOMAIN directory.nodes \ {Root}, ok \in plan.writes :
       ServerCalls("server-remove", IterRemoveNode(directory, id, ok))
  \/ \E id \in DOMAIN directory.nodes, ok \in plan.writes :
       /\ directory.nodes[id].session # None
       /\ ServerCalls("server-save", IterSaveSession(directory, id, ok))
  \/ \E id \in DOMAIN directory.nodes, ok \in plan.writes :
       /\ directory.nodes[id].kind = "dir"
       /\ \/ ServerCalls("server-explore", IterGetChild(directory, id, ok))
          \/ \E name \in Names :
               ServerCalls("server-add-dir", IterAddSubdirectory(directory, id, name, ok))
          \* A free name is the caller's duty.
          \/ \E name \in Names :
               /\ IsNameAvailable(IterGetChild(directory, id, ok), id, name)
               /\ ServerCalls("server-add-note", IterAddNote(directory, id, name, ok))

Deliver == \E c \in Clients : ServerReceives(c) \/ BrowserReceives(c) \/ AckSent(c)

Program(c) == Explore(c) \/ Add(c) \/ RemoveNode(c) \/ Subscribe(c) \/ Save(c)
                \/ SubscribeChat(c) \/ Leave(c)

Next ==
  \/ \E c \in Clients : Connect(c) \/ Lose(c) \/ ServerNotices(c) \/ BrowserNotices(c)
                          \/ NoWelcome(c)
  \/ Deliver
  \/ \E c \in Clients : Program(c)
  \/ SaveTimeout \/ ServerProgram

Spec == Init /\ [][Next]_vars

\* There is something to be received, or to be reported as sent.
Deliverable == Running /\ \E c \in Clients : Arrived(c) \/ s2c[c] # <<>> \/ Unsent(c) # {}
------------------------------------------------------------------------------
(* Properties *)

\* A client is settled when its connection is up and nothing is on its way.
Settled(c) ==
  /\ Running /\ link[c] = AllUp /\ B!Connected(browser[c])
  /\ c2s[c] = <<>> /\ s2c[c] = <<>>

Explored(c) == {id \in DOMAIN browser[c].nodes : browser[c].nodes[id].explored}
ServerLooks(id) == {<<i, directory.nodes[i].name, directory.nodes[i].kind = "dir">> :
                      i \in Children(directory.nodes, id)}
BrowserLooks(c, id) == {<<i, browser[c].nodes[i].name, browser[c].nodes[i].kind = "dir">> :
                          i \in Children(browser[c].nodes, id)}

\* A settled client sees every directory that it has explored as it is on the
\* server, and will be told of changes.
TreesAgree == \A c \in Clients : Settled(c) => \A id \in Explored(c) :
  /\ id \in DOMAIN directory.nodes
  /\ c \in directory.nodes[id].connections
  /\ BrowserLooks(c, id) = ServerLooks(id)

Subscriptions(c) == {directory.proxies[p].id : p \in {q \in DOMAIN directory.proxies :
                       c \in directory.proxies[q].subscriptions}}
InState(c, states) ==
  {id \in DOMAIN browser[c].nodes : browser[c].nodes[id].session \in states}
    \cup (IF browser[c].chat \in states THEN {Chat} ELSE {})

\* The session of a node that was removed, which others have yet to acknowledge.
Lingering == {id \in {r.id : r \in ToSet(directory.subreqs)} : id \notin DOMAIN directory.nodes}

\* A settled client is subscribed to exactly the sessions that it uses, and
\* none is waiting to be synchronized.  Only the session of a removed node may
\* keep it for as long as another client has not acknowledged.
SessionsAgree == \A c \in Clients : Settled(c) =>
  /\ InState(c, {"running"}) \subseteq Subscriptions(c)
  /\ Subscriptions(c) \subseteq InState(c, {"running"}) \cup Lingering
  /\ InState(c, {"syncing"}) = {} /\ browser[c].sync_ins = {}

\* A settled client has been answered: no request is pending, and nothing is
\* reserved for it.
AllAnswered == \A c \in Clients : Settled(c) =>
  /\ browser[c].requests = {} /\ browser[c].subreqs = <<>>
  /\ \A i \in DOMAIN directory.subreqs : directory.subreqs[i].connection # c
  /\ \A s \in directory.sync_ins : directory.proxies[s.proxy].source # c

Reservations ==
  {<<"node", i, directory.nodes[i].parent, directory.nodes[i].name>> :
     i \in DOMAIN directory.nodes \ {Root}}
  \cup {<<"sync-in", s.id, s.parent, s.name>> : s \in directory.sync_ins}
  \cup {<<"subreq", r.id, r.parent, r.name>> :
          r \in {x \in ToSet(directory.subreqs) : Reserves(x) /\ x.parent # None}}

UniqueNames == \A x, y \in Reservations : x[3] = y[3] /\ x[4] = y[4] => x = y

OneProxyPerNode == \A p, q \in DOMAIN directory.proxies :
  directory.proxies[p].id = directory.proxies[q].id => p = q

\* No two nodes of a directory have the same name, those included that are
\* only reserved, and the session of a node is in memory only once, however it
\* got there.
NothingTwice == UniqueNames /\ OneProxyPerNode

\* Every node is in the storage, so that it will be found again.
StorageHoldsTree == \A id \in DOMAIN directory.nodes \ {Root} :
  <<Path(directory.nodes, id), directory.nodes[id].kind>> \in directory.storage

\* The save timeout runs only for a session that is in memory and idle, so that
\* no session is dropped that somebody uses.
SaveTimeoutSafe == \A id \in DOMAIN directory.nodes :
  directory.nodes[id].save_timeout =>
    /\ directory.nodes[id].session # None
    /\ IsIdle(directory.proxies[directory.nodes[id].session])

\* "If the connection is not in this node's connection list, then it cannot be
\* in a child's list either", says infd_directory_node_remove_connection.
NoDanglingConnection == \A id \in DOMAIN directory.nodes \ {Root} :
  directory.nodes[id].connections \subseteq
    directory.nodes[directory.nodes[id].parent].connections

Failures == ({directory.failure} \cup {browser[c].failure : c \in Clients}) \ {None}

\* Nothing fails but what is known to.
OnlyKnownFailures == Failures \subseteq
  {"explore of a removed node", "save of a removed node", "reservation without parent",
   "path of an orphaned reservation", "node freed while a chat request waits",
   "sync-in freed twice", "welcome timeout left running"}

\* "The node refered to in a request does not exist in the directory
\* (anymore)", inf-error.h says of an error: the server lives to report it.
NoSuchNodeReported == directory.failure # "explore of a removed node"

\* Every request is answered while the connection lasts.
RequestsAnswered == \A c \in Clients :
  browser[c].requests # {} ~> browser[c].requests = {} \/ ~link[c].open \/ ~Running
================================================================================
