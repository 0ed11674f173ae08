-------------------------------- MODULE Servers --------------------------------
(***************************************************************************)
(* How a daemon is reached: TCP servers (infd-tcp-server.c), the XMPP      *)
(* servers on top of them (infd-xmpp-server.c), the pool they are in       *)
(* (infd-server-pool.c), and the services it publishes through Avahi       *)
(* (the local publisher of inf-discovery-avahi.c).  Status changes are     *)
(* passed on by notifications, from within which programs close servers;   *)
(* sockets, ports and Avahi fail when they like.                           *)
(***************************************************************************)
EXTENDS Integers, Sequences, FiniteSets, SequencesExt, FiniteSetsExt

CONSTANTS Servers, Ports,
          MaxPublishers    \* how often servers are published, all together

VARIABLES listener,  \* the TCP server of each: its status, the port it has or is to have
          xmpp,      \* "none", "CLOSED" or "OPEN"
          pool,      \* entries of servers: whether they are in, and their publishers' items
          published, \* services: identity |-> [port, group, failed]
          publisher, \* the publishers' Avahi client: its state
          others,    \* ports of other programs
          backlog    \* connections that a socket has got and nobody accepted yet

ServersAssumption == Ports \subseteq Nat \ {0} /\ MaxPublishers \in Nat

ServersNow == [tcp |-> listener, xmpp |-> xmpp, pool |-> pool, published |-> published]
ServersBecome(w) ==
  /\ listener' = w.tcp /\ xmpp' = w.xmpp /\ pool' = w.pool /\ published' = w.published
  /\ backlog' = [s \in Servers |-> IF w.tcp[s].status = "OPEN" THEN backlog[s] ELSE 0]

NoEntry == [in |-> FALSE, held |-> FALSE, items |-> <<>>]
ServersInit ==
  /\ listener = [s \in Servers |-> [status |-> "CLOSED", port |-> 0]]
  /\ xmpp = [s \in Servers |-> "none"]
  /\ pool = [s \in Servers |-> NoEntry]
  /\ published = [i \in {} |-> 0] /\ publisher = "connecting"
  /\ others = {} /\ backlog = [s \in Servers |-> 0]

------------------------------------------------------------------------------
(* The publisher: an item has an entry group while the client is running *)

\* A service is given to the daemon, unless it has been.
PublishItem(item) ==
  IF item.group = "none" THEN [item EXCEPT !.group = "registering", !.failed = FALSE] ELSE item
UnpublishItem(item) == [item EXCEPT !.group = "none"]
NextItem(w) == Min({i \in 1 .. 1 + Cardinality(DOMAIN w.published) : i \notin DOMAIN w.published})
Published(w, port) ==
  LET item == [port |-> port, group |-> "none", failed |-> FALSE]
      given == IF publisher = "running" THEN PublishItem(item) ELSE item
  IN  [i \in DOMAIN w.published \cup {NextItem(w)} |->
         IF i \in DOMAIN w.published THEN w.published[i] ELSE given]
Unpublished(w, gone) == [i \in DOMAIN w.published \ gone |-> w.published[i]]

------------------------------------------------------------------------------
(* The pool: every publisher of an entry has an item while the server is open *)

Items(entry) == ToSet(entry.items) \ {0}
PublishWith(w, s, k) ==
  IF w.pool[s].items[k] # 0 THEN w
  ELSE [w EXCEPT !.published = Published(w, w.tcp[s].port), !.pool[s].items[k] = NextItem(w)]
Publish(w, s) ==
  LET upTo[k \in 0 .. Len(w.pool[s].items)] == IF k = 0 THEN w ELSE PublishWith(upTo[k - 1], s, k)
  IN  upTo[Len(w.pool[s].items)]
Unpublish(w, s) ==
  [w EXCEPT !.published = Unpublished(w, Items(w.pool[s])),
            !.pool[s].items = [k \in DOMAIN @ |-> 0]]

\* Mutant: what was published stays when the server closes.
PoolNotify_Opens(w, s) ==
  IF w.pool[s].in /\ w.xmpp[s] = "OPEN" THEN Publish(w, s) ELSE w

\* The pool's handler is called after those of the program, and looks at the status then.
PoolNotify(w, s) ==
  IF ~w.pool[s].in THEN w
  ELSE IF w.xmpp[s] = "OPEN" THEN Publish(w, s) ELSE Unpublish(w, s)
Freed(entry) == [entry EXCEPT !.in = FALSE, !.items = <<>>]
EntriesFree(w, gone) ==
  [w EXCEPT !.published = Unpublished(w, UNION {Items(w.pool[s]) : s \in gone}),
            !.pool = [s \in Servers |-> IF s \in gone THEN Freed(@[s]) ELSE @[s]]]

------------------------------------------------------------------------------
(* The XMPP server: its status follows that of the TCP server *)

XmppStatus(status) == IF status = "OPEN" THEN "OPEN" ELSE "CLOSED"
Notified(w, s) ==
  LET x == XmppStatus(w.tcp[s].status)
  IN  IF w.xmpp[s] \in {"none", x} THEN w ELSE PoolNotify([w EXCEPT !.xmpp[s] = x], s)
CloseListener(w, s) == Notified([w EXCEPT !.tcp[s].status = "CLOSED"], s)

\* The same for a program that closes the server as soon as it is told that it is open:
\* a notification in the middle of one does not interrupt it, but is made after it, so
\* that the pool hears of an open server first.
NotifiedClosing(w, s) ==
  IF w.xmpp[s] = "CLOSED" THEN CloseListener(Notified(w, s), s) ELSE Notified(w, s)

------------------------------------------------------------------------------
(* The TCP server *)

Used(w) == others \cup {w.tcp[s].port : s \in {t \in Servers : w.tcp[t].status # "CLOSED"}}
SetLocalPort(s, p) ==
  /\ listener[s].status = "CLOSED" /\ listener[s].port # p
  /\ listener' = [listener EXCEPT ![s].port = p]
  /\ UNCHANGED <<xmpp, pool, published, publisher, others, backlog>>

\* Without a port, the kernel chooses one, and it stays the server's.
Bound(w, s) ==
  {[w EXCEPT !.tcp[s].status = "BOUND", !.tcp[s].port = p] :
     p \in {q \in Ports \ Used(w) : w.tcp[s].port \in {0, q}}}
Bind(s) ==
  /\ listener[s].status = "CLOSED"
  /\ \E w \in Bound(ServersNow, s) : ServersBecome(Notified(w, s))
  /\ UNCHANGED <<publisher, others>>

\* Listening may fail, after which what was not bound is closed.  Notifications are
\* frozen until the end.
OpenServer(s) ==
  /\ listener[s].status # "OPEN"
  /\ \E w \in (IF listener[s].status = "BOUND" THEN {ServersNow} ELSE Bound(ServersNow, s)),
        listens \in BOOLEAN, closing \in BOOLEAN :
       IF listens
       THEN LET v == [w EXCEPT !.tcp[s].status = "OPEN"]
            IN  ServersBecome(IF closing THEN NotifiedClosing(v, s) ELSE Notified(v, s))
       ELSE ServersBecome(Notified([w EXCEPT !.tcp[s].status = listener[s].status], s))
  /\ UNCHANGED <<publisher, others>>
CloseServer(s) ==
  /\ listener[s].status # "CLOSED" /\ ServersBecome(CloseListener(ServersNow, s))
  /\ UNCHANGED <<publisher, others>>

\* An error of the socket, of accepting, or of a connection that was accepted closes the
\* server.  Otherwise connections are accepted while there are any and the server is not
\* closed by who is told of one; those of the pool are given to the directory.
ServerIo(s) ==
  /\ listener[s].status = "OPEN"
  /\ \E fails \in BOOLEAN, closing \in BOOLEAN :
       /\ fails \/ backlog[s] > 0
       /\ closing => backlog[s] > 0 /\ ~fails
       /\ LET w == IF fails \/ closing THEN CloseListener(ServersNow, s) ELSE ServersNow
          IN  /\ listener' = w.tcp /\ xmpp' = w.xmpp /\ pool' = w.pool /\ published' = w.published
              /\ backlog' = [backlog EXCEPT ![s] = 0]
  /\ UNCHANGED <<publisher, others>>

------------------------------------------------------------------------------
(* What a program does with them *)

CreateXmpp(s) ==
  /\ xmpp[s] = "none" /\ xmpp' = [xmpp EXCEPT ![s] = XmppStatus(listener[s].status)]
  /\ UNCHANGED <<listener, pool, published, publisher, others, backlog>>

\* The last reference is dropped: the TCP server is closed with it.  The pool never drops
\* the one it took.
DisposeXmpp(s) ==
  /\ xmpp[s] # "none" /\ ~pool[s].held
  /\ LET w == IF listener[s].status # "CLOSED" THEN CloseListener(ServersNow, s) ELSE ServersNow
     IN  ServersBecome([w EXCEPT !.xmpp[s] = "none"])
  /\ UNCHANGED <<publisher, others>>

AddServer(s) ==
  /\ xmpp[s] # "none" /\ ~pool[s].in
  /\ pool' = [pool EXCEPT ![s] = [in |-> TRUE, held |-> TRUE, items |-> <<>>]]
  /\ UNCHANGED <<listener, xmpp, published, publisher, others, backlog>>
Publishers == FoldSet(LAMBDA t, n : n + Len(pool[t].items), 0, Servers)
AddLocalPublisher(s) ==
  /\ pool[s].in /\ Publishers < MaxPublishers
  /\ LET w == [ServersNow EXCEPT !.pool[s].items = <<0>> \o @]
     IN  ServersBecome(IF xmpp[s] = "OPEN" THEN PublishWith(w, s, 1) ELSE w)
  /\ UNCHANGED <<publisher, others>>
RemoveServer(s) ==
  /\ pool[s].in /\ ServersBecome(EntriesFree(ServersNow, {s}))
  /\ UNCHANGED <<publisher, others>>
DisposePool ==
  /\ \E s \in Servers : pool[s].in
  /\ ServersBecome(EntriesFree(ServersNow, {s \in Servers : pool[s].in}))
  /\ UNCHANGED <<publisher, others>>

\* As infinoted does it: bound, and published when it will be open.
CreateServer(s) ==
  /\ listener[s].status = "CLOSED" /\ xmpp[s] = "none" /\ ~pool[s].in
  /\ \E w \in Bound(ServersNow, s) :
       ServersBecome([w EXCEPT !.xmpp[s] = "CLOSED",
                               !.pool[s] = [in |-> TRUE, held |-> TRUE, items |-> <<0>>]])
  /\ UNCHANGED <<publisher, others>>

------------------------------------------------------------------------------
(* The network and the Avahi daemon *)

OtherPorts(p) ==
  /\ p \notin Used(ServersNow) \ others
  /\ others' = IF p \in others THEN {} ELSE {p}
  /\ UNCHANGED <<listener, xmpp, pool, published, publisher, backlog>>
Arrive(s) ==
  /\ listener[s].status = "OPEN" /\ backlog[s] = 0 /\ backlog' = [backlog EXCEPT ![s] = 1]
  /\ UNCHANGED <<listener, xmpp, pool, published, publisher, others>>

\* Running, the client publishes everything; failing, it withdraws everything, and a new
\* one is made or not.
PublishAll == published' = [i \in DOMAIN published |-> PublishItem(published[i])]
UnpublishAll == published' = [i \in DOMAIN published |-> UnpublishItem(published[i])]
PublisherRuns ==
  /\ publisher \in {"connecting", "registering"} /\ publisher' = "running" /\ PublishAll
  /\ UNCHANGED <<listener, xmpp, pool, others, backlog>>
PublisherRegisters ==
  /\ publisher = "running" /\ publisher' = "registering"
  /\ UNCHANGED <<listener, xmpp, pool, published, others, backlog>>
PublisherFails ==
  /\ publisher # "disconnected" /\ publisher' \in {"connecting", "disconnected"} /\ UnpublishAll
  /\ UNCHANGED <<listener, xmpp, pool, others, backlog>>

\* What the daemon tells of a group, also later: established, a collision, after which it
\* is registered under another name, or a failure.
EntryGroup(i) ==
  /\ published[i].group # "none"
  /\ \E item \in {[published[i] EXCEPT !.group = "established"],
                   [published[i] EXCEPT !.group = "registering"],
                   [UnpublishItem(published[i]) EXCEPT !.failed = TRUE]} :
       published' = [published EXCEPT ![i] = item]
  /\ UNCHANGED <<listener, xmpp, pool, publisher, others, backlog>>

ServersNext ==
  \/ DisposePool \/ PublisherRuns \/ PublisherRegisters \/ PublisherFails
  \/ \E i \in DOMAIN published : EntryGroup(i)
  \/ \E p \in Ports : OtherPorts(p) \/ \E s \in Servers : SetLocalPort(s, p)
  \/ \E s \in Servers :
       \/ Bind(s) \/ OpenServer(s) \/ CloseServer(s) \/ ServerIo(s) \/ Arrive(s)
       \/ CreateXmpp(s) \/ DisposeXmpp(s) \/ AddServer(s) \/ AddLocalPublisher(s)
       \/ RemoveServer(s) \/ CreateServer(s)
servers == <<listener, xmpp, pool, published, publisher, others, backlog>>
ServersSpec == ServersInit /\ [][ServersNext]_servers

------------------------------------------------------------------------------
(* Properties *)

\* What is published is what can be reached: an open server of the pool has one service
\* with every publisher, at the port it listens at, and nothing else is published,
\* however servers are opened, closed from within notifications, moved to other ports,
\* added and removed, and whenever the daemon comes and goes.
PublishedExact ==
  /\ \A s \in Servers :
       /\ Items(pool[s]) = {} \/ (pool[s].in /\ xmpp[s] = "OPEN" /\ listener[s].status = "OPEN")
       /\ pool[s].in /\ xmpp[s] = "OPEN" =>
            /\ 0 \notin ToSet(pool[s].items) /\ IsInjective(pool[s].items)
            /\ \A i \in Items(pool[s]) : published[i].port = listener[s].port /\ listener[s].port # 0
       /\ \A t \in Servers \ {s} : Items(pool[s]) \cap Items(pool[t]) = {}
  /\ DOMAIN published = UNION {Items(pool[s]) : s \in Servers}

\* While the daemon runs, it has every service but those it failed with; when it is gone,
\* nothing is thought to be there.
AnnouncedExact ==
  /\ publisher = "running" =>
       \A i \in DOMAIN published : published[i].group # "none" \/ published[i].failed
  /\ publisher \in {"connecting", "disconnected"} =>
       \A i \in DOMAIN published : published[i].group = "none"

\* An XMPP server is open when its TCP server is.
StatusFollows ==
  \A s \in Servers : xmpp[s] \in {"none", XmppStatus(listener[s].status)}
ServersExact == PublishedExact /\ AnnouncedExact /\ StatusFollows
==============================================================================
