---------------------------- MODULE InfdSessionProxy ----------------------------
(***************************************************************************)
(* The server's side of a running session: its users, its subscriptions,   *)
(* the synchronisations that bring a new subscriber up to date, and the    *)
(* queue through which everything reaches a client.  A message that still  *)
(* waits in the queue can be cancelled; when the connection reports that   *)
(* what it was given is sent, it is given the next bunch.                  *)
(* (inf-session.c, infd-session-proxy.c; inf-communication-registry.c)     *)
(***************************************************************************)
EXTENDS Integers, SequencesExt, FiniteSetsExt

CONSTANTS Clients,          \* the connections
          InnerQueueLimit,  \* messages given to a connection at a time
          None

ProxyAssumption == InnerQueueLimit \in Nat \ {0} /\ None \notin Clients

NoEntry == [registered |-> FALSE, queue |-> <<>>, inner |-> 0]

\* A session, in which the given names were used before.
NewSession(names) ==
  [open    |-> TRUE,
   users   |-> [i \in DOMAIN names |-> [name |-> names[i], status |-> "unavailable", by |-> None]],
   subs    |-> [c \in Clients |-> None],   \* the users that joined from a subscribed client
   sync    |-> [c \in Clients |-> "none"],
   entry   |-> [c \in Clients |-> NoEntry],
   conn    |-> [c \in Clients |-> <<>>],   \* given to the connection, not sent yet
   failure |-> None]

\* An assertion fails: the first one counts.
Fail(s, what) == IF s.failure = None THEN [s EXCEPT !.failure = what] ELSE s

Message(type) == [type |-> type]
UserProps(s, u) == [id |-> u, name |-> s.users[u].name, status |-> s.users[u].status]
UserMessage(s, type, u, seq) == UserProps(s, u) @@ [type |-> type, seq |-> seq]
StatusMessage(u, status) == [type |-> "user-status-change", id |-> u, status |-> status]

Available(s, u) == s.users[u].status # "unavailable"
UsersOf(s, c) == IF s.subs[c] = None THEN {} ELSE s.subs[c]

------------------------------------------------------------------------------
(* The queue of a client *)

\* The next bunch is given to the connection, and can no longer be cancelled.
SendReal(s, c) ==
  LET queue == s.entry[c].queue
      n == IF Len(queue) < InnerQueueLimit THEN Len(queue) ELSE InnerQueueLimit
      bunch == SubSeq(queue, 1, n)
      given == [s EXCEPT !.entry[c].queue = SubSeq(queue, n + 1, Len(queue)),
                         !.entry[c].inner = n, !.conn[c] = @ \o bunch]
  IN  IF ~Contains(bunch, Message("sync-end")) THEN given
      ELSE IF s.sync[c] = "in-progress" THEN [given EXCEPT !.sync[c] = "awaiting-ack"]
      ELSE Fail(given, "end of no synchronisation")

Send(s, c, m) ==
  IF ~s.entry[c].registered THEN Fail(s, "send to no member")
  ELSE LET e == [s EXCEPT !.entry[c].queue = Append(@, m)]
       IN  IF e.entry[c].inner = 0 THEN SendReal(e, c) ELSE e

CancelMessages(s, c) ==
  IF ~s.entry[c].registered THEN Fail(s, "cancel for no member")
  ELSE [s EXCEPT !.entry[c].queue = <<>>]

\* Mutant: the rest of the queue is not sent on.
SentAndIdle(s, c) == [s EXCEPT !.conn[c] = <<>>, !.entry[c].inner = 0]

\* What the connection was given is sent.
Sent(s, c) ==
  LET e == [s EXCEPT !.conn[c] = <<>>, !.entry[c].inner = 0]
  IN  IF e.entry[c].queue = <<>> THEN e ELSE SendReal(e, c)

\* Mutant: those that are still being synchronised are left out.
SynchronizedMembers(s) == {c \in Clients : s.entry[c].registered /\ s.sync[c] = "none"}

Members(s) == {c \in Clients : s.entry[c].registered}
SendToAll(s, receivers, m) == FoldLeft(LAMBDA e, c : Send(e, c, m), s, SetToSeq(receivers))

------------------------------------------------------------------------------
(* Subscriptions *)

\* The users of a connection that is not subscribed any more.
RemoveSubscription(s, c) ==
  [s EXCEPT !.subs[c] = None,
            !.users = [u \in DOMAIN @ |-> IF u \in UsersOf(s, c)
                                          THEN [@[u] EXCEPT !.status = "unavailable", !.by = None]
                                          ELSE @[u]]]

\* The connection leaves the group, which is told to the others.
RemoveMember(s, c) ==
  LET left == [s EXCEPT !.entry[c].registered = FALSE]
      told == FoldLeft(LAMBDA e, u : SendToAll(e, Members(e), StatusMessage(u, "unavailable")),
                       left, SetToSeq(UsersOf(s, c)))
  IN  IF s.subs[c] = None THEN Fail(s, "no subscription") ELSE RemoveSubscription(told, c)

\* Everything there is goes out to a connection, counted first.
SynchronizationBegin(s, c) ==
  LET users == [u \in DOMAIN s.users |-> UserMessage(s, "sync-user", u, None)]
      sync == <<[type |-> "sync-begin", num |-> Len(users)]>> \o users \o <<Message("sync-end")>>
  IN  FoldLeft(LAMBDA e, m : Send(e, c, m), [s EXCEPT !.sync[c] = "in-progress"], sync)

SubscribeTo(s, c) ==
  IF s.entry[c].registered \/ s.sync[c] # "none" THEN Fail(s, "subscribed already")
  ELSE SynchronizationBegin([s EXCEPT !.entry[c].registered = TRUE, !.subs[c] = {}], c)

\* However a synchronisation ends, the session forgets the connection.
ReleaseConnection(s, c) == [s EXCEPT !.sync[c] = "none"]
SynchronizationComplete(s, c) == ReleaseConnection(s, c)

\* Mutant: a client whose synchronisation failed stays in the group.
StillMember(s, c) == [s EXCEPT !.sync[c] = "none"]

\* A subscriber that could not be synchronised leaves the group.
SynchronizationFailed(s, c) ==
  ReleaseConnection(IF s.subs[c] = None THEN s ELSE RemoveMember(s, c), c)

\* The connection is closed: nothing can be sent any more.
ConnectionClosed(s, c) ==
  LET left == IF s.entry[c].registered THEN RemoveMember(s, c) ELSE s
  IN  [left EXCEPT !.entry[c] = NoEntry, !.conn[c] = <<>>, !.sync[c] = "none"]

\* The session is closed. The subscribers leave the group first; then the
\* synchronisations that can be cancelled are cancelled, and what still waits
\* for the others goes out with the group.
CloseSession(s) ==
  LET subscribed == {c \in Clients : s.subs[c] # None}
      told == SendToAll(s, {c \in subscribed : s.sync[c] # "in-progress"}, Message("session-close"))
      left == FoldLeft(LAMBDA e, c : RemoveSubscription([e EXCEPT !.entry[c].registered = FALSE], c),
                       told, SetToSeq(subscribed))
      cancelled == FoldLeft(LAMBDA e, c : Send(CancelMessages(e, c), c, Message("sync-cancel")), left,
                            SetToSeq({c \in Clients : s.sync[c] = "in-progress"}))
  IN  [cancelled EXCEPT !.open = FALSE, !.sync = [c \in Clients |-> "none"],
         !.conn = [c \in Clients |-> @[c] \o cancelled.entry[c].queue],
         !.entry = [c \in Clients |-> NoEntry]]

------------------------------------------------------------------------------
(* Messages of a client *)

Named(s, name) == {u \in DOMAIN s.users : s.users[u].name = name}

MakeSeq(c, m) == [client |-> c, number |-> m.seq]

\* A user joins, or comes back under its old number, unless it is there.
PerformUserJoin(s, c, seq, m) ==
  LET known == Named(s, m.name)
      u == IF known = {} THEN Len(s.users) + 1 ELSE CHOOSE v \in known : TRUE
      user == [name |-> m.name, status |-> "active", by |-> c]
      joined == [s EXCEPT !.users = IF known = {} THEN Append(@, user) ELSE [@ EXCEPT ![u] = user],
                          !.subs[c] = @ \cup {u}]
      type == IF known = {} THEN "user-join" ELSE "user-rejoin"
  IN  IF \E v \in known : Available(s, v)
      THEN Send(s, c, [type |-> "request-failed", seq |-> seq])
      ELSE SendToAll(joined, Members(joined), UserMessage(joined, type, u, seq))

HandleUserJoin(s, c, m) == PerformUserJoin(s, c, MakeSeq(c, m), m)

\* The status of a user that joined from here; the others are told.
HandleUserStatusChange(s, c, m) ==
  IF ~(m.id \in DOMAIN s.users /\ Available(s, m.id) /\ s.users[m.id].by = c) THEN s
  ELSE LET gone == m.status = "unavailable"
           e == [s EXCEPT !.users[m.id].status = m.status,
                          !.users[m.id].by = IF gone THEN None ELSE c,
                          !.subs[c] = IF gone THEN @ \ {m.id} ELSE @]
       IN  SendToAll(e, Members(e) \ {c}, m)

\* During a synchronisation only its acknowledgement or its failure is expected.
ReceiveSynchronizing(s, c, m) ==
  CASE m.type = "sync-error" -> SynchronizationFailed(CancelMessages(s, c), c)
    [] m.type = "sync-ack" /\ s.sync[c] = "awaiting-ack" -> SynchronizationComplete(s, c)
    [] OTHER -> s

\* The registry does not pass on messages of connections that are no members.
ServerReceive(s, c, m) ==
  CASE ~s.entry[c].registered -> s
    [] s.entry[c].registered /\ s.sync[c] # "none" -> ReceiveSynchronizing(s, c, m)
    [] s.entry[c].registered /\ s.sync[c] = "none" ->
         CASE m.type = "user-join" -> HandleUserJoin(s, c, m)
           [] m.type = "user-status-change" -> HandleUserStatusChange(s, c, m)
           [] m.type = "session-unsubscribe" -> RemoveMember(s, c)
           [] OTHER -> s
==============================================================================
