---------------------------- MODULE InfcSessionProxy ----------------------------
(***************************************************************************)
(* The client's side of a session: it is synchronised, follows what the    *)
(* server tells it of the users, and asks to let its own users join.       *)
(* (inf-session.c, infc-session-proxy.c, infc-request-manager.c)           *)
(***************************************************************************)
EXTENDS Integers, SequencesExt

CONSTANT None

NewClient ==
  [phase    |-> "none",   \* none, asked, synchronizing or running
   total    |-> 0,        \* messages of the synchronisation, 0 before it begins
   received |-> 0,
   users    |-> <<>>,     \* by number: name, status, and whether it is a local one
   requests |-> {},       \* numbers of the user joins that wait for an answer
   seq      |-> 0,
   error    |-> None,     \* history: the first message that could not be handled
   out      |-> <<>>]

Reply(k, m) == [k EXCEPT !.out = Append(@, m)]
Unexpected(k, what) == IF k.error = None THEN [k EXCEPT !.error = what] ELSE k
Released(k) == [NewClient EXCEPT !.error = k.error, !.out = k.out]

HasUser(k, id) == id \in DOMAIN k.users
NameUsed(k, name) == \E v \in DOMAIN k.users : k.users[v].name = name
UserProps(m, mine) == [name |-> m.name, status |-> m.status, mine |-> mine]
WithUser(k, m, mine) ==
  [k EXCEPT !.users = [v \in DOMAIN @ \cup {m.id} |->
    IF v = m.id THEN UserProps(m, mine) ELSE @[v]]]

------------------------------------------------------------------------------
(* Subscribing and leaving *)

\* The session is there and waits to be synchronised.
Subscribed(k) == Reply([Released(k) EXCEPT !.phase = "synchronizing"], [type |-> "subscribe-ack"])

\* A synchronisation is cancelled, a running session unsubscribed from.
Close(k) ==
  LET type == IF k.phase = "synchronizing" THEN "sync-error" ELSE "session-unsubscribe"
  IN  Reply(Released(k), [type |-> type])

------------------------------------------------------------------------------
(* Synchronisation *)

SynchronizationFailed(k) == Close(k)
SynchronizationError(k, what) == SynchronizationFailed(Unexpected(k, what))

HandleSyncBegin(k, m) ==
  IF k.total > 0 THEN SynchronizationError(k, "second sync-begin")
  ELSE [k EXCEPT !.total = 2 + m.num, !.received = 1]

SynchronizationComplete(k) == [k EXCEPT !.phase = "running"]

HandleSyncEnd(k) ==
  IF k.received + 1 # k.total THEN SynchronizationError(k, "early sync-end")
  ELSE Reply(SynchronizationComplete(k), [type |-> "sync-ack"])

HandleSyncMessage(k, m) ==
  CASE k.received = 0 -> SynchronizationError(k, "no sync-begin yet")
    [] k.received > 0 /\ k.received = k.total - 1 -> SynchronizationError(k, "late sync message")
    [] k.received > 0 /\ k.received # k.total - 1 ->
         IF m.type # "sync-user" \/ HasUser(k, m.id) \/ NameUsed(k, m.name)
         THEN SynchronizationError(k, "bad sync message")
         ELSE [WithUser(k, m, FALSE) EXCEPT !.received = @ + 1]

ReceiveSynchronizing(k, m) ==
  CASE m.type = "sync-cancel" -> Released(k)
    [] m.type = "sync-begin" -> HandleSyncBegin(k, m)
    [] m.type = "sync-end" -> HandleSyncEnd(k)
    [] OTHER -> HandleSyncMessage(k, m)

------------------------------------------------------------------------------
(* Users *)

JoinUser(k, name) ==
  Reply([k EXCEPT !.requests = @ \cup {k.seq}, !.seq = @ + 1],
        [type |-> "user-join", name |-> name, seq |-> k.seq])

SetUserStatus(k, u, status) ==
  Reply([k EXCEPT !.users[u].status = status],
        [type |-> "user-status-change", id |-> u, status |-> status])

\* The request of client c that a message answers, if any.
Answered(k, c, m) == IF m.seq.client = c THEN k.requests \cap {m.seq.number} ELSE {}
Finished(k, c, m) == [k EXCEPT !.requests = @ \ Answered(k, c, m)]

HandleUserJoin(k, c, m) ==
  LET mine == Answered(k, c, m) # {}
  IN  IF HasUser(k, m.id) \/ NameUsed(k, m.name) THEN Unexpected(Finished(k, c, m), "user-join")
      ELSE WithUser(Finished(k, c, m), m, mine)

HandleUserRejoin(k, c, m) ==
  LET mine == Answered(k, c, m) # {}
  IN  IF ~HasUser(k, m.id) THEN Unexpected(Finished(k, c, m), "user-rejoin")
      ELSE WithUser(Finished(k, c, m), m, mine)

HandleRequestFailed(k, c, m) ==
  IF Answered(k, c, m) = {} THEN Unexpected(k, "request-failed") ELSE Finished(k, c, m)

\* The session can be used again with another server.
HandleSessionClose(k) == Released(k)

HandleUserStatusChange(k, m) ==
  IF HasUser(k, m.id) /\ k.users[m.id].status # "unavailable"
  THEN [k EXCEPT !.users[m.id].status = m.status]
  ELSE Unexpected(k, "user-status-change")

ReceiveRunning(k, c, m) ==
  CASE m.type = "user-join" -> HandleUserJoin(k, c, m)
    [] m.type = "user-rejoin" -> HandleUserRejoin(k, c, m)
    [] m.type = "request-failed" -> HandleRequestFailed(k, c, m)
    [] m.type = "user-status-change" -> HandleUserStatusChange(k, m)
    [] m.type = "session-close" -> HandleSessionClose(k)
    [] OTHER -> Unexpected(k, m.type)

\* A message for a group the client is not in is not passed on.
ClientReceive(k, c, m) ==
  CASE m.type = "subscribe" -> IF k.phase = "asked" THEN Subscribed(k) ELSE k
    [] m.type # "subscribe" /\ k.phase = "synchronizing" -> ReceiveSynchronizing(k, m)
    [] m.type # "subscribe" /\ k.phase = "running" -> ReceiveRunning(k, c, m)
    [] OTHER -> k
==============================================================================
