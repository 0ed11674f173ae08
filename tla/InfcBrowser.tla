------------------------------ MODULE InfcBrowser ------------------------------
(***************************************************************************)
(* InfcBrowser: a client's view of the server's directory.  The browser is *)
(* a record; the program's calls, the messages of the server and the       *)
(* connection's reports map it to the record they leave behind, whose      *)
(* "out" is what was sent, in order.                                       *)
(*                                                                         *)
(* A session is "syncing" while the server synchronizes it, "running", or  *)
(* "dead" after the server has closed it: then it stays until the program  *)
(* closes it.                                                              *)
(***************************************************************************)
EXTENDS DirectoryTree

NewNode(parent, name, kind) ==
  [parent |-> parent, name |-> name, kind |-> kind, explored |-> FALSE, session |-> "none"]
NewRoot == [i \in {Root} |-> NewNode(None, None, "dir")]

\* plugin: it has a plugin for the type of the notes.
NewBrowser(plugin) ==
  [plugin |-> plugin, status |-> "disconnected", group |-> FALSE, welcome_timeout |-> FALSE,
   seq_id |-> 0, next_seq |-> 0, requests |-> {}, nodes |-> NewRoot,
   subreqs |-> <<>>, sync_ins |-> {}, chat |-> "none", failure |-> None, out |-> <<>>]

Send(b, m) == [b EXCEPT !.out = Append(@, m)]

------------------------------------------------------------------------------
(* The request manager *)

\* The request that a reply answers: its number is one of ours, and it has the
\* name that is expected, if any.
RequestOf(b, name, m) ==
  IF m.seq = None \/ m.seq[1] # b.seq_id THEN {}
  ELSE {r \in b.requests : r.seq = m.seq[2] /\ name \in {None, r.name}}

SeqOfRequest(requests) == IF requests = {} THEN None ELSE (CHOOSE r \in requests : TRUE).seq

\* A request is finished, or fails: either way it is removed.
Removed(b, requests) == [b EXCEPT !.requests = @ \ requests]
RemovedSeq(b, seqs) == [b EXCEPT !.requests = {r \in @ : r.seq \notin seqs}]

\* A reply that cannot be processed lets its request fail.
Unprocessed(b, m) == Removed(b, RequestOf(b, None, m))

AddRequest(b, name, id, m) ==
  Send([b EXCEPT !.next_seq = @ + 1,
                 !.requests = @ \cup {[seq |-> b.next_seq, name |-> name, node_id |-> id,
                                       total |-> 0, current |-> 0,
                                       sync_in |-> "sync_in" \in DOMAIN m /\ m.sync_in]}],
       m @@ [seq |-> b.next_seq])

Pending(b, name, id) == \E r \in b.requests : r.name = name /\ r.node_id = id

------------------------------------------------------------------------------
(* Nodes, and the sessions that end with them *)

\* The last reference to a session goes: the server is told, unless it has
\* closed the session itself.
DropSession(b, id, session) ==
  CASE session = "running" -> Send(b, [type |-> "session-unsubscribe", id |-> id])
    [] session = "syncing" -> Send(b, [type |-> "sync-error", id |-> id])
    [] OTHER -> b

\* The requests that wait for their acknowledgement to be sent lose the node
\* that they are about, and fail.
Bereft(subreqs, gone) ==
  [i \in DOMAIN subreqs |-> IF subreqs[i].node \in gone
     THEN [subreqs[i] EXCEPT !.node = None, !.request = None] ELSE subreqs[i]]
BereftRequests(subreqs, gone) ==
  {subreqs[i].request : i \in {j \in DOMAIN subreqs : subreqs[j].node \in gone}}

\* A node is freed, with all that is below it.  (The loop over the waiting
\* requests has no case for one for the chat.)
NodeFree(b, id) ==
  LET gone == Subtree(b.nodes, id)
      dropped == FoldSet(LAMBDA i, e : DropSession(e, i, b.nodes[i].session), b, gone)
  IN  IF \E i \in DOMAIN b.subreqs : b.subreqs[i].type = "chat"
      THEN Fail(b, "node freed while a chat request waits")
      ELSE RemovedSeq([dropped EXCEPT
             !.nodes = Without(@, gone),
             !.sync_ins = @ \ gone,
             !.subreqs = Bereft(@, gone)], BereftRequests(b.subreqs, gone))

\* The node that a message names, if it is there.
HasNode(b, id) == id \in DOMAIN b.nodes

KindOf(b, m) ==
  CASE m.kind = "dir" -> "dir" [] b.plugin -> "known" [] OTHER -> "unknown"

AddedNode(b, m) ==
  [b EXCEPT !.nodes = With(@, m.id, NewNode(m.parent, m.name, KindOf(b, m)))]

\* Requests that will create a node once their acknowledgement is sent.
Creates(r, id) == r.type \in {"add-node", "sync-in"} /\ r.id = id
Exists(b, id) == id \in DOMAIN b.nodes \/ \E i \in DOMAIN b.subreqs : Creates(b.subreqs[i], id)

\* A request waits for its acknowledgement to be sent.
Subreq(type, id, node, name, requests, subscribe) ==
  [type |-> type, id |-> id, node |-> node, name |-> name,
   request |-> SeqOfRequest(requests), subscribe |-> subscribe]
RemoveSubreq(b, i) == [b EXCEPT !.subreqs = RemoveAt(@, i)]

Acknowledge(b, r) ==
  Send([b EXCEPT !.subreqs = <<r>> \o @], [type |-> "subscribe-ack", id |-> r.id, sent |-> FALSE])
Decline(b, id) == Send(b, [type |-> "subscribe-nack", id |-> id])

------------------------------------------------------------------------------
(* What the program may do *)

Connected(b) == b.status = "connected"
OwnSession(b, id) == IF id = Chat THEN b.chat ELSE b.nodes[id].session

Explore(b, id) ==
  AddRequest(b, "explore-node", id, [type |-> "explore-node", id |-> id])
MayExplore(b, id) ==
  /\ Connected(b) /\ id \in DOMAIN b.nodes /\ b.nodes[id].kind = "dir"
  /\ ~b.nodes[id].explored /\ ~Pending(b, "explore-node", id)

Add(b, parent, name, kind, subscribe, sync_in) ==
  AddRequest(b, "add-node", parent,
             [type |-> "add-node", parent |-> parent, name |-> name, kind |-> kind,
              subscribe |-> subscribe, sync_in |-> sync_in])
MayAdd(b, parent) ==
  Connected(b) /\ parent \in DOMAIN b.nodes /\ b.nodes[parent].explored

RemoveNode(b, id) == AddRequest(b, "remove-node", id, [type |-> "remove-node", id |-> id])
MayRemove(b, id) == Connected(b) /\ id \in DOMAIN b.nodes \ {Root}

Subscribe(b, id) ==
  AddRequest(b, "subscribe-session", id, [type |-> "subscribe-session", id |-> id])
MaySubscribe(b, id) ==
  /\ Connected(b) /\ id \in DOMAIN b.nodes /\ b.nodes[id].kind = "known"
  /\ b.nodes[id].session = "none" /\ ~Pending(b, "subscribe-session", id)

Save(b, id) == AddRequest(b, "save-session", id, [type |-> "save-session", id |-> id])
MaySave(b, id) == Connected(b) /\ id \in DOMAIN b.nodes /\ b.nodes[id].kind = "known"

SubscribeChat(b) == AddRequest(b, "subscribe-chat", Chat, [type |-> "subscribe-chat"])
MaySubscribeChat(b) == Connected(b) /\ b.chat = "none" /\ ~Pending(b, "subscribe-chat", Chat)

\* What is synchronized to the server, from its acknowledgement to its end.  If
\* it fails, the handler removes the node, which removes the synchronization,
\* and then removes it once more.
AddSyncIn(b, id) == [b EXCEPT !.sync_ins = @ \cup {id}]
RemoveSyncIn(b, id) == [b EXCEPT !.sync_ins = @ \ {id}]
SyncInComplete(b, id) == RemoveSyncIn(b, id)
SyncInFailed(b, id) == Fail(b, "sync-in freed twice")

\* The program closes a session, which ends its synchronization, too.
RemoveSession(b, id) == [b EXCEPT !.nodes[id].session = "none"]
Leave(b, id) ==
  LET told == DropSession(b, id, OwnSession(b, id))
  IN  IF id \in b.sync_ins THEN SyncInFailed(b, id)
      ELSE IF id = Chat THEN [told EXCEPT !.chat = "none"]
      ELSE RemoveSession(told, id)
MayLeave(b, id) ==
  (id = Chat \/ id \in DOMAIN b.nodes) /\ OwnSession(b, id) # "none"

------------------------------------------------------------------------------
(* What the server says *)

HandleWelcome(b, m) ==
  IF b.status # "connecting" THEN b
  ELSE [b EXCEPT !.status = "connected", !.welcome_timeout = FALSE, !.seq_id = m.seq_id,
                 !.next_seq = 0]

HandleRequestFailed(b, m) == Removed(b, RequestOf(b, None, m))

HandleExploreBegin(b, m) ==
  LET requests == RequestOf(b, "explore-node", m)
      r == CHOOSE x \in requests : TRUE
  IN  IF requests = {} \/ r.node_id \notin DOMAIN b.nodes \/ b.nodes[r.node_id].explored
      THEN Unprocessed(b, m)
      ELSE [b EXCEPT !.nodes[r.node_id].explored = TRUE,
                     !.requests = (@ \ {r}) \cup {[r EXCEPT !.total = m.total]}]

\* The request goes, whether or not children are missing.
HandleExploreEnd(b, m) == Removed(b, RequestOf(b, "explore-node", m))

\* An exploration counts the nodes; another request is finished.
Progress(b, requests) ==
  IF requests = {} THEN b
  ELSE LET r == CHOOSE x \in requests : TRUE
       IN  IF r.name = "explore-node" /\ r.current < r.total
           THEN [b EXCEPT !.requests = (@ \ {r}) \cup {[r EXCEPT !.current = @ + 1]}]
           ELSE Removed(b, requests)

\* An exploration or an addition: no other request is answered thus.
AddNodeRequest(b, m) == RequestOf(b, None, m)

HandleAddNode(b, m) ==
  LET requests == AddNodeRequest(b, m)
      exploring == \E r \in requests : r.name = "explore-node"
  IN  IF Exists(b, m.id) \/ ~HasNode(b, m.parent) THEN Unprocessed(b, m)
      ELSE IF ~b.nodes[m.parent].explored THEN Fail(b, "child of an unexplored node")
      ELSE IF m.kind = "dir" \/ ~m.subscribe THEN Progress(AddedNode(b, m), requests)
      ELSE IF exploring THEN Unprocessed(b, m)
      ELSE IF ~b.plugin THEN Unprocessed(Decline(b, m.id), m)
      ELSE Acknowledge(b, Subreq("add-node", m.id, m.parent, m.name, requests, TRUE))

\* Only a request that has brought a session along can be answered thus.
HandleSyncIn(b, m) ==
  LET requests == RequestOf(b, "add-node", m)
  IN  IF Exists(b, m.id) \/ ~HasNode(b, m.parent) \/ (\A r \in requests : ~r.sync_in)
      THEN Unprocessed(b, m)
      ELSE Acknowledge(b, Subreq("sync-in", m.id, m.parent, m.name, requests, m.subscribe))

HandleRemoveNode(b, m) ==
  IF ~HasNode(b, m.id) THEN Unprocessed(b, m)
  ELSE NodeFree(Removed(b, RequestOf(b, "remove-node", m)), m.id)

HandleSubscribeSession(b, m) ==
  LET requests == RequestOf(b, "subscribe-session", m)
  IN  IF ~HasNode(b, m.id) THEN Unprocessed(b, m)
      ELSE IF b.nodes[m.id].kind # "known" THEN Unprocessed(Decline(b, m.id), m)
      ELSE IF b.nodes[m.id].session # "none" THEN Unprocessed(b, m)
      ELSE IF requests = {} THEN Fail(b, "subscribed without a request")
      ELSE Acknowledge(b, Subreq("session", m.id, m.id, None, requests, TRUE))

HandleSubscribeChat(b, m) ==
  IF b.chat # "none" THEN Unprocessed(b, m)
  ELSE Acknowledge(b, Subreq("chat", Chat, None, None, RequestOf(b, "subscribe-chat", m), TRUE))

\* The messages of a session, which are not for the browser itself.
SetSession(b, id, session) ==
  IF id = Chat THEN [b EXCEPT !.chat = session] ELSE [b EXCEPT !.nodes[id].session = session]

HandleSession(b, m) ==
  LET known == m.id = Chat \/ m.id \in DOMAIN b.nodes
  IN  IF m.id \in b.sync_ins
      THEN IF m.type = "sync-ack" THEN SyncInComplete(b, m.id) ELSE SyncInFailed(b, m.id)
      ELSE IF ~known \/ OwnSession(b, m.id) \notin {"syncing", "running"} THEN b
      ELSE IF m.type = "sync"
      THEN Send(SetSession(b, m.id, "running"), [type |-> "sync-ack", id |-> m.id])
      ELSE SetSession(b, m.id, "dead")

\* received, by the name of the message.  There is no case for "session-saved".
BrowserReceive(b, m) ==
  CASE m.type = "welcome" -> HandleWelcome(b, m)
    [] m.type = "request-failed" -> HandleRequestFailed(b, m)
    [] m.type = "explore-begin" -> HandleExploreBegin(b, m)
    [] m.type = "explore-end" -> HandleExploreEnd(b, m)
    [] m.type = "add-node" -> HandleAddNode(b, m)
    [] m.type = "sync-in" -> HandleSyncIn(b, m)
    [] m.type = "remove-node" -> HandleRemoveNode(b, m)
    [] m.type = "subscribe-session" -> HandleSubscribeSession(b, m)
    [] m.type = "subscribe-chat" -> HandleSubscribeChat(b, m)
    [] m.type = "session-saved" -> Unprocessed(b, m)
    [] m.type \in {"sync", "sync-ack", "sync-error", "session-close"} -> HandleSession(b, m)

------------------------------------------------------------------------------
(* An acknowledgement has been sent: the session is used from now on *)

StartSession(b, id, initial_sync) ==
  SetSession(b, id, IF initial_sync THEN "syncing" ELSE "running")

SentSession(b, r) ==
  IF OwnSession(b, r.id) # "none" THEN Fail(b, "session exists already")
  ELSE StartSession(b, r.id, TRUE)

\* The note that was added exists from now on.
Created(b, r) ==
  LET made == AddedNode(b, [id |-> r.id, parent |-> r.node, name |-> r.name, kind |-> "note"])
  IN  IF Exists(b, r.id) THEN Fail(b, "node exists already")
      ELSE IF r.subscribe THEN StartSession(made, r.id, FALSE) ELSE made

\* The program's content for it is synchronized to the server.
SentSyncIn(b, r) ==
  LET made == Created(b, r)
  IN  IF made.failure # None THEN made
      ELSE Send(AddSyncIn(made, r.id), [type |-> "sync", id |-> r.id])

\* The node that the request was about may be gone.
SentFor(b, r) ==
  CASE r.type = "chat" -> SentSession(b, r)
    [] r.type # "chat" /\ r.node = None -> b
    [] r.type = "session" /\ r.node # None -> SentSession(b, r)
    [] r.type = "add-node" /\ r.node # None -> Created(b, r)
    [] r.type = "sync-in" /\ r.node # None -> SentSyncIn(b, r)

\* The latest request that waits for an acknowledgement with the id.
Waiting(b, id) == {i \in DOMAIN b.subreqs : b.subreqs[i].id = id}
LatestWaiting(b, id) == CHOOSE i \in Waiting(b, id) : \A k \in Waiting(b, id) : i <= k

BrowserSent(b, id) ==
  IF Waiting(b, id) = {} THEN b
  ELSE LET i == LatestWaiting(b, id)
           r == b.subreqs[i]
       IN  SentFor(RemoveSubreq(RemovedSeq(b, {r.request}), i), r)

------------------------------------------------------------------------------
(* The connection *)

\* The directory's group is joined, and the welcome message is waited for.
BrowserConnected(b) ==
  IF b.group THEN Fail(b, "group joined already")
  ELSE IF b.welcome_timeout THEN Fail(b, "welcome timeout left running")
  ELSE [b EXCEPT !.status = "connecting", !.group = TRUE, !.welcome_timeout = TRUE]

\* Everything goes but the timeout.
BrowserDisconnected(b) ==
  [b EXCEPT !.status = "disconnected", !.group = FALSE, !.nodes = NewRoot,
            !.requests = {}, !.subreqs = <<>>, !.sync_ins = {}, !.chat = "none"]

WelcomeTimeout(b) ==
  IF b.status = "disconnected" THEN Fail(b, "welcome timeout left running")
  ELSE [b EXCEPT !.welcome_timeout = FALSE, !.status = "disconnected"]
===============================================================================
