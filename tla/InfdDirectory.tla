----------------------------- MODULE InfdDirectory -----------------------------
(***************************************************************************)
(* InfdDirectory: the tree of documents, the storage behind it, the        *)
(* requests it has granted but not seen acknowledged, and the sessions     *)
(* (InfdSessionProxy) it holds.  The directory is a record, and each       *)
(* handler maps it to the record that it leaves behind.  What the handler  *)
(* sends is collected in "out", in order.                                  *)
(*                                                                         *)
(* ok says whether the storage does what the handler asks it to do.        *)
(***************************************************************************)
EXTENDS DirectoryTree

NewNode(parent, name, kind) ==
  [parent |-> parent, name |-> name, kind |-> kind, explored |-> FALSE,
   connections |-> {}, session |-> None, save_timeout |-> FALSE]

\* The storage is a set of paths, each with "dir" or "note".
NewDirectory(storage) ==
  [nodes |-> [i \in {Root} |-> NewNode(None, None, "dir")],
   node_counter |-> 1, storage |-> storage,
   subreqs |-> <<>>, sync_ins |-> {},
   proxies |-> [p \in {} |-> None], chat |-> None,
   seq_id |-> [c \in Clients |-> 0], failure |-> None,
   out |-> [c \in Clients |-> <<>>]]

------------------------------------------------------------------------------
(* Sending *)

SendTo(d, connections, m) ==
  [d EXCEPT !.out = [c \in Clients |-> IF c \in connections THEN Append(@[c], m) ELSE @[c]]]
Send(d, c, m) == SendTo(d, {c}, m)

\* A reply carries the number of the request and the sequence id of the client.
ReplySeq(d, c, m) == <<d.seq_id[c], m.seq>>

RequestFailed(d, c, seq) == Send(d, c, [type |-> "request-failed", seq |-> seq])
\* Mutant: the client is not told that its request failed.
Refuse_Silently(d, c, m) == d

Refuse(d, c, m) == RequestFailed(d, c, ReplySeq(d, c, m))

AddNode(id, parent, name, kind, seq, subscribe) ==
  [type |-> "add-node", id |-> id, parent |-> parent, name |-> name, kind |-> kind,
   seq |-> seq, subscribe |-> subscribe]

\* Announces a node to those who have explored its parent.
NodeRegister(d, id, except, seq) ==
  LET n == d.nodes[id]
  IN  SendTo(d, d.nodes[n.parent].connections \ except,
             AddNode(id, n.parent, n.name, n.kind, seq, FALSE))

------------------------------------------------------------------------------
(* Sessions *)

NewProxy(id, source) ==
  [id |-> id, subscriptions |-> {}, acks |-> {}, source |-> source, presync |-> source # None]

FreshProxy(d) ==
  CHOOSE p \in 0 .. Cardinality(DOMAIN d.proxies) :
    p \notin DOMAIN d.proxies /\ \A q \in 0 .. p - 1 : q \in DOMAIN d.proxies

IsIdle(p) == p.subscriptions = {} /\ p.acks = {} /\ p.source = None

\* A session that becomes idle is saved and dropped after a while; the timeout
\* is stopped when it is in use again.
SetProxy(d, pid, p) ==
  [d EXCEPT !.proxies[pid] = p,
            !.nodes = [i \in DOMAIN @ |->
              IF @[i].session = pid /\ IsIdle(p) # IsIdle(d.proxies[pid])
              THEN [@[i] EXCEPT !.save_timeout = IsIdle(p)] ELSE @[i]]]

\* Who holds a reference to a session.
Referenced(d) ==
  {d.nodes[i].session : i \in DOMAIN d.nodes}
    \cup {d.subreqs[i].proxy : i \in DOMAIN d.subreqs}
    \cup {s.proxy : s \in d.sync_ins} \cup {d.chat}

\* A session is closed: a synchronization that goes on is cancelled, and the
\* others are told.
CloseProxy(d, pid) ==
  LET p == d.proxies[pid]
      told == SendTo(d, p.subscriptions \ {p.source}, [type |-> "session-close", id |-> p.id])
  IN  [SendTo(told, IF p.presync THEN {} ELSE {p.source}, [type |-> "sync-error", id |-> p.id])
       EXCEPT !.proxies = Without(@, {pid})]

\* Sessions close when the last reference to them goes.
Collect(d) == FoldSet(LAMBDA pid, e : CloseProxy(e, pid), d, DOMAIN d.proxies \ Referenced(d))

\* The timeout of a session that is idle runs from the moment it is linked.
AddSession(d, id, pid) ==
  [d EXCEPT !.nodes[id].session = pid, !.nodes[id].save_timeout = IsIdle(d.proxies[pid])]
LinkSession(d, id, pid) ==
  IF d.nodes[id].session # None THEN Fail(d, "node has a session already")
  ELSE AddSession(d, id, pid)

RemoveSession(n) == [n EXCEPT !.session = None, !.save_timeout = FALSE]
UnlinkSessions(d, ids) ==
  Collect([d EXCEPT !.nodes = [i \in DOMAIN @ |-> IF i \in ids THEN RemoveSession(@[i]) ELSE @[i]]])

\* The session of a note: the one in memory, also if it is only waiting for an
\* acknowledgement, or else a new one that is read from the storage.
ProxiesOf(d, id) ==
  IF d.nodes[id].session # None THEN {d.nodes[id].session}
  ELSE {d.subreqs[i].proxy : i \in {j \in DOMAIN d.subreqs :
          d.subreqs[j].type = "session" /\ d.subreqs[j].id = id}}

Readable(d, id, ok) ==
  ProxiesOf(d, id) # {} \/ (ok /\ <<Path(d.nodes, id), "note">> \in d.storage)

\* The directory with the session of a note in memory, and which it is.
GetSession(d, id) ==
  IF ProxiesOf(d, id) # {}
  THEN [directory |-> d, proxy |-> CHOOSE p \in ProxiesOf(d, id) : TRUE]
  ELSE [directory |-> [d EXCEPT !.proxies = With(@, FreshProxy(d), NewProxy(id, None))],
        proxy |-> FreshProxy(d)]

\* infd_session_proxy_subscribe_to: the synchronization is sent at once.
SubscribeTo(d, pid, c, sync) ==
  LET p == d.proxies[pid]
      e == SetProxy(d, pid, [p EXCEPT !.subscriptions = @ \cup {c},
                                      !.acks = IF sync THEN @ \cup {c} ELSE @])
  IN  IF c \in p.subscriptions THEN d
      ELSE IF sync THEN Send(e, c, [type |-> "sync", id |-> p.id]) ELSE e

------------------------------------------------------------------------------
(* The tree *)

\* The node that a message names, if it is there and of the kind it should be.
HasNode(d, id) == id \in DOMAIN d.nodes
HasNote(d, id) == HasNode(d, id) /\ d.nodes[id].kind = "note"

NewSubreq(type, c, id, parent, name, proxy, subscribe) ==
  [type |-> type, connection |-> c, id |-> id, parent |-> parent, name |-> name,
   proxy |-> proxy, subscribe |-> subscribe]

AddSubreq(d, r) == [d EXCEPT !.subreqs = <<r>> \o @]
RemoveSubreq(d, i) == [d EXCEPT !.subreqs = RemoveAt(@, i)]

\* A note that is being received: from its acknowledgement to its last message.
BeginSyncIn(d, r) == [d EXCEPT !.sync_ins = @ \cup
  {[id |-> r.id, parent |-> r.parent, name |-> r.name, proxy |-> r.proxy]}]
EndSyncIns(d, ended) == [d EXCEPT !.sync_ins = @ \ ended]

\* Requests that occupy a name in the tree.
Reserves(r) == r.type \in {"add-node", "sync-in"}

ChildByName(d, parent, name) == {i \in Children(d.nodes, parent) : d.nodes[i].name = name}
SyncInByName(d, parent, name) == {s \in d.sync_ins : s.parent = parent /\ s.name = name}
SubreqByName(d, parent, name) ==
  {r \in ToSet(d.subreqs) : Reserves(r) /\ r.parent = parent /\ r.name = name}

IsNameAvailable(d, parent, name) ==
  /\ ChildByName(d, parent, name) = {} /\ SyncInByName(d, parent, name) = {}
  /\ SubreqByName(d, parent, name) = {}

ChildPath(d, parent, name) == Append(Path(d.nodes, parent), name)
Write(d, path, kind) == [d EXCEPT !.storage = @ \cup {<<path, kind>>}]

\* The children of a node are read from the storage.
NodeExplore(d, id) ==
  LET path == Path(d.nodes, id)
      found == SetToSeq({e \in d.storage : Len(e[1]) = Len(path) + 1 /\ Front(e[1]) = path})
      Id(i) == d.node_counter + i - 1
      new == [j \in {Id(i) : i \in DOMAIN found} |->
                LET e == found[j - d.node_counter + 1] IN NewNode(id, Last(e[1]), e[2])]
  IN  [d EXCEPT !.nodes = new @@ With(@, id, [d.nodes[id] EXCEPT !.explored = TRUE]),
                !.node_counter = @ + Len(found)]

\* node_free: a reservation below the node loses its parent.  Every node that
\* is freed looks at the parent of every reservation, whether it is there or
\* not, so that a second node must not be freed while one is orphaned.
Orphaned(d, id) == \E i \in DOMAIN d.subreqs : LET r == d.subreqs[i] IN
  Reserves(r) /\ (r.parent = None \/ r.parent \in Subtree(d.nodes, id) \ {id})

NodeFree(d, id) ==
  LET gone == Subtree(d.nodes, id)
      missed == {s \in d.sync_ins : s.parent \in gone}
  IN  IF Orphaned(d, id) THEN Fail(d, "reservation without parent")
      ELSE Collect([EndSyncIns(d, missed) EXCEPT
             !.nodes = Without(@, gone),
             !.subreqs = [i \in DOMAIN @ |->
               IF @[i].parent = id THEN [@[i] EXCEPT !.parent = None] ELSE @[i]]])

\* Those who have explored the parent are told that the node goes.
NodeUnregister(d, id, seq) ==
  SendTo(d, d.nodes[d.nodes[id].parent].connections, [type |-> "remove-node", id |-> id, seq |-> seq])

\* Mutant: the clients are not told.
NodeRemove_Silent(d, id, seq) ==
  LET path == Path(d.nodes, id)
      sessions == {i \in Subtree(d.nodes, id) : d.nodes[i].session # None}
      erased == [d EXCEPT !.storage = {e \in @ :
                   IF d.nodes[id].kind = "dir" THEN ~IsPrefix(path, e[1]) \/ e = <<path, "note">>
                   ELSE e # <<path, "note">>}]
  IN  NodeFree(UnlinkSessions(erased, sessions), id)

\* A node goes from the storage, its sessions are closed, those who know it are
\* told, and it is freed with all that is below it.
NodeRemove(d, id, seq) ==
  LET path == Path(d.nodes, id)
      sessions == {i \in Subtree(d.nodes, id) : d.nodes[i].session # None}
      erased == [d EXCEPT !.storage = {e \in @ :
                   IF d.nodes[id].kind = "dir" THEN ~IsPrefix(path, e[1]) \/ e = <<path, "note">>
                   ELSE e # <<path, "note">>}]
      closed == UnlinkSessions(erased, sessions)
  IN  NodeFree(NodeUnregister(closed, id, seq), id)

\* Mutant: only the root's list.
ForgetConnection_Root(d, c) == [d EXCEPT !.nodes[Root].connections = @ \ {c}]

\* node_remove_connection: down from the root, as long as it is in the lists.
ForgetConnection(d, c) ==
  LET Told[i \in DOMAIN d.nodes] ==
        c \in d.nodes[i].connections /\ (i = Root \/ Told[d.nodes[i].parent])
  IN  [d EXCEPT !.nodes = [i \in DOMAIN @ |->
        IF Told[i] THEN [@[i] EXCEPT !.connections = @ \ {c}] ELSE @[i]]]

------------------------------------------------------------------------------
(* Requests *)

HandleExploreNode(d, c, m, ok) ==
  IF ~HasNode(d, m.id) THEN Fail(d, "explore of a removed node")
  ELSE LET e == IF d.nodes[m.id].explored THEN d ELSE NodeExplore(d, m.id)
           seq == ReplySeq(d, c, m)
           \* The latest child is the first in the list.
           ids == SetToSortSeq(Children(e.nodes, m.id), >)
           Reply(i) == LET n == e.nodes[ids[i]] IN AddNode(ids[i], m.id, n.name, n.kind, seq, FALSE)
           begun == Send(e, c, [type |-> "explore-begin", total |-> Len(ids), seq |-> seq])
           listed == [begun EXCEPT !.out[c] = @ \o [i \in DOMAIN ids |-> Reply(i)]]
           ended == Send(listed, c, [type |-> "explore-end", seq |-> seq])
       IN  IF ~d.nodes[m.id].explored /\ ~ok THEN Refuse(d, c, m)
           ELSE IF c \in e.nodes[m.id].connections THEN Refuse(e, c, m)
           ELSE [ended EXCEPT !.nodes[m.id].connections = @ \cup {c}]

\* node_add_subdirectory, for the request seq or for nobody.
CanCreate(d, parent, name, ok) == ok /\ <<ChildPath(d, parent, name), "dir">> \notin d.storage

CreateSubdirectory(d, parent, name, seq) ==
  LET id == d.node_counter
      made == [Write(d, ChildPath(d, parent, name), "dir") EXCEPT
                !.nodes = With(@, id, [NewNode(parent, name, "dir") EXCEPT !.explored = TRUE]),
                !.node_counter = @ + 1]
  IN  NodeRegister(made, id, {}, seq)

AddSubdirectory(d, c, m, ok) ==
  IF ~CanCreate(d, m.parent, m.name, ok) THEN Refuse(d, c, m)
  ELSE CreateSubdirectory(d, m.parent, m.name, ReplySeq(d, c, m))

\* node_create_new_note, with an empty session in memory and on disk.
CreateNote(d, id, parent, name) ==
  LET pid == FreshProxy(d)
      written == [Write(d, ChildPath(d, parent, name), "note") EXCEPT
                   !.proxies = With(@, pid, NewProxy(id, None)),
                   !.nodes = With(@, id, NewNode(parent, name, "note"))]
  IN  LinkSession(written, id, pid)

\* A note that the client wants to subscribe to is only reserved until the
\* client has acknowledged; the others are there at once.
AddNote(d, c, m, ok) ==
  LET id == d.node_counter
      pid == FreshProxy(d)
      counted == [d EXCEPT !.node_counter = @ + 1]
      made == [Write(counted, ChildPath(d, m.parent, m.name), "note") EXCEPT
                !.proxies = With(@, pid, NewProxy(id, None))]
  IN  IF ~ok THEN Refuse(counted, c, m)
      ELSE IF m.subscribe
      THEN Send(AddSubreq(made, NewSubreq("add-node", c, id, m.parent, m.name, pid, TRUE)), c,
                AddNode(id, m.parent, m.name, "note", ReplySeq(d, c, m), TRUE))
      ELSE NodeRegister(CreateNote(counted, id, m.parent, m.name), id, {}, ReplySeq(d, c, m))

\* A note with content: the client will synchronize it to the server.
AddSyncIn(d, c, m, ok) ==
  LET id == d.node_counter
      pid == FreshProxy(d)
      counted == [d EXCEPT !.node_counter = @ + 1]
      made == [Write(counted, ChildPath(d, m.parent, m.name), "note") EXCEPT
                !.proxies = With(@, pid, NewProxy(id, c))]
  IN  IF ~ok THEN Refuse(counted, c, m)
      ELSE Send(AddSubreq(made, NewSubreq("sync-in", c, id, m.parent, m.name, pid, m.subscribe)), c,
                [type |-> "sync-in", id |-> id, parent |-> m.parent, name |-> m.name,
                 seq |-> ReplySeq(d, c, m), subscribe |-> m.subscribe])

HandleAddNode(d, c, m, ok) ==
  IF ~HasNode(d, m.parent) \/ ~IsNameAvailable(d, m.parent, m.name) THEN Refuse(d, c, m)
  ELSE IF m.kind = "dir" THEN AddSubdirectory(d, c, m, ok)
  ELSE IF m.sync_in THEN AddSyncIn(d, c, m, ok)
  ELSE AddNote(d, c, m, ok)

HandleRemoveNode(d, c, m, ok) ==
  IF ~HasNode(d, m.id) \/ m.id = Root \/ ~ok THEN Refuse(d, c, m)
  ELSE NodeRemove(d, m.id, ReplySeq(d, c, m))

HandleSubscribeSession(d, c, m, ok) ==
  IF ~HasNote(d, m.id) \/ ~Readable(d, m.id, ok) THEN Refuse(d, c, m)
  ELSE LET s == GetSession(d, m.id)
       IN  Send(AddSubreq(s.directory, NewSubreq("session", c, m.id, None, None, s.proxy, TRUE)), c,
                [type |-> "subscribe-session", id |-> m.id, seq |-> ReplySeq(d, c, m)])

HandleSaveSession(d, c, m, ok) ==
  IF ~HasNote(d, m.id) THEN Fail(d, "save of a removed node")
  ELSE LET n == d.nodes[m.id]
           saved == Write(d, Path(d.nodes, m.id), "note")
       IN  IF n.session = None \/ c \notin d.proxies[n.session].subscriptions THEN Refuse(d, c, m)
           ELSE IF n.save_timeout THEN Fail(d, "timeout of a session in use")
           ELSE IF ~ok THEN Refuse(d, c, m)
           ELSE Send(saved, c, [type |-> "session-saved", seq |-> ReplySeq(d, c, m)])

HandleSubscribeChat(d, c, m) ==
  IF d.chat = None THEN Refuse(d, c, m)
  ELSE Send(AddSubreq(d, NewSubreq("chat", c, Chat, None, None, None, TRUE)), c,
            [type |-> "subscribe-chat", seq |-> ReplySeq(d, c, m)])

------------------------------------------------------------------------------
(* Acknowledgements *)

\* That of the chat is the first that there is, whoever asked.
Matches(r, c, m) ==
  IF m.id = Chat THEN r.type = "chat"
  ELSE r.type # "chat" /\ r.connection = c /\ r.id = m.id
Answered(d, c, m) == {i \in DOMAIN d.subreqs : Matches(d.subreqs[i], c, m)}
SubreqIndex(d, c, m) == CHOOSE i \in Answered(d, c, m) : \A j \in Answered(d, c, m) : i <= j

EnableChat(d) ==
  IF d.chat # None THEN d
  ELSE [d EXCEPT !.proxies = With(@, FreshProxy(d), NewProxy(Chat, None)), !.chat = FreshProxy(d)]
DisableChat(d) == Collect([d EXCEPT !.chat = None])

\* If the chat is gone by now, there is a temporary one to subscribe to.
AckChat(d, c) ==
  IF d.chat # None THEN SubscribeTo(d, d.chat, c, TRUE)
  ELSE LET e == EnableChat(d) IN DisableChat(SubscribeTo(e, e.chat, c, TRUE))

\* Mutant: the session is linked although another client has done so before.
AckSession_Relink(d, c, r) ==
  LET linked == IF r.id \notin DOMAIN d.nodes THEN d ELSE LinkSession(d, r.id, r.proxy)
  IN  Collect(SubscribeTo(linked, r.proxy, c, TRUE))

\* If the node is gone by now, the session closes with the request.
AckSession(d, c, r) ==
  LET linked == IF r.id \notin DOMAIN d.nodes \/ d.nodes[r.id].session = r.proxy THEN d
                ELSE LinkSession(d, r.id, r.proxy)
  IN  Collect(SubscribeTo(linked, r.proxy, c, TRUE))

\* The node comes into being, without synchronization as it is empty.
AckAddNode(d, c, r) ==
  LET made == [d EXCEPT !.nodes = With(@, r.id, NewNode(r.parent, r.name, "note"))]
      there == NodeRegister(LinkSession(made, r.id, r.proxy), r.id, {c}, None)
  IN  IF r.parent = None THEN Collect(SubscribeTo(d, r.proxy, c, FALSE))
      ELSE IF ~IsNameAvailable(d, r.parent, r.name) THEN Fail(d, "reserved name taken")
      ELSE SubscribeTo(there, r.proxy, c, FALSE)

\* The synchronization starts; without a parent it is cancelled at once.
AckSyncIn(d, c, r) ==
  LET p == d.proxies[r.proxy]
      begun == SetProxy(d, r.proxy, [p EXCEPT !.presync = FALSE])
      Subscribed(e) == IF r.subscribe THEN SubscribeTo(e, r.proxy, c, FALSE) ELSE e
  IN  IF r.parent = None THEN Collect(Subscribed(begun))
      ELSE IF ~IsNameAvailable(d, r.parent, r.name) THEN Fail(d, "reserved name taken")
      ELSE Subscribed(BeginSyncIn(begun, r))

HandleSubscribeAck(d, c, m) ==
  IF Answered(d, c, m) = {} THEN RequestFailed(d, c, None)
  ELSE LET i == SubreqIndex(d, c, m)
           r == d.subreqs[i]
           e == RemoveSubreq(d, i)
       IN  CASE r.type = "chat" -> AckChat(e, c)
             [] r.type = "session" -> AckSession(e, c, r)
             [] r.type = "add-node" -> AckAddNode(e, c, r)
             [] r.type = "sync-in" -> AckSyncIn(e, c, r)

\* The note that was reserved is removed from the storage again.
HandleSubscribeNack(d, c, m) ==
  IF Answered(d, c, m) = {} THEN RequestFailed(d, c, None)
  ELSE LET i == SubreqIndex(d, c, m)
           r == d.subreqs[i]
           e == RemoveSubreq(d, i)
           path == ChildPath(d, r.parent, r.name)
       IN  IF r.type # "add-node" THEN Collect(e)
           ELSE IF r.parent = None THEN Fail(d, "path of an orphaned reservation")
           ELSE Collect([e EXCEPT !.storage = @ \ {<<path, "note">>}])

------------------------------------------------------------------------------
(* The sessions' messages *)

\* The session of a group, if the client is a member of the group.
ProxyFor(d, c, id) == {p \in DOMAIN d.proxies :
  d.proxies[p].id = id /\ c \in d.proxies[p].subscriptions \cup {d.proxies[p].source}}

MemberRemoved(d, c, pid) ==
  SetProxy(d, pid, [d.proxies[pid] EXCEPT !.subscriptions = @ \ {c}, !.acks = @ \ {c}])

\* The client's note has been received: the node comes into being.
SyncInComplete(d, c, pid, ok) ==
  LET s == CHOOSE x \in d.sync_ins : x.proxy = pid
      done == SetProxy(d, pid, [d.proxies[pid] EXCEPT !.source = None])
      replied == Send(done, c, [type |-> "sync-ack", id |-> s.id])
      made == LinkSession([EndSyncIns(replied, {s}) EXCEPT
                !.nodes = With(@, s.id, NewNode(s.parent, s.name, "note"))], s.id, pid)
      saved == IF ok THEN Write(made, Path(made.nodes, s.id), "note") ELSE made
  IN  NodeRegister(saved, s.id, {c}, None)

HandleSession(d, c, m, ok) ==
  IF ProxyFor(d, c, m.id) = {} THEN d
  ELSE LET pid == CHOOSE p \in ProxyFor(d, c, m.id) : TRUE
           p == d.proxies[pid]
       IN  CASE m.type = "sync" -> SyncInComplete(d, c, pid, ok)
             [] m.type = "sync-ack" -> SetProxy(d, pid, [p EXCEPT !.acks = @ \ {c}])
             [] m.type = "sync-error" -> MemberRemoved(d, c, pid)
             [] m.type = "session-unsubscribe" -> MemberRemoved(d, c, pid)

\* received, by the name of the message.
ServerReceive(d, c, m, ok) ==
  CASE m.type = "explore-node" -> HandleExploreNode(d, c, m, ok)
    [] m.type = "add-node" -> HandleAddNode(d, c, m, ok)
    [] m.type = "remove-node" -> HandleRemoveNode(d, c, m, ok)
    [] m.type = "subscribe-session" -> HandleSubscribeSession(d, c, m, ok)
    [] m.type = "save-session" -> HandleSaveSession(d, c, m, ok)
    [] m.type = "subscribe-chat" -> HandleSubscribeChat(d, c, m)
    [] m.type = "subscribe-ack" -> HandleSubscribeAck(d, c, m)
    [] m.type = "subscribe-nack" -> HandleSubscribeNack(d, c, m)
    [] OTHER -> HandleSession(d, c, m, ok)

------------------------------------------------------------------------------
(* Connections, and what the server does on its own *)

SendWelcome(d, c) == Send(d, c, [type |-> "welcome", seq_id |-> d.seq_id[c]])

AddConnection(d, c) ==
  SendWelcome([d EXCEPT !.seq_id[c] = 1 + Max({d.seq_id[k] : k \in Clients})], c)

\* Every group removes the connection from its members: the directory from its
\* lists, along with the reservations, and the sessions from their
\* subscriptions.  A note that was being received is not completed.
ConnectionLost(d, c) ==
  LET forgotten == [ForgetConnection(d, c) EXCEPT
                     !.seq_id[c] = 0,
                     !.subreqs = SelectSeq(@, LAMBDA r : r.connection # c)]
      Leave(pid, e) ==
        LET p == e.proxies[pid]
        IN  SetProxy(e, pid, [p EXCEPT !.subscriptions = @ \ {c}, !.acks = @ \ {c},
                                       !.source = IF @ = c THEN None ELSE @])
      left == FoldSet(Leave, forgotten, DOMAIN forgotten.proxies)
      cancelled == {s \in left.sync_ins : left.proxies[s.proxy].source = None}
  IN  Collect(EndSyncIns(left, cancelled))

\* An idle session is saved and dropped, or kept if it cannot be saved.
SessionSaveTimeout(d, id, ok) ==
  LET elapsed == [d EXCEPT !.nodes[id].save_timeout = FALSE]
  IN  IF ok THEN UnlinkSessions(Write(elapsed, Path(d.nodes, id), "note"), {id})
      ELSE elapsed

\* The program on the server wants to have a session.
IterGetSession(d, id) ==
  LET s == GetSession(d, id)
  IN  IF d.nodes[id].session # None THEN d ELSE LinkSession(s.directory, id, s.proxy)

\* It looks into a directory, which is read from the storage if need be.
IterGetChild(d, id, ok) == IF d.nodes[id].explored \/ ~ok THEN d ELSE NodeExplore(d, id)

IterAddSubdirectory(d, parent, name, ok) ==
  LET e == IterGetChild(d, parent, ok)
  IN  IF ~IsNameAvailable(e, parent, name) \/ ~CanCreate(e, parent, name, ok) THEN e
      ELSE CreateSubdirectory(e, parent, name, None)

\* Nothing looks whether the name is free, other than for a subdirectory.
IterAddNote(d, parent, name, ok) ==
  LET e == IterGetChild(d, parent, ok)
      id == e.node_counter
      counted == [e EXCEPT !.node_counter = @ + 1]
  IN  IF ~e.nodes[parent].explored THEN e ELSE IF ~ok THEN counted
      ELSE NodeRegister(CreateNote(counted, id, parent, name), id, {}, None)

IterRemoveNode(d, id, ok) == IF ok THEN NodeRemove(d, id, None) ELSE d

\* A session that has been saved stays in memory.
IterSaveSession(d, id, ok) == IF ok THEN Write(d, Path(d.nodes, id), "note") ELSE d
===============================================================================
