------------------------------ MODULE ChatRoom ------------------------------
(***************************************************************************)
(* The chat: what is said goes into a buffer of limited size at every host *)
(* (inf-chat-buffer.c), ordered by the time at which the host heard of it, *)
(* and into a log file; a client that subscribes gets what the server has  *)
(* in its buffer (inf-chat-session.c).  The buffer is an array which grows *)
(* up to Size, and is a ring from then on.                                 *)
(***************************************************************************)
EXTENDS Integers, Sequences, FiniteSets, SequencesExt

CONSTANTS Clients, Server,
          Users, UserHost,     \* [Users -> hosts]
          Size, FirstAlloc,    \* of the buffer
          Chats                \* [ahead: of the server's clock, says: [Users -> Nat], ticks, leaves, losses, logs]

VARIABLES chat, said, left,    \* the scenario, and how much of it has happened
          time, room,          \* the clients' clock, the session at every host
          wire,                \* [Clients -> messages up and down]
          refused              \* messages that were not accepted

Sites == Clients \cup {Server}
Members(h) == {u \in Users : UserHost[u] = h}
TimeAt(h) == time + (IF h = Server THEN chat.ahead ELSE 0)

ChatAssumption ==
  /\ Server \notin Clients /\ UserHost \in [Users -> Sites]
  /\ Size \in Nat \ {0} /\ FirstAlloc \in Nat \ {0}
  /\ \A x \in Chats : x.ahead \in Nat /\ x.ticks \in Nat /\ x.says \in [Users -> Nat]

------------------------------------------------------------------------------
(* The buffer: slots, of which num are used, from first on *)

Garbage == [type |-> "garbage", user |-> 0, id |-> 0, time |-> 0, old |-> FALSE]
EmptyBuffer == [slots |-> <<>>, num |-> 0, first |-> 0, freed |-> {}]

Alloc(b) == Len(b.slots)
Slot(b, n) == (b.first + n) % Size
MessageAt(b, n) == IF Slot(b, n) < Alloc(b) THEN b.slots[Slot(b, n) + 1] ELSE Garbage
Messages(b) == [i \in 1 .. b.num |-> MessageAt(b, i - 1)]

\* k slots are moved, from place src to place dst.
MoveSlots(slots, dst, src, k) ==
  [i \in DOMAIN slots |-> IF i - 1 \in dst .. dst + k - 1 THEN slots[i - dst + src] ELSE slots[i]]

FindPlace(b, t) ==
  LET search[begin, end \in 0 .. Size] ==
        LET n == (begin + end) \div 2
        IN  IF begin = end THEN begin
            ELSE IF MessageAt(b, n).time <= t THEN search[(begin + end + 1) \div 2, end]
            ELSE search[begin, n]
  IN  search[0, b.num]

Grown(b) ==
  LET doubled == IF 2 * Alloc(b) > FirstAlloc THEN 2 * Alloc(b) ELSE FirstAlloc
      alloc == IF doubled < Size THEN doubled ELSE Size
  IN  IF b.num < Alloc(b) THEN b
      ELSE [b EXCEPT !.slots = [i \in 1 .. alloc |-> IF i <= Alloc(b) THEN @[i] ELSE Garbage]]

\* Room for one more before the n-th, while the buffer is not full.
MakeRoom(b, n) ==
  LET middle == 0 < n /\ n < b.num
      lower == n < b.num \div 2 /\ b.first > 0
      upper == n > b.num \div 2 /\ b.first + b.num = Alloc(b)
      before == (Alloc(b) - b.num + 1) \div 2
      after == (Alloc(b) - b.num) \div 2
  IN  CASE n = 0 /\ b.first = 0 ->
             [b EXCEPT !.slots = MoveSlots(@, before, 0, b.num), !.first = before - 1]
        [] n = b.num /\ b.first + b.num = Alloc(b) /\ ~(n = 0 /\ b.first = 0) ->
             [b EXCEPT !.slots = MoveSlots(@, after, b.first, b.num), !.first = after]
        [] middle /\ (lower \/ upper) ->
             [b EXCEPT !.slots = MoveSlots(@, b.first - 1, b.first, n + 1), !.first = @ - 1]
        [] middle /\ ~lower /\ ~upper -> [b EXCEPT !.slots = MoveSlots(@, n + 1, n, b.num - n)]
        [] OTHER -> b

\* One is dropped, and its text freed, because the buffer is full.
DropOne(b, n) ==
  LET end == Slot(b, n)
      next == (b.first + 1) % Size
      freed == [b EXCEPT !.freed = @ \cup {b.slots[end + 1].id}]
  IN  CASE n = b.num -> [b EXCEPT !.first = next, !.freed = @ \cup {b.slots[b.first + 1].id}]
        [] n < b.num /\ b.first < end ->
             [freed EXCEPT !.slots = MoveSlots(@, b.first + 1, b.first, end - b.first)]
        [] OTHER ->
             [freed EXCEPT !.slots = MoveSlots(@, end + 1, end, b.first - end), !.first = next]

\* What is older than everything in a full buffer is not kept.
ReserveMessage(b, m) ==
  LET n == FindPlace(b, m.time)
      room1 == MakeRoom(Grown(b), n)
      room2 == DropOne(b, n)
  IN  CASE n = 0 /\ b.num = Size -> b
        [] b.num < Size -> [room1 EXCEPT !.num = @ + 1, !.slots[Slot(room1, n) + 1] = m]
        [] OTHER -> [room2 EXCEPT !.slots[Slot(room2, n - 1) + 1] = m]

\* Memory that was not written to, or was freed, is where a message should be.
Corrupt(b) == \E i \in 1 .. b.num :
  LET m == Messages(b)[i]
  IN  \/ m = Garbage
      \/ m.id # 0 /\ m.id \in b.freed
      \/ b.num < Size /\ b.first + b.num > Alloc(b)

\* What the buffer is to be: sorted by time, among equals as they came, and the last
\* Size of them.
SortedIn(s, m) ==
  LET before == Cardinality({i \in DOMAIN s : s[i].time <= m.time})
      all == InsertAt(s, before + 1, m)
  IN  IF Len(all) > Size THEN Tail(all) ELSE all

------------------------------------------------------------------------------
(* The session at a host, w *)

IsLate(w, m) == \E i \in DOMAIN w.ideal : w.ideal[i].time > m.time

AddMessage(w, m) ==
  [w EXCEPT !.buffer = ReserveMessage(@, m), !.ideal = SortedIn(@, m),
            !.late = @ \/ IsLate(w, m), !.heard = @ \cup {m.id}]

\* Who is there, as the log tells (once it did), and whether it told something twice.
NoLog == [open |-> FALSE, told |-> FALSE, here |-> {}, twice |-> FALSE]
UserList(w) == [open |-> TRUE, told |-> TRUE, here |-> w.available, twice |-> FALSE]
LogUserlist(w) == IF w.log.open THEN [w EXCEPT !.log = UserList(w)] ELSE w

LogMessage(w, m) ==
  CASE w.log.told /\ m.type = "userjoin" ->
         [w EXCEPT !.log.here = @ \cup {m.user}, !.log.twice = @ \/ m.user \in w.log.here]
    [] w.log.told /\ m.type = "userpart" ->
         [w EXCEPT !.log.here = @ \ {m.user}, !.log.twice = @ \/ m.user \notin w.log.here]
    [] OTHER -> w

\* The synchronization ends: the log tells who is there.
SynchronizationComplete(w) == [LogUserlist(w) EXCEPT !.status = "running"]

\* Mutant: what was said before the subscription is passed over.
ReceivedMessage_LiveOnly(w, m) ==
  IF w.status = "running" THEN LogMessage(AddMessage(w, m), m) ELSE w

\* Nothing is sent for what is received; the backlog is not logged.
ReceivedMessage(w, m) ==
  IF w.status = "running" THEN LogMessage(AddMessage(w, m), m) ELSE AddMessage(w, m)

NewMessage(h, type, u, id) == [type |-> type, user |-> u, id |-> id, time |-> TimeAt(h), old |-> FALSE]

\* Coming and going is not sent as a message: every host notes it on its own.
UserJoin(h, w, u) ==
  LET there == [w EXCEPT !.available = @ \cup {u}]
  IN  IF w.status = "running" /\ u \notin w.available
      THEN ReceivedMessage(there, NewMessage(h, "userjoin", u, 0)) ELSE there

UserPart(h, w, u) ==
  LET gone == [w EXCEPT !.available = @ \ {u}]
  IN  IF w.status = "running" /\ u \in w.available
      THEN ReceivedMessage(gone, NewMessage(h, "userpart", u, 0)) ELSE gone

UsersPart(h, w, users) ==
  LET Part(x, u) == UserPart(h, x, u) IN FoldLeft(Part, w, SetToSeq(users))

\* How a message is sent, and read: a message of the backlog has a time, and one that is
\* new is stamped when it arrives.
ToXml(m, sync) == [m EXCEPT !.old = sync]
FromXml(h, w, m) == IF w.status = "synchronizing" THEN m ELSE [m EXCEPT !.time = TimeAt(h)]

Connected(c) == room[c].status \in {"synchronizing", "running"} /\ ~room[c].alone
SendDown(cs, m) == [c \in Clients |-> IF c \in cs THEN [wire[c] EXCEPT !.down = Append(@, m)] ELSE wire[c]]
Subscribed == {c \in Clients : Connected(c)}
SendToSubscriptions(h, m) ==
  IF h = Server THEN wire' = SendDown(Subscribed, m)
  ELSE wire' = [wire EXCEPT ![h].up = Append(@, m)]

------------------------------------------------------------------------------
(* Actions *)

\* Nothing is followed further that depends on corrupt memory.
Sound == \A h \in Sites : ~Corrupt(room[h].buffer)
Here(u) == Sound /\ u \in room[UserHost[u]].available /\ ~room[UserHost[u]].alone

\* Something is added to the buffer, and sent from there.
Say(u) ==
  LET h == UserHost[u]
      m == NewMessage(h, "normal", u, Len(said) + 1)
  IN  /\ Here(u) /\ Cardinality({i \in DOMAIN said : said[i] = u}) < chat.says[u]
      /\ said' = Append(said, u)
      /\ room' = [room EXCEPT ![h] = LogMessage(AddMessage(@, m), m)]
      /\ SendToSubscriptions(h, ToXml(m, FALSE))
      /\ UNCHANGED <<chat, left, time, refused>>

Join(u) ==
  LET h == UserHost[u]
      m == [type |-> "join", user |-> u]
  IN  /\ Sound /\ room[h].status = "running" /\ ~room[h].alone /\ u \notin room[h].available
      /\ u \notin left.asked
      /\ left' = [left EXCEPT !.asked = @ \cup {u}]
      /\ room' = IF h = Server THEN [room EXCEPT ![h] = UserJoin(h, @, u)] ELSE room
      /\ SendToSubscriptions(h, m)
      /\ UNCHANGED <<chat, said, time, refused>>

Leave(u) ==
  LET h == UserHost[u]
  IN  /\ Here(u) /\ left.users < chat.leaves
      /\ left' = [left EXCEPT !.users = @ + 1, !.asked = @ \ {u}]
      /\ room' = [room EXCEPT ![h] = UserPart(h, @, u)]
      /\ SendToSubscriptions(h, [type |-> "part", user |-> u])
      /\ UNCHANGED <<chat, said, time, refused>>

\* The users, the messages in the buffer with their times, and the end.
ToXmlSync(w) ==
  <<[type |-> "users", users |-> w.available]>> \o
  [i \in 1 .. w.buffer.num |-> ToXml(Messages(w.buffer)[i], TRUE)] \o
  <<[type |-> "end", user |-> 0]>>

Subscribe(c) ==
  LET server == room[Server]
  IN  /\ Sound /\ room[c].status = "none"
      /\ room' = [room EXCEPT ![c].status = "synchronizing",
           ![c].heard = server.heard \ {server.ideal[i].id : i \in DOMAIN server.ideal}]
      /\ wire' = [wire EXCEPT ![c].down = ToXmlSync(server)]
      /\ UNCHANGED <<chat, said, left, time, refused>>

\* The connection is lost. What is still to be synchronized is closed.
Lose(c) ==
  LET lost == [room[c] EXCEPT !.alone = TRUE, !.status = IF @ = "running" THEN @ ELSE "closed"]
      gone == Members(c) \cap room[Server].available
      others == Subscribed \ {c}
      told == SetToSeq({[type |-> "part", user |-> u] : u \in gone})
  IN  /\ Sound /\ Connected(c) /\ left.losses < chat.losses
      /\ left' = [left EXCEPT !.losses = @ + 1]
      /\ room' = [room EXCEPT ![c] = UsersPart(c, lost, @.available),
                              ![Server] = UsersPart(Server, @, gone)]
      /\ wire' = [d \in Clients |-> IF d = c THEN [up |-> <<>>, down |-> <<>>]
                                    ELSE IF d \in others THEN [wire[d] EXCEPT !.down = @ \o told]
                                    ELSE wire[d]]
      /\ UNCHANGED <<chat, said, time, refused>>

\* The log is closed, or another one is opened.
SetLogFile(h) == \E open \in BOOLEAN :
  LET opened == [room[h] EXCEPT !.log = [NoLog EXCEPT !.open = TRUE]]
  IN  /\ Sound /\ left.logs < chat.logs
      /\ left' = [left EXCEPT !.logs = @ + 1]
      /\ room' = [room EXCEPT ![h] = IF ~open THEN [@ EXCEPT !.log = NoLog]
                                     ELSE IF @.status = "running" THEN LogUserlist(opened)
                                     ELSE opened]
      /\ UNCHANGED <<chat, said, time, wire, refused>>

Tick ==
  /\ Sound /\ time <= chat.ticks /\ time' = time + 1
  /\ UNCHANGED <<chat, said, left, room, wire, refused>>

\* A message is stamped by who receives it, and is to be from a user of there.
ServerReceive(c) ==
  LET m == Head(wire[c].up)
      w == room[Server]
      popped == [wire EXCEPT ![c].up = Tail(@)]
      others == IF m.type = "join" THEN Subscribed ELSE Subscribed \ {c}
      refuses == m.type = "normal" /\ ~(m.user \in w.available /\ UserHost[m.user] = c)
  IN  /\ Sound /\ wire[c].up # <<>>
      /\ refused' = IF refuses THEN refused \cup {m.user} ELSE refused
      /\ room' = CASE m.type = "normal" /\ ~refuses ->
                        [room EXCEPT ![Server] = ReceivedMessage(w, FromXml(Server, w, m))]
                   [] m.type = "join" -> [room EXCEPT ![Server] = UserJoin(Server, w, m.user)]
                   [] m.type = "part" -> [room EXCEPT ![Server] = UserPart(Server, w, m.user)]
                   [] OTHER -> room
      /\ wire' = IF refuses THEN popped
                 ELSE [d \in Clients |-> IF d \in others THEN [popped[d] EXCEPT !.down = Append(@, m)]
                                         ELSE popped[d]]
      /\ UNCHANGED <<chat, said, left, time>>

ClientReceive(c) ==
  LET m == Head(wire[c].down)
      w == room[c]
      refuses == m.type = "normal" /\ w.status = "running" /\ m.user \notin w.available
  IN  /\ Sound /\ wire[c].down # <<>>
      /\ wire' = [wire EXCEPT ![c].down = Tail(@)]
      /\ refused' = IF refuses THEN refused \cup {m.user} ELSE refused
      /\ room' = [room EXCEPT ![c] =
           CASE m.type = "users" -> [w EXCEPT !.available = m.users]
             [] m.type = "end" -> SynchronizationComplete(w)
             [] m.type = "join" -> UserJoin(c, w, m.user)
             [] m.type = "part" -> UserPart(c, w, m.user)
             [] m.type \in {"normal", "userjoin", "userpart"} /\ ~refuses ->
                  ReceivedMessage(w, FromXml(c, w, m))
             [] OTHER -> w]
      /\ UNCHANGED <<chat, said, left, time>>

------------------------------------------------------------------------------

NewRoom(h) ==
  [status |-> IF h = Server THEN "running" ELSE "none", alone |-> FALSE, buffer |-> EmptyBuffer,
   ideal |-> <<>>, late |-> FALSE, heard |-> {}, available |-> {}, log |-> NoLog]

ChatInit ==
  /\ chat \in Chats /\ said = <<>> /\ time = 1 /\ refused = {}
  /\ left = [users |-> 0, losses |-> 0, logs |-> 0, asked |-> {}]
  /\ room = [h \in Sites |-> NewRoom(h)]
  /\ wire = [c \in Clients |-> [up |-> <<>>, down |-> <<>>]]

ChatNext ==
  \/ Tick
  \/ \E u \in Users : Say(u) \/ Join(u) \/ Leave(u)
  \/ \E c \in Clients : Subscribe(c) \/ Lose(c) \/ ServerReceive(c) \/ ClientReceive(c)
  \/ \E h \in Sites : SetLogFile(h)

------------------------------------------------------------------------------
(* Properties *)

\* The buffer has the last messages in the order of their times.
IsInOrder(h) == Messages(room[h].buffer) = room[h].ideal /\ ~Corrupt(room[h].buffer)
AlwaysInOrder == \A h \in Sites : IsInOrder(h)
InOrderWhileClocksAgree == \A h \in Sites : room[h].late \/ IsInOrder(h)

\* Who reads the log knows who is there, and is told of no one twice.
LogTellsWhoIsThere == \A h \in Sites :
  room[h].status = "running" /\ room[h].log.open => room[h].log = UserList(room[h])

\* When nothing is on the way, everybody has heard everything since the backlog, and
\* knows the same users; nothing was refused.
AllHeard ==
  /\ refused = {}
  /\ \A c \in Clients :
       Connected(c) /\ room[c].status = "running" /\ wire[c] = [up |-> <<>>, down |-> <<>>] =>
         /\ room[c].heard \cup {0} = room[Server].heard \cup {0}
         /\ room[c].available = room[Server].available
==============================================================================
