---------------------------- MODULE AdoptedSession ----------------------------
(***************************************************************************)
(* What inf-adopted-session.c and inf-text-session.c send of their local   *)
(* users, between two hosts: requests, whose vectors travel as differences *)
(* to the last one sent; no-operations, which tell others what has been    *)
(* processed, sent by one timer for all local users; and carets, which are *)
(* sent at most once per interval.  The operations are those that          *)
(* AdoptedReplicas executes; of a caret it matters which was the last.     *)
(***************************************************************************)
EXTENDS Integers, Sequences, FiniteSets, SequencesExt

CONSTANTS Hosts, Users, HostOf,   \* [Users -> Hosts]
          NoopInterval, CaretInterval, MaxTime,
          Habits   \* what the users do: [does |-> [Users -> SUBSET Deeds], most |-> [Users -> Nat]]

VARIABLES habits, did,  \* the program of the users, and how much of it they did
          now,          \* the clocks of both hosts
          host,         \* the session at every host
          link,         \* [Hosts -> the messages sent by it that have not arrived]
          errors        \* assertions that failed, and messages that were refused

Deeds == {"edit", "undo", "move", "leave", "rest", "leave it", "close"}
Zero == [u \in Users |-> 0]
Up(v, u, n) == [v EXCEPT ![u] = @ + n]
Other(h) == CHOOSE o \in Hosts : o # h
LocalTo(h) == {u \in Users : HostOf[u] = h}

AdoptedSessionAssumption ==
  /\ Cardinality(Hosts) = 2 /\ HostOf \in [Users -> Hosts]
  /\ CaretInterval \in Nat \ {0} /\ NoopInterval \in Nat \ {0}
  /\ \A x \in Habits : x.does \in [Users -> SUBSET Deeds] /\ x.most \in [Users -> Nat]

------------------------------------------------------------------------------
(* The vectors on the way: differences *)

ToDiff(v, from) == [u \in Users |-> v[u] - from[u]]
FromDiff(diff, from) == [u \in Users |-> from[u] + diff[u]]

------------------------------------------------------------------------------
(* The timer for no-operations.  w is a session; times are never zero. *)

\* The first of the local users who wait, of those who do longest; 0 is nobody.
FindNextNoopUser(locals) ==
  LET waiting == {i \in DOMAIN locals : locals[i].noop # 0}
      next == CHOOSE i \in waiting : \A j \in waiting :
                \/ locals[i].noop < locals[j].noop
                \/ locals[i].noop = locals[j].noop /\ i <= j
  IN  IF waiting = {} THEN 0 ELSE locals[next].user

LocalOf(w, u) == CHOOSE i \in DOMAIN w.locals : w.locals[i].user = u
IsLocal(w, u) == \E i \in DOMAIN w.locals : w.locals[i].user = u

ScheduleNoopTimer(w) ==
  IF w.next = 0 THEN [w EXCEPT !.due = 0]
  ELSE LET sched == w.locals[LocalOf(w, w.next)].noop + NoopInterval
       IN  [w EXCEPT !.due = IF sched >= now THEN sched ELSE now]

StartNoopTimer(w, i) ==
  LET started == [w EXCEPT !.locals[i].noop = now]
  IN  IF w.due # 0 THEN started
      ELSE ScheduleNoopTimer([started EXCEPT !.next = FindNextNoopUser(started.locals)])

StopNoopTimer(w, u) ==
  LET stopped == [w EXCEPT !.locals[LocalOf(w, u)].noop = 0]
      next == FindNextNoopUser(stopped.locals)
  IN  IF w.locals[LocalOf(w, u)].noop = 0 THEN w
      ELSE IF next # w.next THEN ScheduleNoopTimer([stopped EXCEPT !.next = next])
      ELSE stopped

------------------------------------------------------------------------------
(* Execution, which the algorithm reports *)

\* The other local users have something to tell; who does something is active.
ExecuteRequestCb(w, u, kind) ==
  LET Start(x, i) == IF x.locals[i].noop = 0 /\ x.locals[i].user # u
                     THEN StartNoopTimer(x, i) ELSE x
      told == IF kind = "text" THEN FoldLeft(Start, w, [i \in DOMAIN w.locals |-> i]) ELSE w
  IN  IF kind # "noop" /\ w.status[u] = "inactive"
      THEN [told EXCEPT !.status[u] = "active"] ELSE told

Execute(w, u, kind) ==
  LET told == ExecuteRequestCb(w, u, kind)
  IN  IF kind = "text" THEN [told EXCEPT !.current = Up(@, u, 1)] ELSE told

Broadcast(h, w, messages) ==
  /\ host' = [host EXCEPT ![h] = w]
  /\ link' = [link EXCEPT ![h] = @ \o messages]

\* n requests that were made from vector on, as one message.
Request(w, u, kind, vector, n) ==
  [type |-> "request", user |-> u, kind |-> kind, num |-> n, caret |-> w.caret[u],
   diff |-> ToDiff(vector, w.locals[LocalOf(w, u)].last), vector |-> vector]

\* Mutant: of several requests, only the first counts as sent.
BroadcastNRequests_One(w, u, kind, vector, n) ==
  StopNoopTimer([w EXCEPT !.locals[LocalOf(w, u)].last =
                   IF kind = "text" THEN Up(vector, u, 1) ELSE vector], u)

BroadcastNRequests(w, u, kind, vector, n) ==
  StopNoopTimer([w EXCEPT !.locals[LocalOf(w, u)].last =
                   IF kind = "text" THEN Up(vector, u, n) ELSE vector], u)

\* Requests are generated, executed here, and sent.
Generate(h, w, u, kind, n) ==
  LET Again(x, i) == Execute(x, u, kind)
      done == FoldLeft(Again, w, [i \in 1 .. n |-> i])
  IN  Broadcast(h, BroadcastNRequests(done, u, kind, w.current, n),
                <<Request(w, u, kind, w.current, n)>>)

------------------------------------------------------------------------------
(* Local users come and go *)

AddLocalUser(w, u) ==
  LET local == [user |-> u, last |-> w.vector[u], noop |-> 0, update |-> now, caret |-> 0]
      added == [w EXCEPT !.locals = <<local>> \o @, !.vector[u] = w.current]
  IN  IF w.current # w.vector[u] THEN StartNoopTimer(added, 1) ELSE added

RemoveLocalUser(w, u) ==
  LET stopped == StopNoopTimer(w, u)
      Others(l) == l.user # u
  IN  [stopped EXCEPT !.locals = SelectSeq(@, Others)]

SetStatus(w, u, status) ==
  IF status = "unavailable" /\ IsLocal(w, u)
  THEN [RemoveLocalUser(w, u) EXCEPT !.status[u] = status]
  ELSE [w EXCEPT !.status[u] = status]

------------------------------------------------------------------------------
(* The users *)

Does(u, deed) ==
  /\ deed \in habits.does[u] /\ did[u] < habits.most[u]
  /\ did' = [did EXCEPT ![u] = @ + 1]
  /\ UNCHANGED <<habits, now, errors>>
Busy(u) == [host[HostOf[u]] EXCEPT !.rests = @ \ {u}]
Here(u) == ~host[HostOf[u]].closed /\ IsLocal(host[HostOf[u]], u)

\* Text is inserted or erased: the buffer has changed already.
Edit(u) == Here(u) /\ Does(u, "edit") /\ Generate(HostOf[u], Busy(u), u, "text", 1)

\* Two steps at once (there are two).
UndoTwice(u) == Here(u) /\ Does(u, "undo") /\ Generate(HostOf[u], Busy(u), u, "text", 2)

\* The caret is sent, at once or when the interval has elapsed.
Moved(w, u) == [w EXCEPT !.caret[u] = @ + 1]
CaretSent(w, u) ==
  [w EXCEPT !.locals[LocalOf(w, u)].update = now, !.locals[LocalOf(w, u)].caret = 0]
BroadcastCaret(h, w, u) == Generate(h, CaretSent(w, u), u, "caret", 1)

Move(u) ==
  LET h == HostOf[u]
      w == Moved(Busy(u), u)
      l == w.locals[LocalOf(w, u)]
      diff == now - l.update
  IN  /\ Here(u) /\ Does(u, "move")
      /\ IF diff >= CaretInterval THEN BroadcastCaret(h, w, u)
         ELSE /\ host' = [host EXCEPT ![h] = IF l.caret # 0 THEN w ELSE
                            [w EXCEPT !.locals[LocalOf(w, u)].caret = now + CaretInterval - diff]]
              /\ UNCHANGED link

Status(u, status) == [type |-> "status", user |-> u, status |-> status]

\* Before that, the requests of the user should be flushed, as is documented.
Rest(u) == \E flush \in BOOLEAN :
  LET h == HostOf[u]
      w == host[h]
      flushes == flush /\ w.locals[LocalOf(w, u)].caret # 0
      from == IF flushes THEN BroadcastNRequests(CaretSent(w, u), u, "caret", w.current, 1) ELSE w
      late == from.locals[LocalOf(w, u)].caret # 0
  IN  /\ Here(u) /\ Does(u, "rest") /\ w.status[u] = "active"
      /\ Broadcast(h, [SetStatus(from, u, "inactive") EXCEPT !.rests = IF late THEN @ ELSE @ \cup {u}],
           (IF flushes THEN <<Request(w, u, "caret", w.current, 1)>> ELSE <<>>)
             \o <<Status(u, "inactive")>>)

Leave(u) ==
  LET h == HostOf[u]
  IN  /\ Here(u) /\ Does(u, "leave")
      /\ Broadcast(h, SetStatus(host[h], u, "unavailable"), <<Status(u, "unavailable")>>)

\* A user who is not there asks to join (again), with the vector of the moment.
Join(u) ==
  LET h == HostOf[u]
      w == host[h]
  IN  /\ ~w.closed /\ w.status[u] = "unavailable" /\ ~w.asked[u] /\ Does(u, "leave")
      /\ Broadcast(h, [w EXCEPT !.asked[u] = TRUE],
           <<[type |-> "join", user |-> u, vector |-> w.current, caret |-> w.caret[u]]>>)

\* The session is closed: local users are freed, but not what refers to them.
Close(u) ==
  LET h == HostOf[u]
  IN  /\ ~host[h].closed /\ Does(u, "close")
      /\ host' = [host EXCEPT ![h].closed = TRUE, ![h].locals = <<>>]
      /\ UNCHANGED link

------------------------------------------------------------------------------
(* Timeouts *)

NoopTimeout(h) ==
  LET w == [host[h] EXCEPT !.due = 0]
  IN  /\ host[h].due # 0 /\ host[h].due <= now
      /\ IF w.closed THEN /\ errors' = errors \cup {"user freed"}
                          /\ host' = [host EXCEPT ![h] = w]
                          /\ UNCHANGED link
         ELSE Generate(h, w, w.next, "noop", 1) /\ UNCHANGED errors
      /\ UNCHANGED <<habits, did, now>>

CaretTimeout(h) == \E i \in DOMAIN host[h].locals :
  /\ host[h].locals[i].caret # 0 /\ host[h].locals[i].caret <= now
  /\ BroadcastCaret(h, host[h], host[h].locals[i].user)
  /\ UNCHANGED <<habits, did, now, errors>>

Tick == now < MaxTime /\ now' = now + 1 /\ UNCHANGED <<habits, did, host, link, errors>>

------------------------------------------------------------------------------
(* Messages arrive *)

\* A request stands for as many as it says.
ReceivedRequest(w, m) ==
  LET vector == FromDiff(m.diff, w.vector[m.user])
      Again(x, i) == Execute(x, m.user, m.kind)
      done == FoldLeft(Again, w, [i \in 1 .. m.num |-> i])
  IN  [done EXCEPT !.vector[m.user] = IF m.kind = "text" THEN Up(vector, m.user, m.num) ELSE vector,
                   !.caret[m.user] = IF m.kind = "caret" THEN m.caret ELSE @]

Receive(h) ==
  LET o == Other(h)
      w == host[h]
      m == Head(link[o])
      rest == [link EXCEPT ![o] = Tail(@)]
      joined == [w EXCEPT !.status[m.user] = "active", !.vector[m.user] = m.vector,
                          !.caret[m.user] = m.caret]
  IN  /\ link[o] # <<>>
      /\ errors' = errors \cup
           (IF m.type = "request" /\ ~w.closed
            THEN (IF w.status[m.user] = "unavailable" THEN {"not joined"} ELSE {}) \cup
                 (IF FromDiff(m.diff, w.vector[m.user]) # m.vector THEN {"vector"} ELSE {})
            ELSE {})
      /\ CASE w.closed -> link' = rest /\ UNCHANGED host
           [] m.type = "request" /\ ~w.closed ->
                link' = rest /\ host' = [host EXCEPT ![h] = ReceivedRequest(w, m)]
           [] m.type = "status" /\ ~w.closed ->
                link' = rest /\ host' = [host EXCEPT ![h] = SetStatus(w, m.user, m.status)]
           [] m.type = "join" /\ ~w.closed ->
                /\ host' = [host EXCEPT ![h] = joined]
                /\ link' = [rest EXCEPT ![h] = Append(@, [m EXCEPT !.type = "joined"])]
           [] OTHER ->
                /\ host' = [host EXCEPT ![h] = AddLocalUser([joined EXCEPT !.asked[m.user] = FALSE], m.user)]
                /\ link' = rest
      /\ UNCHANGED <<habits, did, now>>

------------------------------------------------------------------------------

\* All users are there, and have told nothing so far.
SessionOf(h) ==
  LET locals == SetToSortSeq(LocalTo(h), LAMBDA u, v : u > v)
  IN  [current |-> Zero, vector |-> [u \in Users |-> Zero], closed |-> FALSE,
       status |-> [u \in Users |-> "active"], caret |-> Zero, due |-> 0, next |-> 0,
       asked |-> [u \in Users |-> FALSE], rests |-> {},
       locals |-> [i \in DOMAIN locals |->
         [user |-> locals[i], last |-> Zero, noop |-> 0, update |-> 1, caret |-> 0]]]

AdoptedSessionInit ==
  /\ habits \in Habits /\ did = Zero /\ now = 1 /\ errors = {}
  /\ host = [h \in Hosts |-> SessionOf(h)]
  /\ link = [h \in Hosts |-> <<>>]

AdoptedSessionNext ==
  \/ Tick
  \/ \E u \in Users : Edit(u) \/ UndoTwice(u) \/ Move(u) \/ Rest(u) \/ Leave(u) \/ Join(u) \/ Close(u)
  \/ \E h \in Hosts : NoopTimeout(h) \/ CaretTimeout(h) \/ Receive(h)

------------------------------------------------------------------------------
(* Properties *)

Of(m, u) == m.type = "request" /\ m.user = u
Pending(h, u) == SelectSeq(link[h], LAMBDA m : Of(m, u))

\* What is on the way, read one after the other from the vector that the receiver
\* has, leads to the vector that the sender takes the next difference to.
DifferencesExact == \A h \in Hosts : \A i \in DOMAIN host[h].locals :
  LET l == host[h].locals[i]
      Read(v, m) == Up(FromDiff(m.diff, v), m.user, IF m.kind = "text" THEN m.num ELSE 0)
      o == host[Other(h)]
  IN  o.closed \/ FoldLeft(Read, o.vector[l.user], Pending(h, l.user)) = l.last

\* Who has something to tell waits, and the timer runs for who has waited longest.
NoopTimerExact == \A h \in Hosts :
  LET w == host[h]
  IN  w.closed \/
      /\ \A i \in DOMAIN w.locals : w.locals[i].noop # 0 <=> w.locals[i].last # w.current
      /\ (w.due = 0) <=> (w.next = 0)
      /\ w.next = FindNextNoopUser(w.locals) \/
           w.locals[LocalOf(w, w.next)].noop =
             w.locals[LocalOf(w, FindNextNoopUser(w.locals))].noop
      /\ w.next # 0 => w.due <= w.locals[LocalOf(w, w.next)].noop + NoopInterval \/ w.due <= now

\* A caret that nobody is going to send has been sent.
CaretsSent == \A h \in Hosts : \A i \in DOMAIN host[h].locals :
  LET l == host[h].locals[i]
      sent == SelectSeq(Pending(h, l.user), LAMBDA m : m.kind = "caret")
      o == host[Other(h)]
  IN  l.caret = 0 /\ ~o.closed =>
        host[h].caret[l.user] = IF sent = <<>> THEN o.caret[l.user] ELSE sent[Len(sent)].caret

Idle(h) == host[h].due = 0 /\ \A i \in DOMAIN host[h].locals : host[h].locals[i].caret = 0

\* When nothing is on the way and nobody waits, both have the same document, users
\* and carets, and each knows that the other has.
AllTold ==
  (\A h \in Hosts : link[h] = <<>> /\ Idle(h) /\ ~host[h].closed) =>
    /\ \A h \in Hosts : \A i \in DOMAIN host[h].locals :
         host[Other(h)].vector[host[h].locals[i].user] = host[h].current
    /\ \A h, o \in Hosts : host[h].current = host[o].current /\ host[h].status = host[o].status
                           /\ host[h].caret = host[o].caret

\* Who rests, and had everything sent before, rests until they do something.
RestUndisturbed == \A h \in Hosts : \A u \in host[h].rests :
  ~host[h].closed /\ IsLocal(host[h], u) => host[h].status[u] = "inactive"

SessionsTell ==
  /\ DifferencesExact /\ NoopTimerExact /\ CaretsSent /\ AllTold /\ RestUndisturbed
  /\ errors \subseteq {"user freed"}
==============================================================================
