------------------------------ MODULE TextCarets ------------------------------
(***************************************************************************)
(* The carets and selections that the users of a text session see of each  *)
(* other: InfTextUser, InfTextMoveOperation, and the handlers and messages *)
(* of InfTextSession that keep them in place while the text changes.       *)
(*                                                                         *)
(* User 1, at host 1, writes; user 2, at host 2, reads, and moves its      *)
(* caret while changes of the text are on their way.  Characters are       *)
(* numbered, so that a selection is the set of characters it covers.       *)
(* Positions are unsigned and lengths signed integers, as wide as Word.    *)
(***************************************************************************)
EXTENDS Integers, Sequences, FiniteSets, SequencesExt

\* A story bounds what happens: the length of the first text and of an insert, how many
\* changes the writer makes, how often a user moves or changes color, and how often the
\* reader leaves.
CONSTANTS Word, Stories

CaretsAssumption ==
  /\ Word \in Nat /\ Word % 2 = 0
  /\ \A s \in Stories : Word > 4 * (s.length + s.changes * s.inserted)

CaretUsers == {1, 2}
Writer == 1
Reader == 2
CaretHosts == CaretUsers     \* a user is at the host of its number
Peer(h) == 3 - h

VARIABLES
  text,      \* the buffer at each host
  user,      \* what each host knows of each user: caret, selection, hue, whether it is there
  wire,      \* what is on its way to each host
  changes,   \* the writer's changes, and how many of them host 2 has executed
  timeout,   \* users whose caret is going to be told
  done,      \* how often users have moved or changed color, and left
  story

carets == <<text, user, wire, changes, timeout, done, story>>

------------------------------------------------------------------------------
(* Arithmetic *)

Unsigned(n) == n % Word
Signed(n) == IF Unsigned(n) < Word \div 2 THEN Unsigned(n) ELSE Unsigned(n) - Word

Caret(position, length) == [position |-> Unsigned(position), length |-> Signed(length)]
Bound(c) == Unsigned(c.position + c.length)

------------------------------------------------------------------------------
(* Moving carets *)

\* Mutant: an insert at the end of a selection is selected, too.
TransformInsert_Enlarges(pos, len, c, left) ==
  LET first == IF c.position < Bound(c) THEN c.position ELSE Bound(c)
      shift(n) == IF pos < n \/ (pos = n /\ (~left \/ n # first \/ c.length # 0)) THEN n + len ELSE n
  IN  Caret(shift(c.position), shift(Bound(c)) - shift(c.position))

\* A caret alone moves if it is behind, or at the same place and without left gravity.  Of a
\* selection, text at its begin moves it and text at its end does not belong to it.
TransformInsert(pos, len, c, left) ==
  LET bound == Bound(c)
      low == IF bound > c.position THEN c.position ELSE bound
      high == IF bound > c.position THEN bound ELSE c.position
      shift(n) == IF pos <= low \/ (n = high /\ pos < high) THEN n + len ELSE n
  IN  IF bound = c.position
      THEN IF pos < c.position \/ (pos = c.position /\ ~left) THEN Caret(c.position + len, 0) ELSE c
      ELSE Caret(shift(c.position), shift(bound) - shift(c.position))

PositionAfterErase(pos, len, n) ==
  CASE n >= Unsigned(pos + len) -> n - len
    [] n < Unsigned(pos + len) /\ n > pos -> pos
    [] OTHER -> n

\* The selection goes to the left of the caret.
LeftAfterErase(pos, len, c) ==
  LET end == Unsigned(pos + len)
      bound == Bound(c)
  IN  IF end <= bound THEN c.length
      ELSE IF pos >= c.position THEN c.length
      ELSE IF pos <= bound THEN (IF end >= c.position THEN 0 ELSE -Signed(c.position - end))
      ELSE IF end > c.position THEN pos - bound
      ELSE c.length + len

RightAfterErase(pos, len, c) ==
  LET end == Unsigned(pos + len)
      bound == Bound(c)
  IN  IF end <= c.position THEN c.length
      ELSE IF pos >= bound THEN c.length
      ELSE IF pos <= c.position THEN (IF end >= bound THEN 0 ELSE bound - end)
      ELSE IF end > bound THEN c.position - pos
      ELSE c.length - len

TransformDelete(pos, len, c) ==
  Caret(PositionAfterErase(pos, len, c.position),
        IF c.length < 0 THEN LeftAfterErase(pos, len, c) ELSE RightAfterErase(pos, len, c))

\* Mutant: text that was inserted at the caret moves it.
TransformMove_Behind(c, change) ==
  IF change.name = "insert" THEN TransformInsert(change.pos, Len(change.text), c, FALSE)
  ELSE TransformDelete(change.pos, change.len, c)

\* A move that was made before a change of the text.
TransformMove(c, change) ==
  IF change.name = "insert" THEN TransformInsert(change.pos, Len(change.text), c, TRUE)
  ELSE TransformDelete(change.pos, change.len, c)

------------------------------------------------------------------------------
(* Requests as messages: an erase tells only how much is erased *)

InsertToXml(pos, chunk) == [name |-> "insert", pos |-> pos, text |-> chunk]
DeleteToXml(pos, len) == [name |-> "delete", pos |-> pos, len |-> len]
\* With a move goes how many changes its user had executed.
MoveToXml(c, vector) ==
  [name |-> "move", caret |-> c.position, selection |-> c.length, vector |-> vector]

Erased(t, pos, len) == SubSeq(t, 1, pos) \o SubSeq(t, pos + len + 1, Len(t))
Inserted(t, pos, chunk) == SubSeq(t, 1, pos) \o chunk \o SubSeq(t, pos + 1, Len(t))

\* Text was inserted: the carets of those who are there move, that of the author to behind
\* the text.
TextInserted(users, pos, len, author) ==
  [u \in CaretUsers |-> IF ~users[u].there THEN users[u]
    ELSE [users[u] EXCEPT !.caret = TransformInsert(pos, len, @, u # author)]]

TextErased(users, pos, len) ==
  [u \in CaretUsers |-> IF ~users[u].there THEN users[u]
    ELSE [users[u] EXCEPT !.caret = TransformDelete(pos, len, @)]]

\* A host executes a change of the writer.
ExecuteInsert(h, m) ==
  /\ text' = [text EXCEPT ![h] = Inserted(@, m.pos, m.text)]
  /\ user' = [user EXCEPT ![h] = TextInserted(@, m.pos, Len(m.text), Writer)]

ExecuteDelete(h, m) ==
  /\ text' = [text EXCEPT ![h] = Erased(@, m.pos, m.len)]
  /\ user' = [user EXCEPT ![h] = TextErased(@, m.pos, m.len)]

Send(h, m) == wire' = [wire EXCEPT ![Peer(h)] = Append(@, m)]

------------------------------------------------------------------------------
(* The users *)

CaretsInit ==
  /\ story \in Stories
  /\ text = [h \in CaretHosts |-> [i \in 1 .. story.length |-> i]]
  /\ user = [h \in CaretHosts |-> [u \in CaretUsers |-> [caret |-> Caret(0, 0), hue |-> 0, there |-> TRUE]]]
  /\ wire = [h \in CaretHosts |-> <<>>]
  /\ changes = [made |-> <<>>, executed |-> 0]
  /\ timeout = {}
  /\ done = [moves |-> 0, visits |-> 0]

Change(m) ==
  /\ Len(changes.made) < story.changes
  /\ changes' = [changes EXCEPT !.made = Append(@, m)]
  /\ Send(Writer, m)
  /\ UNCHANGED <<timeout, done, story>>

InsertText(pos, n) ==
  /\ pos <= Len(text[Writer])
  /\ LET number == story.length + story.inserted * Len(changes.made)
         m == InsertToXml(pos, [i \in 1 .. n |-> number + i])
     IN  Change(m) /\ ExecuteInsert(Writer, m)

EraseText(pos, n) ==
  /\ pos + n <= Len(text[Writer])
  /\ LET m == DeleteToXml(pos, n) IN Change(m) /\ ExecuteDelete(Writer, m)

\* Where a user is, as it is told.
Broadcast(u, c) == Send(u, MoveToXml(c, changes.executed))

\* A user selects: the others hear of it at once, or later if they heard of a caret a
\* moment ago.
MoveCaret(u, c) ==
  /\ user[u][u].there /\ done.moves < story.moves
  /\ user' = [user EXCEPT ![u][u].caret = c]
  /\ \/ Broadcast(u, c) /\ timeout' = timeout \ {u}
     \/ timeout' = timeout \cup {u} /\ UNCHANGED wire
  /\ done' = [done EXCEPT !.moves = @ + 1]
  /\ UNCHANGED <<text, changes, story>>

CaretTimeout(u) ==
  /\ u \in timeout
  /\ Broadcast(u, user[u][u].caret)
  /\ timeout' = timeout \ {u}
  /\ UNCHANGED <<text, user, changes, done, story>>

SetUserColor(u) ==
  /\ user[u][u].there /\ done.moves < story.moves
  /\ user' = [user EXCEPT ![u][u].hue = 1 - @]
  /\ Send(u, [name |-> "user-color-change", hue |-> 1 - user[u][u].hue])
  /\ done' = [done EXCEPT !.moves = @ + 1]
  /\ UNCHANGED <<text, changes, timeout, story>>

\* The reader goes, and forgets that its caret was to be told.
LeaveUser ==
  /\ user[Reader][Reader].there /\ done.visits < story.visits
  /\ user' = [user EXCEPT ![Reader][Reader].there = FALSE]
  /\ Send(Reader, [name |-> "user-status-change"])
  /\ timeout' = timeout \ {Reader}
  /\ done' = [done EXCEPT !.visits = @ + 1]
  /\ UNCHANGED <<text, changes, story>>

\* It asks to join again, with a caret and a color; nothing says whether the caret still
\* is in the text when it joins.
UserProps(c, hue) == [name |-> "user-join", caret |-> c, hue |-> hue]
JoinUser(c) ==
  /\ ~user[Reader][Reader].there
  /\ \A i \in DOMAIN wire[Writer] : wire[Writer][i].name # "user-join"
  /\ \A i \in DOMAIN wire[Reader] : wire[Reader][i].name # "user-join"
  /\ Send(Reader, UserProps(c, user[Reader][Reader].hue))
  /\ UNCHANGED <<text, user, changes, timeout, done, story>>

------------------------------------------------------------------------------
(* Receiving *)

Joined(m) == [caret |-> m.caret, hue |-> m.hue, there |-> TRUE]

ReceiveChange(h, m) ==
  /\ IF m.name = "insert" THEN ExecuteInsert(h, m) ELSE ExecuteDelete(h, m)
  /\ changes' = [changes EXCEPT !.executed = @ + 1]

\* A move is brought up to date with the changes its user did not know.  A user who is not
\* there has no requests.
MoveFromXml(h, m) ==
  LET unknown == IF h = Writer THEN SubSeq(changes.made, m.vector + 1, Len(changes.made)) ELSE <<>>
  IN  FoldLeft(TransformMove, Caret(m.caret, m.selection), unknown)

\* Who is not there has no color to change.
HandleUserColorChange(h, u, m) ==
  user' = IF user[h][u].there THEN [user EXCEPT ![h][u].hue = m.hue] ELSE user

ReceiveUser(h, m) ==
  LET u == Peer(h) IN
  CASE m.name = "move" -> user' = [user EXCEPT ![h][u].caret = MoveFromXml(h, m)]
    [] m.name = "user-color-change" -> HandleUserColorChange(h, u, m)
    [] m.name = "user-status-change" -> user' = [user EXCEPT ![h][u].there = FALSE]
    [] m.name = "user-join" -> user' = [user EXCEPT ![h][Reader] = Joined(m)]

\* The writer's host answers a request to join, so that both know.
ReceiveCaret(h) ==
  /\ wire[h] # <<>>
  /\ LET m == Head(wire[h])
         rest == [wire EXCEPT ![h] = Tail(@)]
     IN  /\ IF m.name \in {"insert", "delete"} THEN ReceiveChange(h, m)
            ELSE ReceiveUser(h, m) /\ UNCHANGED <<text, changes>>
         /\ wire' = IF m.name = "user-join" /\ h = Writer
                    THEN [rest EXCEPT ![Reader] = Append(@, m)] ELSE rest
  /\ UNCHANGED <<timeout, done, story>>

Places == {Caret(p, q - p) : p, q \in 0 .. story.length}
CaretsNext ==
  \/ \E pos \in 0 .. story.length, n \in 1 .. story.inserted : InsertText(pos, n)
  \/ \E pos, n \in 0 .. story.length : n > 0 /\ EraseText(pos, n)
  \/ \E u \in CaretUsers :
       \/ \E c \in Places : c.position <= Len(text[u]) /\ Bound(c) <= Len(text[u]) /\ MoveCaret(u, c)
       \/ CaretTimeout(u)
       \/ SetUserColor(u)
  \/ LeaveUser
  \/ \E p \in 0 .. story.length : p <= Len(text[Reader]) /\ JoinUser(Caret(p, 0))
  \/ \E h \in CaretHosts : ReceiveCaret(h)
CaretsSpec == CaretsInit /\ [][CaretsNext]_carets

------------------------------------------------------------------------------
(* Properties *)

Quiet == timeout = {} /\ \A h \in CaretHosts : wire[h] = <<>>

\* Once everything has arrived and no caret is to be told, both hosts see the same users
\* with the same carets, selections and colors, however moves and changes of the text
\* have crossed.
CaretsAgree ==
  Quiet => /\ text[1] = text[2]
           /\ \A u \in CaretUsers : user[1][u] = user[2][u] \/ ~(user[1][u].there \/ user[2][u].there)

\* The characters before a position, and those that are selected.
Before(t, n) == {t[i] : i \in DOMAIN t \cap 1 .. n}
Selected(t, c) == (Before(t, Bound(c)) \ Before(t, c.position)) \cup (Before(t, c.position) \ Before(t, Bound(c)))

\* An erase takes the end of a selection and what follows, but not its begin.
CutsEnd(t, c, after) ==
  LET chosen == Selected(t, c)
      end == IF Bound(c) > c.position THEN Bound(c) ELSE c.position
  IN  /\ chosen \cap ToSet(after) # {} /\ end < Len(t)
      /\ end > 0 /\ {t[end], t[end + 1]} \cap ToSet(after) = {}

\* The first and the last character of a selection.
Ends(t, c) ==
  IF Selected(t, c) = {} THEN {}
  ELSE LET low == IF c.position < Bound(c) THEN c.position ELSE Bound(c)
       IN  {t[low + 1], t[low + Cardinality(Selected(t, c))]}

\* Text that is inserted beside a selection does not belong to it.
Follows(t, after, c, d) ==
  /\ Before(t, c.position) \cap ToSet(after) = Before(after, d.position) \cap ToSet(t)
  /\ Selected(t, c) \cap ToSet(after) = Selected(after, d) \cap ToSet(t)
  /\ Ends(after, d) \subseteq ToSet(t)

InText(t, c) == c.position <= Len(t) /\ Bound(c) <= Len(t)

\* Whoever changes the text, the caret of everyone else stays between the same characters
\* and the selection covers the same ones, if it was in the text.
RegionsFollow ==
  [][\A h \in CaretHosts, u \in CaretUsers :
       LET c == user[h][u].caret IN
       text'[h] # text[h] /\ user[h][u].there /\ InText(text[h], c) /\ ~CutsEnd(text[h], c, text'[h])
         => Follows(text[h], text'[h], c, user'[h][u].caret)]_carets
==============================================================================
