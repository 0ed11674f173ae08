----------------------------- MODULE MCDocuments -----------------------------
(* What a document and its session are made of, for TLC: vectors as they are kept  *)
(* and sent, the text as it is kept, the carets in it, the session with its timers *)
(* between two hosts, the chat, the recording of a session and its replay, and the *)
(* text with its cursor in a GtkTextBuffer.  In a behavior one of them moves, and  *)
(* the others stay as they were at the start.                                      *)
EXTENDS SessionRecord

CONSTANTS Everyone, Hosts, Ids, MaxN, Authors, Chars, MaxLength, MaxInserted
CONSTANTS NoopInterval, CaretInterval, MaxTime, Habits, Chats
CONSTANTS Word, Stories, Plots

VARIABLES part, vec, orig, chunk, modified, content
VARIABLES habits, did, now, host, link, errors
VARIABLES chat, said, left, time, room, wire, refused
VARIABLES text, user, pipe, typed, timeout, done, story
VARIABLES gtk, plot

vectorVars == <<vec, orig>>
chunkVars == <<chunk, modified, content>>
sessionVars == <<habits, did, now, host, link, errors>>
chatVars == <<chat, said, left, time, room, wire, refused>>
caretVars == <<text, user, pipe, typed, timeout, done, story>>
gtkVars == <<gtk, plot>>

\* Of everyone, the Users of a record among them, the third is at the server.
HostOf == [u \in Everyone |-> IF u = 3 THEN "server" ELSE "client"]

V == INSTANCE SortedVector
T == INSTANCE TextChunk WITH Code <- [c \in Chars |-> IF c = 1 THEN <<1>> ELSE <<2, 0>>], PieceBytes <- 3
S == INSTANCE AdoptedSession WITH Users <- Everyone
C == INSTANCE ChatRoom WITH Clients <- Hosts \ {"server"}, Server <- "server", Size <- 3, FirstAlloc <- 2,
       Users <- Everyone \ {1}, UserHost <- [u \in Everyone \ {1} |-> HostOf[u]]
P == INSTANCE TextCarets WITH wire <- pipe, changes <- typed
G == INSTANCE GtkTextBuffer WITH Locals <- Users, Remote <- 3

ASSUME TextChunkAssumption == T!TextChunkAssumption
ASSUME AdoptedSessionAssumption == S!AdoptedSessionAssumption
ASSUME ChatAssumption == C!ChatAssumption
ASSUME RecordAssumption
ASSUME CaretsAssumption == P!CaretsAssumption
ASSUME GtkAssumption == G!GtkAssumption

------------------------------------------------------------------------------
(* What users do: edit and move, rest, leave and come back, close the session *)

Habit(a, b, c, m, n, o) == [does |-> <<a, b, c>>, most |-> <<m, n, o>>]
MCHabits ==
  {Habit({"edit", "move"}, {"undo"}, {}, 2, 1, 0),
   Habit({"move", "rest"}, {"edit"}, {}, 3, 1, 0),
   Habit({"edit", "leave"}, {}, {"edit"}, 3, 0, 1),
   Habit({"edit"}, {}, {"edit", "close"}, 1, 0, 2)}

\* More is said than the buffer holds; users and connections go, logs are opened; the
\* server's clock is ahead.
Silence == [ahead |-> 0, says |-> [u \in Everyone \ {1} |-> 0], ticks |-> 0, leaves |-> 0, losses |-> 0, logs |-> 0]
MCChats ==
  {[Silence EXCEPT !.says = [u \in Everyone \ {1} |-> 2], !.ticks = 1],
   [Silence EXCEPT !.says[3] = 1, !.leaves = 1, !.losses = 1, !.logs = 1],
   [Silence EXCEPT !.says = [u \in Everyone \ {1} |-> IF u = 2 THEN 2 ELSE 1], !.ahead = 2, !.ticks = 1]}

\* A selection and two changes, two carets in a text of two, and a reader who goes and
\* comes back.
Story(length, inserted, changed, moves, visits) ==
  [length |-> length, inserted |-> inserted, changes |-> changed, moves |-> moves, visits |-> visits]
MCStories == {Story(3, 1, 2, 1, 0), Story(2, 2, 1, 2, 0), Story(1, 1, 1, 1, 1)}

\* A cursor moves and the text changes, twice; a setting changes between two changes; three
\* changes in each other, of which one may be taken by surprise; a cursor moves while its
\* user rests; it moves twice around a change of settings; text of two authors at once.
Plot(authors, edits, inserted, depth, moves, sets) ==
  [authors |-> authors, edits |-> edits, inserted |-> inserted, depth |-> depth, moves |-> moves, sets |-> sets]
MCPlots ==
  {Plot(<<3, 0>>, 2, 1, 1, 1, 0), Plot(<<1, 3>>, 2, 1, 1, 0, 1), Plot(<<3>>, 3, 1, 2, 0, 0),
   Plot(<<1, 3>>, 1, 1, 1, 3, 0), Plot(<<1>>, 1, 1, 1, 2, 1), Plot(<<3>>, 1, 2, 1, 1, 0)}

------------------------------------------------------------------------------

DocumentsInit ==
  /\ V!VectorInit /\ T!ChunkInit /\ S!AdoptedSessionInit /\ C!ChatInit /\ RecordInit
  /\ P!CaretsInit /\ G!GtkInit
  /\ part \in {"vector", "chunk", "session", "chat", "record", "carets", "gtk"}
  /\ part # "session" => habits = CHOOSE x \in Habits : TRUE
  /\ part # "chat" => chat = CHOOSE x \in Chats : TRUE
  /\ part # "carets" => story = CHOOSE x \in Stories : TRUE
  /\ part # "gtk" => plot = CHOOSE x \in Plots : TRUE

InVector == part = "vector" /\ UNCHANGED <<part, chunkVars, sessionVars, chatVars, record, caretVars, gtkVars>>
InChunk == part = "chunk" /\ UNCHANGED <<part, vectorVars, sessionVars, chatVars, record, caretVars, gtkVars>>
InSession == part = "session" /\ UNCHANGED <<part, vectorVars, chunkVars, chatVars, record, caretVars, gtkVars>>
InChat == part = "chat" /\ UNCHANGED <<part, vectorVars, chunkVars, sessionVars, record, caretVars, gtkVars>>
InRecord == part = "record" /\ UNCHANGED <<part, vectorVars, chunkVars, sessionVars, chatVars, caretVars, gtkVars>>
InCarets ==
  /\ part = "carets"
  /\ UNCHANGED <<part, vectorVars, chunkVars, sessionVars, chatVars, record, gtkVars>>
InGtk ==
  /\ part = "gtk"
  /\ UNCHANGED <<part, vectorVars, chunkVars, sessionVars, chatVars, record, caretVars>>

TextMoves ==
  \/ InVector /\ V!SetComponent
  \/ InVector /\ V!AddComponent
  \/ InVector /\ V!CopyVector
  \/ InVector /\ V!ReadVector
  \/ InVector /\ V!ReadDiff
  \/ InChunk /\ T!BufferInsertChunk
  \/ InChunk /\ T!BufferEraseText
  \/ InChunk /\ T!BufferSetModified

SessionMoves ==
  \/ InSession /\ S!Tick
  \/ \E u \in Everyone :
       \/ InSession /\ S!Edit(u)
       \/ InSession /\ S!UndoTwice(u)
       \/ InSession /\ S!Move(u)
       \/ InSession /\ S!Rest(u)
       \/ InSession /\ S!Leave(u)
       \/ InSession /\ S!Join(u)
       \/ InSession /\ S!Close(u)
  \/ \E h \in Hosts :
       \/ InSession /\ S!NoopTimeout(h)
       \/ InSession /\ S!CaretTimeout(h)
       \/ InSession /\ S!Receive(h)

ChatMoves ==
  \/ InChat /\ C!Tick
  \/ \E u \in Everyone \ {1} :
       \/ InChat /\ C!Say(u)
       \/ InChat /\ C!Join(u)
       \/ InChat /\ C!Leave(u)
  \/ \E c \in Hosts \ {"server"} :
       \/ InChat /\ C!Subscribe(c)
       \/ InChat /\ C!Lose(c)
       \/ InChat /\ C!ServerReceive(c)
       \/ InChat /\ C!ClientReceive(c)
  \/ \E h \in Hosts : InChat /\ C!SetLogFile(h)

RecordMoves ==
  \/ InRecord /\ StartRecording
  \/ InRecord /\ StopRecording
  \/ InRecord /\ Crash
  \/ InRecord /\ ExecuteRequest
  \/ InRecord /\ AddUser
  \/ InRecord /\ ChangeStatus
  \/ InRecord /\ SynchronizationComplete
  \/ InRecord /\ CloseSession
  \/ InRecord /\ SetRecord
  \/ InRecord /\ PlayNext

CaretMoves ==
  \/ \E p \in 0 .. story.length, n \in 1 .. story.inserted : InCarets /\ P!InsertText(p, n)
  \/ \E p, n \in 0 .. story.length : InCarets /\ n > 0 /\ P!EraseText(p, n)
  \/ \E u \in P!CaretUsers :
       \/ \E c \in P!Places : InCarets /\ P!InText(text[u], c) /\ P!MoveCaret(u, c)
       \/ InCarets /\ P!CaretTimeout(u)
       \/ InCarets /\ P!SetUserColor(u)
  \/ InCarets /\ P!LeaveUser
  \/ \E p \in 0 .. Len(text[P!Reader]) : InCarets /\ P!JoinUser(P!Caret(p, 0))
  \/ \E h \in P!CaretHosts : InCarets /\ P!ReceiveCaret(h)

GtkMoves ==
  \/ \E pos \in G!Offsets, n \in 1 .. plot.inserted, pasted \in {{}, {G!Colored(3)}} :
       InGtk /\ G!InsertTextBefore(pos, n, pasted)
  \/ \E pos, n \in G!Offsets :
       InGtk /\ n > 0 /\ pos + n <= Len(gtk.content) /\ G!DeleteRangeBefore(pos, n)
  \/ InGtk /\ G!Default
  \/ InGtk /\ G!InsertTextAfter
  \/ InGtk /\ G!DeleteRangeAfter
  \/ \E pos \in G!Offsets, by \in {3, gtk.active} \ {G!Nobody} :
       \/ \E n \in 1 .. plot.inserted : \E authors \in [1 .. n -> G!WhoWrote] :
            InGtk /\ G!BufferInsertText(pos, authors, by)
       \/ \E n \in G!Offsets :
            InGtk /\ n > 0 /\ pos + n <= Len(gtk.content) /\ G!BufferEraseText(pos, n, by)
  \/ \E insert, bound \in G!Offsets : InGtk /\ G!MarkSet(insert, bound)
  \/ \E u \in Users :
       \/ InGtk /\ G!Rest(u)
       \/ InGtk /\ G!Wake(u)
  \/ \E u \in Users \cup {G!Nobody} : InGtk /\ G!SetActiveUser(u)
  \/ InGtk /\ G!SetWakeOnCursorMovement
  \/ InGtk /\ G!SetShowUserColors
  \/ \E show \in BOOLEAN, from, to \in G!Offsets : InGtk /\ from < to /\ G!ShowUserColors(show, from, to)

DocumentsNext == TextMoves \/ SessionMoves \/ ChatMoves \/ RecordMoves \/ CaretMoves \/ GtkMoves
documents == <<part, vectorVars, chunkVars, sessionVars, chatVars, record, caretVars, gtkVars>>
DocumentsSpec == DocumentsInit /\ [][DocumentsNext]_documents

------------------------------------------------------------------------------
(* Properties, stated where they belong *)

\* Vectors compare, and are read again, as what they stand for; and the text is kept, cut
\* and synchronized as characters with their authors, in a GtkTextBuffer, too.
DataExact ==
  /\ V!WalksExact /\ V!OrderTransitive /\ T!ChunkExact
  /\ part = "gtk" => G!ToldExact /\ G!NestedExact

\* Both hosts learn what was done, and what was processed, in time.
SessionsTell == S!SessionsTell

\* Whoever takes part in the chat hears everything, has the last messages in order as
\* long as clocks agree, and the log tells who is there.
ChatTold == C!AllHeard /\ C!InOrderWhileClocksAgree /\ C!LogTellsWhoIsThere

\* Once everything has arrived, both hosts see the same carets and selections, and
\* a user's caret is where its cursor is.
CaretsAgree == (part = "carets" => P!CaretsAgree) /\ (part = "gtk" => G!CaretIsCursor)

\* Carets and the cursor stay between the same characters, selections cover the same ones.
RegionsFollow == P!RegionsFollow /\ G!CursorFollows
==============================================================================
