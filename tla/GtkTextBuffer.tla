---------------------------- MODULE GtkTextBuffer ----------------------------
(***************************************************************************)
(* InfTextGtkBuffer: a GtkTextBuffer as the buffer of a text session.      *)
(*                                                                         *)
(* The text is in the GtkTextBuffer, with its authors as tags; insert mark *)
(* and selection bound are what the user at this host sees of its caret.   *)
(* What the user changes there is told to the session by handlers that run *)
(* before and after GTK's own handler, and between any two of them a       *)
(* handler of somebody else may change the text, too, so that changes are  *)
(* nested.  What the session changes comes through insert_text and         *)
(* erase_text.  One record holds all of it; GTK itself is external.        *)
(***************************************************************************)
EXTENDS Integers, Sequences, FiniteSets, SequencesExt

CONSTANTS Word,     \* as wide as an unsigned integer
          Locals,   \* users of this host, any of which may be the active one
          Remote,   \* a user of another one
          Plots     \* bounds: authors of the first text, number of edits, inserted
                    \* characters, depth of nesting, moves of the cursor, changes of settings

Nobody == 0
GtkAssumption == Nobody \notin Locals \cup {Remote} /\ Remote \notin Locals

VARIABLES gtk, plot

K == INSTANCE TextCarets WITH Stories <- {}, text <- <<>>, user <- <<>>, wire <- <<>>,
       changes <- <<>>, timeout <- {}, done <- <<>>, story <- <<>>

------------------------------------------------------------------------------
(* Authors are tags: each user has one with a background and one without *)

Colored(u) == <<u, TRUE>>
Colorless(u) == <<u, FALSE>>
UserTags(u) == IF u = Nobody THEN {} ELSE {Colored(u), Colorless(u)}
UserTag(u, colored) == IF u = Nobody THEN {} ELSE {<<u, colored>>}

AuthorFromTag(t) == t[1]
ContainsAuthorTag(tags) == IF tags = {} THEN Nobody ELSE AuthorFromTag(CHOOSE t \in tags : TRUE)

\* What starts and what ends between two characters.
TagsAt(t, i) == IF i \in DOMAIN t THEN t[i].tags ELSE {}
ToggledOn(t, p) == TagsAt(t, p + 1) \ TagsAt(t, p)
ToggledOff(t, p) == TagsAt(t, p) \ TagsAt(t, p + 1)

IsAuthorToggle(t, p) == p = 0 \/ p = Len(t) \/ ToggledOn(t, p) # {} \/ ToggledOff(t, p) # {}

NextAuthorToggle(t, p) ==
  LET q == CHOOSE q \in p + 1 .. Len(t) :
             IsAuthorToggle(t, q) /\ \A r \in p + 1 .. q - 1 : ~IsAuthorToggle(t, r)
  IN  [at |-> q, author |-> ContainsAuthorTag(ToggledOff(t, q))]

PrevAuthorToggle(t, p) ==
  LET q == CHOOSE q \in 0 .. p - 1 :
             IsAuthorToggle(t, q) /\ \A r \in q + 1 .. p - 1 : ~IsAuthorToggle(t, r)
  IN  [at |-> q, author |-> ContainsAuthorTag(ToggledOn(t, q))]

\* Part of the text, segment by segment.
GetSlice(t, pos, len) ==
  [i \in 1 .. len |-> [char |-> t[pos + i].char, author |-> NextAuthorToggle(t, pos + i - 1).author]]

\* The authors as an iterator finds them that goes to the end, or comes back from there.
AuthorsForward(t) == [i \in DOMAIN t |-> NextAuthorToggle(t, i - 1).author]
AuthorsBackward(t) == [i \in DOMAIN t |-> PrevAuthorToggle(t, i).author]

Characters(t) == [i \in DOMAIN t |-> t[i].char]

------------------------------------------------------------------------------
(* GTK *)

\* Text within a tagged range is tagged.
Around(t, pos) == TagsAt(t, pos) \cap TagsAt(t, pos + 1)
Shifted(m, pos, n) == IF m >= pos THEN m + n ELSE m
Pulled(m, pos, n) == IF m >= pos + n THEN m - n ELSE IF m > pos THEN pos ELSE m

GtkInsert(g, pos, chars, tags) ==
  LET new == [i \in DOMAIN chars |-> [char |-> chars[i], tags |-> Around(g.content, pos) \cup tags]]
  IN  [g EXCEPT !.content = SubSeq(@, 1, pos) \o new \o SubSeq(@, pos + 1, Len(@)),
                !.insert = Shifted(@, pos, Len(chars)), !.bound = Shifted(@, pos, Len(chars))]

GtkDelete(g, pos, n) ==
  [g EXCEPT !.content = SubSeq(@, 1, pos) \o SubSeq(@, pos + n + 1, Len(@)),
            !.insert = Pulled(@, pos, n), !.bound = Pulled(@, pos, n)]

IterAtOffset(g, n) == IF n \in 0 .. Len(g.content) THEN n ELSE Len(g.content)

------------------------------------------------------------------------------
(* The session, whose text is what it was told *)

\* No text ever is this one.
Corrupt == <<[char |-> 0, author |-> Nobody]>>

\* Text that is erased has to be what the session knows, because it comes back when it is
\* undone; of what was misread, only the authors may be wrong.
Tell(t, change, misread) ==
  LET pos == change.position
      n == Len(change.chunk)
      known == SubSeq(t, pos + 1, pos + n)
  IN  IF change.insert THEN SubSeq(t, 1, pos) \o change.chunk \o SubSeq(t, pos + 1, Len(t))
      ELSE IF known = change.chunk \/ (misread /\ Characters(known) = Characters(change.chunk))
           THEN SubSeq(t, 1, pos) \o SubSeq(t, pos + n + 1, Len(t))
           ELSE Corrupt

\* The session moves everybody's caret along; who changed the text is active.
TextChanged(g, change, author) ==
  LET n == Len(change.chunk) IN
  [g EXCEPT !.told = Tell(@, change, g.misread),
            !.caret = [u \in Locals |->
               IF change.insert THEN K!TransformInsert(change.position, n, @[u], u # author)
               ELSE K!TransformDelete(change.position, n, @[u])]]

Awake(g, u) == IF u \in Locals THEN [g EXCEPT !.status[u] = "active"] ELSE g

------------------------------------------------------------------------------
(* The caret of the active user *)

Marks(g) == K!Caret(g.insert, g.bound - g.insert)
InStep(g) == g.active = Nobody \/ g.caret[g.active] = Marks(g)

\* The user takes over the marks; and the marks the user's caret.
SyncUser(g) ==
  IF g.active = Nobody THEN g
  ELSE [g EXCEPT !.caret[g.active] = Marks(g)]
SelectionChanged(g) ==
  IF g.active = Nobody THEN g
  ELSE LET c == g.caret[g.active] IN
       [g EXCEPT !.insert = IterAtOffset(g, c.position), !.bound = IterAtOffset(g, K!Bound(c))]

\* The user that becomes active takes over the marks.
NotifyStatus(g, u) == IF u = g.active THEN SyncUser(g) ELSE g
BecomeActive(g, u) ==
  IF u \in Locals /\ g.status[u] = "inactive" THEN NotifyStatus(Awake(g, u), u) ELSE g

------------------------------------------------------------------------------
(* Records of changes whose handlers have not all run *)

Fail(g, what) == [g EXCEPT !.failure = what]

RecordCheck(g, record) ==
  LET n == Len(record.chunk) IN
  IF record.insert
  THEN /\ record.char_count + n = Len(g.content) /\ record.position + n <= Len(g.content)
       /\ Characters(SubSeq(g.content, record.position + 1, record.position + n)) = Characters(record.chunk)
  ELSE record.char_count - n = Len(g.content)

\* New text has its author's tag, and no tag of anybody else.  Within the author's own text
\* that is tagged in the other way it has both.
Retag(g, pos, n, u, tags) ==
  LET new(i) == (g.content[i].tags \cap UserTags(u)) \cup tags IN
  [g EXCEPT !.content = [i \in DOMAIN @ |->
              IF i \in pos + 1 .. pos + n THEN [@[i] EXCEPT !.tags = new(i)] ELSE @[i]],
            !.misread = @ \/ \E i \in pos + 1 .. pos + n : Cardinality(new(i)) > 1]

\* An insert at the end of a selection belongs to it for GTK, but not for the session; and
\* an erase that takes the end of a selection turns its length around.
Disagree(g, record) ==
  LET n == Len(record.chunk)
      c == g.caret[g.active]
      low == IF c.length < 0 THEN K!Bound(c) ELSE c.position
      high == IF c.length < 0 THEN c.position ELSE K!Bound(c)
  IN  /\ low < high
      /\ IF record.insert THEN record.position = high
         ELSE low < record.position + n /\ record.position < high /\ high < record.position + n

\* The i-th record has been applied; the session is told.  Records below that have not been
\* applied would be transformed, but it is the record below them that is: there is none, or
\* one that has been applied.
RecordSignal(g, i) ==
  LET record == g.records[i]
      n == Len(record.chunk)
      applied == [g EXCEPT !.records[i].applied = TRUE]
      tagged == IF record.insert
                THEN Retag(applied, record.position, n, g.active, UserTag(g.active, g.show)) ELSE applied
  IN  CASE g.active = Nobody -> Fail(g, "no active user")
        [] g.active # Nobody /\ ~RecordCheck(g, record) -> Fail(g, "record")
        [] g.active # Nobody /\ RecordCheck(g, record)
           /\ \E j \in i + 1 .. Len(g.records) : ~g.records[j].applied -> Fail(g, "transform")
        [] OTHER -> TextChanged(Awake(tagged, g.active), record, g.active)

\* If the record below has been applied, its after handler has just not run yet.
PushRecord(g, record) ==
  LET pushed == [g EXCEPT !.records = <<[record EXCEPT !.char_count = Len(g.content)]>> \o @]
  IN  IF /\ g.records # <<>> /\ ~g.records[1].applied
         /\ g.records[1].char_count # Len(g.content)
      THEN RecordSignal(pushed, 2) ELSE pushed

PopRecord(g) ==
  LET record == g.records[1]
      n == Len(record.chunk)
      told == IF record.applied THEN g
              ELSE IF Len(g.content) # record.char_count + (IF record.insert THEN n ELSE -n)
                   THEN Fail(g, "length") ELSE RecordSignal(g, 1)
  IN  [told EXCEPT !.records = Tail(@)]

------------------------------------------------------------------------------
(* Changes in the GtkTextBuffer: by the user, or by a handler within such a change *)

\* The change that GTK has made and that the session does not know yet.
Pending == gtk.records # <<>> /\ gtk.records[1].ran /\ ~gtk.records[1].applied

Runs == gtk.failure = ""
Idle == Runs /\ gtk.records = <<>>
MayEdit == gtk.edits < plot.edits

NewRecord(insert, pos, chunk) ==
  [insert |-> insert, position |-> pos, chunk |-> chunk, char_count |-> 0, applied |-> FALSE, ran |-> FALSE]
NewChars(n) == [i \in 1 .. n |-> gtk.fresh + i]
Counted(g, n) == [g EXCEPT !.edits = @ + 1, !.fresh = @ + n]

\* Pasted text brings tags along, which are applied after the insert.
InsertTextBefore(pos, n, pasted) ==
  /\ Runs /\ MayEdit /\ gtk.active # Nobody /\ Len(gtk.records) < plot.depth
  /\ pasted # {} => gtk.records = <<>>
  /\ LET chunk == [i \in 1 .. n |-> [char |-> NewChars(n)[i], author |-> gtk.active]]
     IN  gtk' = [PushRecord(Counted(gtk, n), NewRecord(TRUE, pos, chunk)) EXCEPT !.pasted = pasted]
  /\ UNCHANGED plot

\* What is erased is read before text that was inserted just now has got its author's tag.
DeleteRangeBefore(pos, n) ==
  /\ Runs /\ MayEdit /\ gtk.active # Nobody /\ Len(gtk.records) < plot.depth
  /\ LET early == /\ Pending /\ gtk.records[1].insert
                  /\ pos < gtk.records[1].position + Len(gtk.records[1].chunk)
                  /\ gtk.records[1].position < pos + n
     IN  gtk' = PushRecord([Counted(gtk, 0) EXCEPT !.misread = @ \/ early],
                           NewRecord(FALSE, pos, GetSlice(gtk.content, pos, n)))
  /\ UNCHANGED plot

\* GTK's own handler.
Default ==
  /\ Runs /\ gtk.records # <<>> /\ ~gtk.records[1].ran
  /\ LET record == gtk.records[1]
         n == Len(record.chunk)
         done == IF record.insert THEN GtkInsert(gtk, record.position, Characters(record.chunk), {})
                 ELSE GtkDelete(gtk, record.position, n)
     IN  gtk' = [done EXCEPT !.records[1].ran = TRUE, !.drifted = @ \/ Disagree(gtk, record)]
  /\ UNCHANGED plot

\* Author tags are not applied by anybody else.
ApplyTag(g, pos, n, tags) ==
  LET allowed == {t \in tags : AuthorFromTag(t) = Nobody} IN
  [g EXCEPT !.content = [i \in DOMAIN @ |->
     IF i \in pos + 1 .. pos + n THEN [@[i] EXCEPT !.tags = @ \cup allowed] ELSE @[i]]]

InsertTextAfter ==
  /\ Runs /\ gtk.records # <<>> /\ gtk.records[1].ran /\ gtk.records[1].insert
  /\ LET record == gtk.records[1] IN
     gtk' = [ApplyTag(PopRecord(gtk), record.position, Len(record.chunk), gtk.pasted) EXCEPT !.pasted = {}]
  /\ UNCHANGED plot

DeleteRangeAfter ==
  /\ Runs /\ gtk.records # <<>> /\ gtk.records[1].ran /\ ~gtk.records[1].insert
  /\ gtk' = PopRecord(gtk)
  /\ UNCHANGED plot

------------------------------------------------------------------------------
(* Changes by the session *)

\* What others insert at the cursor does not move it.
LeftGravity(g, pos, n, author) ==
  IF author = g.active /\ author # Nobody THEN g
  ELSE [g EXCEPT !.insert = IF @ = pos + n THEN pos ELSE @, !.bound = IF @ = pos + n THEN pos ELSE @]

\* A segment may have any author: an undo brings back what others wrote.
InsertSegment(g, pos, segment) ==
  Retag(GtkInsert(g, pos, <<segment.char>>, UserTag(segment.author, g.show)),
        pos, 1, segment.author, UserTag(segment.author, g.show))

\* The active user's marks follow its caret; and it is active after its own undo.
Settled(g, author) == BecomeActive(SelectionChanged(g), author)

BufferInsertText(pos, authors, by) ==
  /\ Idle /\ MayEdit
  /\ LET n == Len(authors)
         chunk == [i \in 1 .. n |-> [char |-> NewChars(n)[i], author |-> authors[i]]]
         inserted == FoldLeftDomain(LAMBDA g, i : InsertSegment(g, pos + i - 1, chunk[i]),
                                    Counted(gtk, n), chunk)
         told == TextChanged(LeftGravity(inserted, pos, n, by), NewRecord(TRUE, pos, chunk), by)
     IN  gtk' = [Settled(told, by) EXCEPT !.drifted = @ /\ gtk.active = Nobody]
  /\ UNCHANGED plot

BufferEraseText(pos, n, by) ==
  /\ Idle /\ MayEdit
  /\ LET chunk == GetSlice(gtk.content, pos, n)
         change == NewRecord(FALSE, pos, chunk)
         told == TextChanged(GtkDelete(Counted(gtk, 0), pos, n), change, by)
     IN  gtk' = [Settled(told, by) EXCEPT !.drifted = IF gtk.active = Nobody THEN @ ELSE Disagree(gtk, change)]
  /\ UNCHANGED plot

------------------------------------------------------------------------------
(* The cursor, and the settings *)

\* The user moves the cursor or selects.  An inactive user's caret stays where it is, unless
\* it is to wake; the request that tells the new caret, which wakes it, may be sent later.
MarkSet(insert, bound) ==
  /\ Idle /\ gtk.moves < plot.moves /\ <<insert, bound>> # <<gtk.insert, gtk.bound>>
  /\ LET u == gtk.active
         heard == u # Nobody /\ (gtk.status[u] = "active" \/ gtk.wake)
         moved == [gtk EXCEPT !.insert = insert, !.bound = bound, !.moves = @ + 1, !.drifted = ~heard]
     IN  IF heard THEN gtk' \in {SyncUser(moved), Awake(SyncUser(moved), u)} ELSE gtk' = moved
  /\ UNCHANGED plot

\* A user becomes inactive, or active, also because a caret is told at last.
Rest(u) ==
  /\ Idle /\ gtk.moves < plot.moves /\ gtk.status[u] = "active"
  /\ gtk' = [gtk EXCEPT !.status[u] = "inactive", !.moves = @ + 1]
  /\ UNCHANGED plot

Wake(u) ==
  /\ Idle /\ gtk.status[u] = "inactive"
  /\ gtk' = [BecomeActive(gtk, u) EXCEPT !.drifted = @ /\ u # gtk.active]
  /\ UNCHANGED plot

MaySet == Idle /\ gtk.sets < plot.sets
SetActiveUser(u) ==
  /\ MaySet /\ u # gtk.active
  /\ gtk' = [gtk EXCEPT !.active = u, !.drifted = TRUE, !.sets = @ + 1]
  /\ UNCHANGED plot

SetWakeOnCursorMovement ==
  /\ MaySet /\ gtk' = [gtk EXCEPT !.wake = ~@, !.sets = @ + 1]
  /\ UNCHANGED plot

SetShowUserColors ==
  /\ MaySet /\ gtk' = [gtk EXCEPT !.show = ~@, !.sets = @ + 1]
  /\ UNCHANGED plot

\* Colors are shown or hidden in a part of the text, segment by segment.
ShowUserColors(show, from, to) ==
  /\ MaySet
  /\ LET user(i) == GetSlice(gtk.content, i - 1, 1)[1].author IN
     gtk' = [gtk EXCEPT !.sets = @ + 1, !.content = [i \in DOMAIN @ |->
               IF i \in from + 1 .. to /\ user(i) # Nobody
               THEN [@[i] EXCEPT !.tags = (@ \ UserTag(user(i), ~show)) \cup UserTag(user(i), show)]
               ELSE @[i]]]
  /\ UNCHANGED plot

------------------------------------------------------------------------------
GtkInit ==
  /\ plot \in Plots
  /\ gtk = [content |-> [i \in DOMAIN plot.authors |->
                          [char |-> i, tags |-> UserTag(plot.authors[i], TRUE)]],
            told |-> [i \in DOMAIN plot.authors |-> [char |-> i, author |-> plot.authors[i]]],
            insert |-> 0, bound |-> 0, records |-> <<>>, pasted |-> {},
            caret |-> [u \in Locals |-> K!Caret(0, 0)], status |-> [u \in Locals |-> "active"],
            active |-> CHOOSE u \in Locals : TRUE, wake |-> FALSE, show |-> TRUE,
            drifted |-> FALSE, misread |-> FALSE, failure |-> "",
            fresh |-> Len(plot.authors), edits |-> 0, moves |-> 0, sets |-> 0]

Offsets == 0 .. Len(gtk.content)
WhoWrote == Locals \cup {Remote, Nobody}
GtkNext ==
  \/ \E pos \in Offsets, n \in 1 .. plot.inserted, pasted \in {{}, {Colored(Remote)}} :
       InsertTextBefore(pos, n, pasted)
  \/ \E pos, n \in Offsets : n > 0 /\ pos + n <= Len(gtk.content) /\ DeleteRangeBefore(pos, n)
  \/ Default \/ InsertTextAfter \/ DeleteRangeAfter
  \/ \E pos \in Offsets, by \in {Remote, gtk.active} \ {Nobody} :
       \/ \E n \in 1 .. plot.inserted : \E authors \in [1 .. n -> WhoWrote] :
            BufferInsertText(pos, authors, by)
       \/ \E n \in Offsets : n > 0 /\ pos + n <= Len(gtk.content) /\ BufferEraseText(pos, n, by)
  \/ \E insert, bound \in Offsets : MarkSet(insert, bound)
  \/ \E u \in Locals : Rest(u) \/ Wake(u)
  \/ \E u \in Locals \cup {Nobody} : SetActiveUser(u)
  \/ SetWakeOnCursorMovement \/ SetShowUserColors
  \/ \E show \in BOOLEAN, from, to \in Offsets : from < to /\ ShowUserColors(show, from, to)

------------------------------------------------------------------------------
(* Properties *)

\* The session's text is that of the GtkTextBuffer, character by character with its author,
\* whatever handlers change within each other's changes and whatever text is pasted into
\* whose; and of what is erased it was told what it was and who had written it.  Authors
\* are excepted once there is text that has both tags of its author (where it begins, what
\* is before it seems to have none), or text was erased that had no tag yet.
ToldExact ==
  LET known == IF Pending THEN Tell(gtk.told, gtk.records[1], gtk.misread) ELSE gtk.told IN
  gtk.failure = "" =>
    /\ Characters(known) = Characters(gtk.content)
    /\ Pending \/ gtk.misread \/
         /\ known = GetSlice(gtk.content, 0, Len(gtk.content))
         /\ AuthorsForward(gtk.content) = AuthorsBackward(gtk.content)

\* No assertion fails but one: a handler that runs before GTK's changes the text.
NestedExact == gtk.failure \in {"", "transform"}

\* The caret that others see of the active user is where its cursor is, through all its
\* own and the others' changes.  Excepted, until the next move of the cursor, are: a cursor
\* that an inactive user has moved; another active user; and what Disagree says.
CaretIsCursor == Idle /\ ~gtk.drifted => InStep(gtk)

\* Without an active user the cursor stays where it is when text is inserted there.
Stays(t, after) ==
  IF gtk.insert = 0 THEN gtk'.insert = 0
  ELSE t[gtk.insert] \in ToSet(after) => gtk'.insert > 0 /\ after[gtk'.insert] = t[gtk.insert]

\* When the session changes the text the cursor stays between the same characters, and the
\* same ones stay selected if there is an active user.
CursorFollows ==
  [][LET t == Characters(gtk.content)
         after == Characters(gtk'.content)
     IN  gtk'.content # gtk.content /\ gtk.records = <<>> /\ gtk'.records = <<>> =>
           /\ gtk.active # Nobody /\ InStep(gtk) /\ ~K!CutsEnd(t, Marks(gtk), after)
                => K!Follows(t, after, Marks(gtk), Marks(gtk'))
           /\ gtk.active = Nobody => Stays(t, after)]_gtk

GtkSpec == GtkInit /\ [][GtkNext]_<<gtk, plot>>
==============================================================================
