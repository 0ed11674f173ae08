--------------------------- MODULE DocumentStorage ---------------------------
(***************************************************************************)
(* How infinoted keeps documents: InfdFilesystemStorage and the text       *)
(* plugin read and write their files, InfdDirectory writes a session when  *)
(* it is dropped or the daemon stops, infinoted's autosave writes it while *)
(* it is modified, and its directory synchronization keeps a plain copy.   *)
(*                                                                         *)
(* Writing a document truncates its file before the new content is known   *)
(* to fit; the copy is replaced as a whole.  An assertion that fails ends  *)
(* the daemon, as a crash does.  At most MaxFaults of the operations on    *)
(* files fail, and at most MaxEdits edits are made.                        *)
(***************************************************************************)
EXTENDS Integers, Sequences, FiniteSets

CONSTANTS Notes, InFolder, Editors, MaxEdits, MaxFaults, Intervals

\* The root holds one subdirectory, and notes are in it or beside it.
Folder == 0
StorageAssumption ==
  /\ Notes \subseteq Nat \ {Folder} /\ InFolder \subseteq Notes
  /\ DOMAIN Editors = Notes
  /\ MaxEdits \in Nat /\ MaxFaults \in Nat /\ Intervals \subseteq Nat

VARIABLES
  disk,      \* the storage's files
  copies,    \* the plain copies
  nodes,     \* the nodes that the directory knows
  session,   \* the session of each note, or what it was when it was dropped
  daemon,    \* whether it is up, the autosave interval, whether copies are kept
  hurt,      \* notes whose changes went with a crash, a failed write at the end,
             \* or a removal that was not completed
  faults, edits

storage == <<disk, copies, nodes, session, daemon, hurt, faults, edits>>

Nothing == [kind |-> "none", users |-> {}, segments |-> <<>>]
Truncated == [Nothing EXCEPT !.kind = "cut"]
Directory == [Nothing EXCEPT !.kind = "directory"]

\* The buffer was not modified when its text was clean.
\* Timeouts: auto of the autosave, sync of the copies, save of the directory.  A copy
\* whose directory could not be made is given up.
NewSession ==
  [linked |-> FALSE, idle |-> TRUE, users |-> {}, text |-> <<>>, modified |-> FALSE,
   clean |-> <<>>, auto |-> FALSE, sync |-> "none", save |-> FALSE]

------------------------------------------------------------------------------
(* Documents as files *)

\* The text is written in segments, each of one author.
Extended(r, a) ==
  IF r # <<>> /\ r[Len(r)].author = a THEN [r EXCEPT ![Len(r)].length = @ + 1]
  ELSE Append(r, [author |-> a, length |-> 1])
Segments(text) ==
  LET upTo[i \in 0 .. Len(text)] == IF i = 0 THEN <<>> ELSE Extended(upTo[i - 1], text[i])
  IN  upTo[Len(text)]

SessionWrite(s) == [kind |-> "document", users |-> s.users, segments |-> Segments(s.text)]

\* Every author has to be one of the users.
Readable(file) ==
  file.kind = "document" /\ \A i \in DOMAIN file.segments : file.segments[i].author \in file.users \cup {0}
Piece(seg) == [i \in 1 .. seg.length |-> seg.author]
BufferOf(file) ==
  LET upTo[i \in 0 .. Len(file.segments)] ==
        IF i = 0 THEN <<>> ELSE upTo[i - 1] \o Piece(file.segments[i])
  IN  upTo[Len(file.segments)]

\* The users and the text of a session that is read; it does not count as modified.
Loaded(file) ==
  [NewSession EXCEPT !.users = file.users, !.text = BufferOf(file), !.clean = BufferOf(file)]

Holds(file, s) == Readable(file) /\ file.users = s.users /\ BufferOf(file) = s.text

\* A file in a directory that is gone cannot be opened.
HasPlace(d, n) == n \in InFolder => d[Folder].kind = "directory"

\* How a write may end: nothing was opened, or the disk was full.
Outcomes(n) ==
  IF ~HasPlace(disk, n) THEN {"refused"}
  ELSE {"ok"} \cup (IF faults < MaxFaults THEN {"refused", "cut"} ELSE {})
Cost(outcome) == IF outcome = "ok" THEN 0 ELSE 1

Written(d, n, s, outcome) ==
  CASE outcome = "ok" -> [d EXCEPT ![n] = SessionWrite(s)]
    [] outcome = "cut" -> [d EXCEPT ![n] = Truncated]
    [] OTHER -> d

\* The number of faults only grows to its bound: a missing directory counts once.
Faulty(outcome) == faults' = IF faults < MaxFaults THEN faults + Cost(outcome) ELSE faults

------------------------------------------------------------------------------
(* Autosave and copies *)

Autosaving == daemon.interval > 0

\* "notify::modified": the timeout runs while the buffer is modified.
SetModified(s, value) ==
  IF value = s.modified THEN s
  ELSE [s EXCEPT !.modified = value, !.auto = value /\ Autosaving]

\* An autosave is made: it takes up the sessions that are in memory.
AutosaveAdd(s) == [s EXCEPT !.auto = s.modified]
AutosaveNew(interval) ==
  [n \in Notes |-> IF session[n].linked /\ interval > 0 THEN AutosaveAdd(session[n])
                   ELSE [session[n] EXCEPT !.auto = FALSE]]

\* Text was inserted or erased.
SyncLater(s) == IF daemon.copying THEN [s EXCEPT !.sync = "running"] ELSE s

\* Mutant: what could not be saved is not tried again.
AutosaveSaved_Once(s, outcome) == [s EXCEPT !.auto = FALSE, !.modified = (outcome # "ok")]

AutosaveSaved(s, outcome) ==
  IF outcome = "ok" THEN [s EXCEPT !.auto = FALSE, !.modified = FALSE, !.clean = s.text]
  ELSE [s EXCEPT !.auto = TRUE]

\* How the synchronization of a copy may end, at any time.
SyncOutcomes == {"ok", "refused", "no directory"}
SyncSaved(s, outcome) ==
  [s EXCEPT !.sync = CASE outcome = "ok" -> "none"
                       [] outcome = "refused" -> "running"
                       [] OTHER -> "failed"]
Copied(c, n, s, outcome) ==
  IF outcome = "ok" THEN [c EXCEPT ![n] = [kind |-> "document", text |-> s.text]] ELSE c

\* A session goes with its copy to be synchronized: the timeout that is stopped then is
\* there only if the write has failed.
RemoveAsserts(s, outcome) == s.sync = "running" /\ outcome # "refused"
Dropped(s) == [s EXCEPT !.linked = FALSE, !.idle = TRUE, !.auto = FALSE, !.sync = "none", !.save = FALSE]

\* The daemon is gone: what was not written is lost.
Ended(d, s) ==
  /\ session' = [n \in Notes |-> Dropped(s[n])]
  /\ hurt' = hurt \cup {n \in nodes \ {Folder} : s[n].linked /\ ~Holds(d[n], s[n])}

Abort(d, s) == /\ daemon' = [daemon EXCEPT !.state = "aborted"] /\ Ended(d, s)

\* A copy that waits is written when its session goes, and that ends the daemon.
CopyAborts(d, ns) ==
  /\ \E n \in ns, outcome \in SyncOutcomes :
       /\ session[n].linked /\ RemoveAsserts(session[n], outcome)
       /\ copies' = Copied(copies, n, session[n], outcome)
  /\ Abort(d, session)

\* The sessions of some notes are dropped, after the directory has written d.  If there are
\* copies that wait, none of them can be written, or one is.
Drop(d, ns) ==
  \/ /\ session' = [n \in Notes |-> IF n \in ns THEN Dropped(session[n]) ELSE session[n]]
     /\ UNCHANGED <<copies, daemon, hurt>>
  \/ CopyAborts(d, ns)

\* A session comes into memory: it is copied at once.
AddSession(n, s, outcome) ==
  IF daemon.copying
  THEN /\ session' = [session EXCEPT ![n] = SyncSaved(s, outcome)]
       /\ copies' = Copied(copies, n, s, outcome)
  ELSE session' = [session EXCEPT ![n] = s] /\ UNCHANGED copies

------------------------------------------------------------------------------
(* The directory *)

Up == daemon.state = "up"
Linked(n) == Up /\ n \in nodes /\ session[n].linked

StorageInit ==
  /\ disk = [n \in Notes \cup {Folder} |-> Nothing]
  /\ copies = [n \in Notes |-> [kind |-> "none", text |-> <<>>]]
  /\ nodes = {} /\ hurt = {} /\ faults = 0 /\ edits = 0
  /\ session = [n \in Notes |-> NewSession]
  /\ daemon \in [state : {"up"}, interval : Intervals, copying : BOOLEAN]

\* mkdir refuses what is there.
CreateFolder ==
  /\ Up /\ Folder \notin nodes /\ disk[Folder] = Nothing
  /\ disk' = [disk EXCEPT ![Folder] = Directory]
  /\ nodes' = nodes \cup {Folder}
  /\ UNCHANGED <<copies, session, daemon, hurt, faults, edits>>

\* A note is there once it could be written; a client has subscribed to it.
CreateNote(n) ==
  /\ Up /\ n \notin nodes /\ (n \in InFolder => Folder \in nodes)
  /\ \E outcome \in Outcomes(n), copied \in SyncOutcomes :
       /\ disk' = Written(disk, n, NewSession, outcome)
       /\ Faulty(outcome)
       /\ IF outcome = "ok"
          THEN /\ nodes' = nodes \cup {n}
               /\ AddSession(n, [NewSession EXCEPT !.linked = TRUE, !.idle = FALSE], copied)
               /\ hurt' = hurt \ {n}
          ELSE UNCHANGED <<nodes, session, copies, hurt>>
  /\ UNCHANGED <<daemon, edits>>

\* A client subscribes: the session is read unless it is in memory, and is not modified.
Subscribe(n) ==
  /\ Up /\ n \in nodes
  /\ \/ /\ session[n].linked /\ session[n].idle
        /\ session' = [session EXCEPT ![n].idle = FALSE, ![n].save = FALSE]
        /\ UNCHANGED copies
     \/ /\ ~session[n].linked /\ Readable(disk[n])
        /\ \E copied \in SyncOutcomes :
             AddSession(n, [Loaded(disk[n]) EXCEPT !.linked = TRUE, !.idle = FALSE], copied)
  /\ UNCHANGED <<disk, nodes, daemon, hurt, faults, edits>>

\* The last one goes.
Unsubscribe(n) ==
  /\ Linked(n) /\ ~session[n].idle
  /\ session' = [session EXCEPT ![n].idle = TRUE, ![n].save = TRUE]
  /\ UNCHANGED <<disk, copies, nodes, daemon, hurt, faults, edits>>

Edited(n, s, modified) ==
  /\ session' = [session EXCEPT ![n] = SyncLater(SetModified(s, modified))]
  /\ edits' = edits + 1
  /\ UNCHANGED <<disk, copies, nodes, daemon, hurt, faults>>

InsertText(n, u) ==
  /\ Linked(n) /\ ~session[n].idle /\ edits < MaxEdits
  /\ Edited(n, [session[n] EXCEPT !.users = @ \cup {u}, !.text = Append(@, u)], TRUE)

EraseText(n) ==
  /\ Linked(n) /\ ~session[n].idle /\ edits < MaxEdits /\ session[n].text # <<>>
  /\ Edited(n, [session[n] EXCEPT !.text = Tail(@)], TRUE)

\* Users undo what they did since the buffer was not modified.
UndoText(n) ==
  /\ Linked(n) /\ ~session[n].idle /\ edits < MaxEdits /\ session[n].modified
  /\ Edited(n, [session[n] EXCEPT !.text = session[n].clean], FALSE)

\* A client asks to save: the buffer stays modified.
SaveSession(n) ==
  /\ Linked(n) /\ ~session[n].idle
  /\ \E outcome \in Outcomes(n) : disk' = Written(disk, n, session[n], outcome) /\ Faulty(outcome)
  /\ UNCHANGED <<copies, nodes, session, daemon, hurt, edits>>

AutosaveTimeout(n) ==
  /\ Linked(n) /\ session[n].auto
  /\ \E outcome \in Outcomes(n) :
       /\ disk' = Written(disk, n, session[n], outcome)
       /\ session' = [session EXCEPT ![n] = AutosaveSaved(@, outcome)]
       /\ Faulty(outcome)
  /\ UNCHANGED <<copies, nodes, daemon, hurt, edits>>

SyncTimeout(n) ==
  /\ Linked(n) /\ session[n].sync = "running"
  /\ \E outcome \in SyncOutcomes :
       /\ copies' = Copied(copies, n, session[n], outcome)
       /\ session' = [session EXCEPT ![n] = SyncSaved(@, outcome)]
  /\ UNCHANGED <<disk, nodes, daemon, hurt, faults, edits>>

\* An idle session is written and dropped; if it cannot be written, it stays.
SaveTimeout(n) ==
  /\ Linked(n) /\ session[n].save
  /\ \E outcome \in Outcomes(n) :
       /\ disk' = Written(disk, n, session[n], outcome)
       /\ Faulty(outcome)
       /\ IF outcome = "ok" THEN Drop(disk', {n})
          ELSE session' = [session EXCEPT ![n].save = FALSE] /\ UNCHANGED <<copies, daemon, hurt>>
  /\ UNCHANGED <<nodes, edits>>

\* The file goes first, then the node and its session, which is not written.
RemoveNote(n) ==
  /\ Up /\ n \in nodes /\ disk[n] # Nothing
  /\ disk' = [disk EXCEPT ![n] = Nothing]
  /\ nodes' = nodes \ {n}
  /\ Drop(disk', {n})
  /\ UNCHANGED <<faults, edits>>

\* The files in a subdirectory go one by one.  If one of them cannot be removed, the
\* nodes stay, also those of the files that are gone.
RemoveFolder ==
  /\ Up /\ Folder \in nodes
  /\ \/ /\ disk' = [n \in DOMAIN disk |-> IF n \in InFolder \cup {Folder} THEN Nothing ELSE disk[n]]
        /\ nodes' = nodes \ (InFolder \cup {Folder})
        /\ Drop(disk', InFolder)
        /\ UNCHANGED faults
     \/ /\ faults < MaxFaults
        /\ \E gone \in SUBSET {n \in InFolder : disk[n] # Nothing} :
             /\ disk' = [n \in DOMAIN disk |-> IF n \in gone THEN Nothing ELSE disk[n]]
             /\ hurt' = hurt \cup {n \in gone : ~session[n].linked}
        /\ faults' = faults + 1
        /\ UNCHANGED <<copies, nodes, session, daemon>>
  /\ UNCHANGED edits

------------------------------------------------------------------------------
(* The daemon *)

\* The configuration is read again: the autosave is made anew.
Reload(interval) ==
  /\ Up /\ interval # daemon.interval
  /\ daemon' = [daemon EXCEPT !.interval = interval]
  /\ session' = AutosaveNew(interval)
  /\ UNCHANGED <<disk, copies, nodes, hurt, faults, edits>>

\* The directory goes: all sessions are written, each as far as it can be.
Disposed(outcome) ==
  [n \in DOMAIN disk |->
     IF n \in DOMAIN outcome THEN Written(disk, n, session[n], outcome[n])[n] ELSE disk[n]]

\* infinoted_run_free: first the autosave and the copies go, then the directory writes
\* all sessions; what cannot be written is lost.
Stop ==
  LET ns == {n \in nodes \ {Folder} : session[n].linked}
  IN  /\ Up
      /\ \/ CopyAborts(disk, ns) /\ UNCHANGED <<disk, faults>>
         \/ /\ \E outcome \in [ns -> {"ok", "refused", "cut"}] :
                 /\ \A n \in ns : outcome[n] \in Outcomes(n)
                 /\ disk' = Disposed(outcome)
                 /\ LET failed == {n \in ns : outcome[n] # "ok" /\ HasPlace(disk, n)}
                    IN  faults + Cardinality(failed) <= MaxFaults /\ faults' = faults + Cardinality(failed)
            /\ daemon' = [daemon EXCEPT !.state = "stopped"]
            /\ Ended(disk', session)
            /\ UNCHANGED copies
      /\ UNCHANGED <<nodes, edits>>

\* The machine fails: a file that was being written is cut.
Crash ==
  /\ Up /\ faults < MaxFaults
  /\ \E cut \in SUBSET {n \in nodes \ {Folder} : session[n].linked} :
       disk' = [n \in DOMAIN disk |-> IF n \in cut THEN Truncated ELSE disk[n]]
  /\ daemon' = [daemon EXCEPT !.state = "crashed"]
  /\ Ended(disk', session)
  /\ faults' = faults + 1
  /\ UNCHANGED <<copies, nodes, edits>>

\* What is found in the directories, whether it can be read or not.
ReadSubdirectory(d) == {n \in DOMAIN d : d[n] # Nothing /\ HasPlace(d, n)}

\* The daemon is started again.
Start ==
  /\ ~Up
  /\ daemon' = [daemon EXCEPT !.state = "up"]
  /\ nodes' = ReadSubdirectory(disk)
  /\ session' = [n \in Notes |-> IF Readable(disk[n]) THEN Loaded(disk[n]) ELSE NewSession]
  /\ hurt' = {n \in Notes : disk[n].kind = "cut"}
  /\ UNCHANGED <<disk, copies, faults, edits>>

StorageNext ==
  \/ CreateFolder \/ RemoveFolder \/ Stop \/ Crash \/ Start
  \/ \E i \in Intervals : Reload(i)
  \/ \E n \in Notes :
       \/ CreateNote(n) \/ Subscribe(n) \/ Unsubscribe(n) \/ EraseText(n) \/ UndoText(n)
       \/ SaveSession(n) \/ AutosaveTimeout(n) \/ SyncTimeout(n) \/ SaveTimeout(n) \/ RemoveNote(n)
       \/ \E u \in Editors[n] : InsertText(n, u)
StorageSpec == StorageInit /\ [][StorageNext]_storage

------------------------------------------------------------------------------
(* Properties *)

\* A note that is not in memory reads from its file as it was when it was dropped: what
\* users have typed survives the session, autosaves that failed, and a clean stop of the
\* daemon.  Only a crash, a write that failed at the end, or a removal that was not
\* completed takes changes away.
NothingLost ==
  \A n \in nodes \ {Folder} : session[n].linked \/ n \in hurt \/ Holds(disk[n], session[n])

\* With the autosave, exactly the modified sessions are going to be saved, also after a
\* save has failed and after the interval was changed.
AutosavePending ==
  \A n \in Notes : Linked(n) /\ Autosaving => session[n].auto = session[n].modified

\* The copy is what the session holds, or is going to be, unless its directory could not
\* be made.
CopyFollows ==
  \A n \in Notes :
    Linked(n) /\ daemon.copying =>
      session[n].sync # "none" \/ copies[n] = [kind |-> "document", text |-> session[n].text]

StorageExact == NothingLost /\ AutosavePending /\ CopyFollows

\* "g_assert(session->timeout != NULL)" when the timeout of a copy is stopped.
NeverAborts == daemon.state # "aborted"
==============================================================================
