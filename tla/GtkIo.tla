--------------------------------- MODULE GtkIo ---------------------------------
(***************************************************************************)
(* InfGtkIo: InfIo on top of GLib's main loop.  Each watch, timeout and    *)
(* dispatch has a source there, whose function takes the mutex and looks   *)
(* whether the source has been destroyed meanwhile.  The source is removed *)
(* after the mutex was released, which another thread's removal leaves a   *)
(* moment for.                                                             *)
(* (inf-gtk-io.c, and what it uses of GLib's main loop)                    *)
(***************************************************************************)
EXTENDS Integers, FiniteSets

CONSTANTS Watches, Timeouts, Dispatches,   \* handles, each of which is used once
          SocketOf,                        \* the socket of each watch
          Programs,                        \* what is used and what happens
          None

Handles == Watches \cup Timeouts \cup Dispatches
Sockets == {SocketOf[w] : w \in Watches}

GtkAssumption ==
  /\ None \notin Handles \cup {"freed handle", "not in the list"}
  /\ \A p \in Programs : /\ p.uses \subseteq Handles
                         /\ p.threaded \subseteq {"add", "remove"}
                         /\ {p.ready, p.updates} \subseteq Nat

VARIABLES program,
          gio,      \* what the mutex protects
          sources,  \* external: GLib's sources
          main,     \* where the main thread is
          ready,    \* the sockets that something arrived at, and how often
          elapsed,  \* the timeouts whose time is over
          used      \* history

gioVars == <<program, gio, sources, main, ready, elapsed, used>>

\* there: the three lists.  id: the source of each handle.  removing: those which
\* another thread has taken from the list, whose source is still to be removed.
Init ==
  /\ program \in Programs
  /\ gio = [there |-> {}, id |-> [h \in Handles |-> 0], disposed |-> {}, removing |-> {}]
  /\ sources = {}
  /\ main = [at |-> "idle", source |-> None, failure |-> None]
  /\ ready = [sockets |-> {}, times |-> 0]
  /\ elapsed = {}
  /\ used = [added |-> {}, released |-> {}, ids |-> 0, updates |-> 0]

Alive == main.failure = None
Current == IF main.at = "called" THEN main.source.handle ELSE None
Executing(h) == h \in Watches /\ Current = h

------------------------------------------------------------------------------
(* Calls, by a callback (or before the loop starts) or by another thread *)

ByMain == main.at = "called" \/ (main.at = "idle" /\ used.added \subseteq gio.there)
MayCall(what) == Alive /\ main.at # "disposed" /\ (ByMain \/ what \in program.threaded)

Source(id, h) == [id |-> id, handle |-> h]
NewSource(h) == sources \cup {Source(used.ids + 1, h)}

Add(h) ==
  /\ h \in program.uses \ used.added /\ MayCall("add")
  /\ h \in Watches => \A w \in gio.there \cap Watches : SocketOf[w] # SocketOf[h]
  /\ sources' = NewSource(h)
  /\ gio' = [gio EXCEPT !.there = @ \cup {h}, !.id[h] = used.ids + 1]
  /\ used' = [used EXCEPT !.added = @ \cup {h}, !.ids = @ + 1]
  /\ UNCHANGED <<program, main, ready, elapsed>>

UpdateWatch(w) ==
  /\ w \in gio.there \cap Watches /\ ByMain /\ Alive /\ used.updates < program.updates
  /\ sources' = {s \in NewSource(w) : s.id # gio.id[w]}
  /\ gio' = [gio EXCEPT !.id[w] = used.ids + 1]
  /\ used' = [used EXCEPT !.ids = @ + 1, !.updates = @ + 1]
  /\ UNCHANGED <<program, main, ready, elapsed>>

\* A watch that is not executing is freed, and after it the source is removed
\* whose id is read from it: what was there still is, or something else is.
SourcesWithout(h, freed) ==
  {{s \in sources : s.id # gio.id[h]}} \cup IF freed THEN {sources} ELSE {}

\* From its own thread, or from another one: then main may go on in between.
RemoveAtOnce(h) ==
  LET freed == h \in Watches /\ ~Executing(h)
  IN  /\ h \in gio.there /\ Alive /\ ByMain
      /\ gio' = [gio EXCEPT !.there = @ \ {h}, !.disposed = IF Executing(h) THEN @ \cup {h} ELSE @]
      /\ sources' \in SourcesWithout(h, freed)
      /\ IF Executing(h) THEN UNCHANGED used ELSE used' = [used EXCEPT !.released = @ \cup {h}]
      /\ UNCHANGED <<program, main, ready, elapsed>>

BeginRemove(h) ==
  LET freed == h \in Watches /\ ~Executing(h)
  IN  /\ h \in gio.there /\ Alive /\ main.at # "disposed" /\ "remove" \in program.threaded
      /\ gio' = [gio EXCEPT !.there = @ \ {h}, !.removing = @ \cup {h},
                            !.disposed = IF Executing(h) THEN @ \cup {h} ELSE @]
      /\ used' = [used EXCEPT !.released = @ \cup IF freed THEN {h} ELSE {}]
      /\ UNCHANGED <<program, sources, main, ready, elapsed>>

EndRemove(h) ==
  /\ h \in gio.removing /\ Alive
  /\ gio' = [gio EXCEPT !.removing = @ \ {h}]
  /\ sources' \in SourcesWithout(h, h \in used.released)
  /\ used' = [used EXCEPT !.released = @ \cup IF h \in Watches THEN {} ELSE {h}]
  /\ UNCHANGED <<program, main, ready, elapsed>>

------------------------------------------------------------------------------
(* GLib calls the function of a source *)

IsReady(s) == s.handle \in elapsed \/ (s.handle \in Watches /\ SocketOf[s.handle] \in ready.sockets)

\* Dispatches are idle sources: they wait until nothing else is ready.
Choose == \E s \in sources :
  /\ Alive /\ main.at = "idle"
  /\ IsReady(s) \/ (s.handle \in Dispatches /\ \A r \in sources : ~IsReady(r))
  /\ main' = [main EXCEPT !.at = "chosen", !.source = s]
  /\ UNCHANGED <<program, gio, sources, ready, elapsed, used>>

\* The function has the mutex.
Dropped ==
  /\ Alive /\ main.at = "chosen" /\ main.source \notin sources
  /\ main' = [main EXCEPT !.at = "idle", !.source = None]
  /\ UNCHANGED <<program, gio, sources, ready, elapsed, used>>

Fails(what) ==
  /\ main' = [main EXCEPT !.failure = what]
  /\ UNCHANGED <<program, gio, sources, ready, elapsed, used>>

Misled ==
  /\ Alive /\ main.at = "chosen" /\ main.source \in sources
  /\ main.source.handle \notin gio.there
  /\ Fails(IF main.source.handle \in used.released THEN "freed handle" ELSE "not in the list")

\* A timeout and a dispatch leave the list; a watch reads what has arrived.
Call ==
  LET h == main.source.handle
  IN  /\ Alive /\ main.at = "chosen" /\ main.source \in sources /\ h \in gio.there
      /\ main' = [main EXCEPT !.at = "called"]
      /\ gio' = [gio EXCEPT !.there = IF h \in Watches THEN @ ELSE @ \ {h}]
      /\ ready' = [ready EXCEPT !.sockets = @ \ IF h \in Watches THEN {SocketOf[h]} ELSE {}]
      /\ UNCHANGED <<program, sources, elapsed, used>>

Return ==
  LET h == Current
  IN  /\ Alive /\ main.at = "called"
      /\ main' = [main EXCEPT !.at = "idle", !.source = None]
      /\ sources' = sources \ IF h \in Watches THEN {} ELSE {main.source}
      /\ gio' = [gio EXCEPT !.disposed = @ \ {h}]
      /\ used' = [used EXCEPT !.released = @ \cup IF h \in gio.disposed \/ h \notin Watches THEN {h} ELSE {}]
      /\ UNCHANGED <<program, ready, elapsed>>

\* The object is disposed of, with all that it still has.
Finalize ==
  /\ Alive /\ main.at = "idle" /\ gio.removing = {} /\ used.added # {}
  /\ main' = [main EXCEPT !.at = "disposed"]
  /\ sources' = {s \in sources : \A h \in gio.there : s.id # gio.id[h]}
  /\ used' = [used EXCEPT !.released = @ \cup gio.there]
  /\ gio' = [gio EXCEPT !.there = {}]
  /\ UNCHANGED <<program, ready, elapsed>>

------------------------------------------------------------------------------
(* The operating system *)

BecomesReady == \E s \in Sockets \ ready.sockets :
  /\ Alive /\ ready.times < program.ready
  /\ ready' = [sockets |-> ready.sockets \cup {s}, times |-> ready.times + 1]
  /\ UNCHANGED <<program, gio, sources, main, elapsed, used>>

Elapse == \E t \in (used.added \cap Timeouts) \ elapsed :
  /\ Alive
  /\ elapsed' = elapsed \cup {t}
  /\ UNCHANGED <<program, gio, sources, main, ready, used>>

Next ==
  \/ \E h \in Handles :
       Add(h) \/ UpdateWatch(h) \/ RemoveAtOnce(h) \/ BeginRemove(h) \/ EndRemove(h)
  \/ Choose \/ Dropped \/ Misled \/ Call \/ Return \/ Finalize
  \/ BecomesReady \/ Elapse
Spec == Init /\ [][Next]_gioVars

------------------------------------------------------------------------------
(* Properties *)

HandleState(h) ==
  IF h \notin used.added THEN "new"
  ELSE IF h \in used.released \/ (h \in gio.removing /\ Current # h) THEN "gone"
  ELSE IF Current = h THEN IF h \in gio.disposed THEN "leaving" ELSE "called"
  ELSE IF h \in gio.there THEN "there" ELSE "lost"

Abstract == INSTANCE InfIo WITH handle <- [h \in Handles |-> HandleState(h)]

\* Callbacks run one at a time and never after a removal; data is released once.
ImplementsInfIo == Abstract!Spec

\* Each handle that is there has its source, and no source is another's or one that was
\* replaced.  None is called after its removal, but a watch whose source was looked up
\* when it was freed already, and a handle that another thread is removing.
SourcesMatch ==
  /\ \A h \in gio.there : Source(gio.id[h], h) \in sources
  /\ \A s \in sources : s.id = gio.id[s.handle] /\ s.handle \in used.added
  /\ main.failure = "freed handle" => main.source.handle \in Watches
  /\ main.failure = "not in the list" => main.source.handle \in gio.removing
================================================================================
