------------------------------ MODULE GtkIoProofs ------------------------------
(***************************************************************************)
(* For any handles and programs: GLib's sources are those of what is       *)
(* there, and InfGtkIo does what InfIo promises.                           *)
(***************************************************************************)
EXTENDS GtkIo, TLAPS

(* The inductive invariant *)

AllSources == [id : Nat, handle : Handles]
Lists == [there : SUBSET Handles, id : [Handles -> Nat], disposed : SUBSET Watches,
          removing : SUBSET Handles]
Places == [at : {"idle", "chosen", "called", "disposed"}, source : AllSources \cup {None},
           failure : {None, "freed handle", "not in the list"}]
Histories == [added : SUBSET Handles, released : SUBSET Handles, ids : Nat, updates : Nat]

TypeOK ==
  /\ program.uses \subseteq Handles /\ gio \in Lists /\ sources \subseteq AllSources
  /\ main \in Places /\ used \in Histories

\* Sources are numbered, and no two handles have the same one.
IdsDiffer ==
  /\ \A h \in Handles : gio.id[h] <= used.ids
  /\ \A h, k \in used.added : gio.id[h] = gio.id[k] => h = k

\* What was added is in one place until it is released.
InOnePlace ==
  /\ gio.there \cup gio.removing \cup used.released \subseteq used.added
  /\ used.added \subseteq gio.there \cup gio.removing \cup used.released \cup {Current}
  /\ gio.there \cap (gio.removing \cup used.released) = {}
  /\ \A h \in gio.removing : IF h \in Watches THEN h \in used.released \cup gio.disposed
                             ELSE h \notin used.released

\* The source the main thread looks at, and the handle that it calls.
MainExact ==
  /\ main.at \in {"chosen", "called"} => main.source \in AllSources /\ main.source.handle \in used.added
  /\ gio.disposed \subseteq {Current} \ gio.there
  /\ main.at = "called" => /\ Current \notin used.released
                           /\ Current \in Watches => Current \in gio.there \cup gio.disposed
                           /\ Current \notin Watches => /\ Current \notin gio.there \cup gio.removing
                                                        /\ main.source.id = gio.id[Current]

\* What is released has no source, unless it is a watch.
ReleasedWithoutSource == \A s \in sources : s.handle \in used.released => s.handle \in Watches

Inv == TypeOK /\ IdsDiffer /\ InOnePlace /\ MainExact /\ ReleasedWithoutSource /\ SourcesMatch

\* As long as the main thread was not misled, sources are all there is to match.
LEMMA StillMatches ==
  ASSUME GtkAssumption, main'.failure = None,
         \A k \in gio'.there : Source(gio'.id[k], k) \in sources',
         \A s \in sources' : s.id = gio'.id[s.handle] /\ s.handle \in used'.added
  PROVE  SourcesMatch'
BY DEF SourcesMatch, GtkAssumption

------------------------------------------------------------------------------
(* Adding and changing *)

\* What is added is listed with a number of its own.
LEMMA AddDoes ==
  ASSUME Inv, NEW h \in Handles, Add(h)
  PROVE  /\ gio'.there = gio.there \cup {h} /\ gio'.id = [gio.id EXCEPT ![h] = used.ids + 1]
         /\ gio'.disposed = gio.disposed /\ gio'.removing = gio.removing
         /\ used'.added = used.added \cup {h} /\ used'.released = used.released
         /\ used'.ids = used.ids + 1 /\ Current' = Current
BY DEF Inv, TypeOK, Add, NewSource, Lists, Histories, Current

\* The handle and the source are new.
LEMMA AddKeeps == ASSUME GtkAssumption, Inv, NEW h \in Handles, Add(h) PROVE Inv'
<1>1. /\ gio' = [gio EXCEPT !.there = gio.there \cup {h}, !.id[h] = used.ids + 1]
      /\ used' = [used EXCEPT !.added = used.added \cup {h}, !.ids = used.ids + 1]
      /\ sources' = sources \cup {Source(used.ids + 1, h)} /\ main' = main /\ program' = program
      /\ h \notin used.added
  BY DEF Add, NewSource
<1>2. /\ gio.there \cup {h} \in SUBSET Handles /\ used.added \cup {h} \in SUBSET Handles
      /\ gio \in Lists /\ used \in Histories /\ used.ids + 1 \in Nat
      /\ Source(used.ids + 1, h) \in AllSources
  BY DEF Inv, TypeOK, Lists, Histories, AllSources, Source
<1>3. gio' \in Lists /\ used' \in Histories
  BY <1>1, <1>2 DEF Lists, Histories
<1>4. TypeOK'
  BY <1>1, <1>2, <1>3 DEF Inv, TypeOK
<1>5. /\ gio'.there = gio.there \cup {h} /\ gio'.id = [gio.id EXCEPT ![h] = used.ids + 1]
      /\ gio'.disposed = gio.disposed /\ gio'.removing = gio.removing
      /\ used'.added = used.added \cup {h} /\ used'.released = used.released
      /\ used'.ids = used.ids + 1 /\ Current' = Current
  BY AddDoes
<1>6. IdsDiffer'
  BY <1>1, <1>2, <1>5 DEF Inv, Lists, Histories, IdsDiffer
<1>7. InOnePlace'
  BY <1>1, <1>5 DEF Inv, InOnePlace
<1>8. MainExact'
  <2>1. Current # h /\ (main.at = "called" => Current \in Handles)
    BY <1>1, <1>2 DEF Inv, MainExact, Current, Histories, GtkAssumption
  <2>2. main.at = "called" => gio'.id[Current] = gio.id[Current]
    BY <1>2, <1>5, <2>1 DEF Lists
  <2>3. gio.disposed \subseteq {Current} \ gio'.there
    BY <1>5, <2>1 DEF Inv, MainExact
  <2> QED
    BY <1>1, <1>5, <2>1, <2>2, <2>3 DEF Inv, MainExact
<1>9. ReleasedWithoutSource'
  BY <1>1, <1>5 DEF Inv, InOnePlace, ReleasedWithoutSource, Source
<1>10. SourcesMatch'
  <2>1. \A k \in used.added : k \in Handles /\ gio'.id[k] = gio.id[k]
    BY <1>1, <1>2, <1>5 DEF Lists, Histories
  <2>2. gio'.id[h] = used.ids + 1
    BY <1>2, <1>5 DEF Lists
  <2>3. \A k \in gio'.there : Source(gio'.id[k], k) \in sources'
    <3>1. \A k \in gio.there : Source(gio.id[k], k) \in sources /\ gio'.id[k] = gio.id[k]
      BY <2>1 DEF Inv, InOnePlace, SourcesMatch
    <3> QED
      BY <1>1, <1>5, <2>2, <3>1
  <2>4. \A s \in sources' : s.id = gio'.id[s.handle] /\ s.handle \in used'.added
    <3>1. \A s \in sources : s.id = gio'.id[s.handle] /\ s.handle \in used.added
      BY <2>1 DEF Inv, SourcesMatch
    <3>2. Source(used.ids + 1, h).id = gio'.id[h] /\ Source(used.ids + 1, h).handle = h
      BY <2>2 DEF Source
    <3> QED
      BY <1>1, <1>5, <3>1, <3>2
  <2> QED
    BY <1>1, <1>5, <2>3, <2>4 DEF Inv, SourcesMatch
<1> QED
  BY <1>4, <1>6, <1>7, <1>8, <1>9, <1>10 DEF Inv

\* The watch gets another number.
LEMMA UpdateWatchDoes ==
  ASSUME Inv, NEW h \in Handles, UpdateWatch(h)
  PROVE  /\ gio'.there = gio.there /\ gio'.id = [gio.id EXCEPT ![h] = used.ids + 1]
         /\ gio'.disposed = gio.disposed /\ gio'.removing = gio.removing
         /\ used'.added = used.added /\ used'.released = used.released
         /\ used'.ids = used.ids + 1 /\ Current' = Current
BY DEF Inv, TypeOK, UpdateWatch, NewSource, Lists, Histories, Current

\* The new source takes the place of the one that the watch had.
LEMMA UpdateWatchKeeps == ASSUME GtkAssumption, Inv, NEW h \in Handles, UpdateWatch(h) PROVE Inv'
<1>1. /\ gio' = [gio EXCEPT !.id[h] = used.ids + 1]
      /\ used' = [used EXCEPT !.ids = used.ids + 1, !.updates = used.updates + 1]
      /\ sources' = {s \in sources \cup {Source(used.ids + 1, h)} : s.id # gio.id[h]}
      /\ main' = main /\ program' = program /\ h \in gio.there /\ h \in Watches
  BY DEF UpdateWatch, NewSource
<1>2. /\ gio \in Lists /\ used \in Histories /\ used.ids + 1 \in Nat /\ used.updates + 1 \in Nat
      /\ Source(used.ids + 1, h) \in AllSources /\ h \in used.added
  BY <1>1 DEF Inv, TypeOK, InOnePlace, Lists, Histories, AllSources, Source
<1>3. gio' \in Lists /\ used' \in Histories
  BY <1>1, <1>2 DEF Lists, Histories
<1>4. TypeOK'
  BY <1>1, <1>2, <1>3 DEF Inv, TypeOK
<1>5. /\ gio'.there = gio.there /\ gio'.id = [gio.id EXCEPT ![h] = used.ids + 1]
      /\ gio'.disposed = gio.disposed /\ gio'.removing = gio.removing
      /\ used'.added = used.added /\ used'.released = used.released
      /\ used'.ids = used.ids + 1 /\ Current' = Current
  BY UpdateWatchDoes
<1>6. IdsDiffer'
  BY <1>1, <1>2, <1>5 DEF Inv, Lists, Histories, IdsDiffer
<1>7. InOnePlace'
  BY <1>1, <1>5 DEF Inv, InOnePlace
<1>8. /\ gio'.id[h] = used.ids + 1 /\ used.ids + 1 # gio.id[h]
      /\ \A k \in used.added \ {h} : /\ k \in Handles /\ gio'.id[k] = gio.id[k]
                                     /\ gio.id[k] # gio.id[h]
  BY <1>2, <1>5 DEF Inv, IdsDiffer, Lists, Histories
<1>9. MainExact'
  <2>1. main.at = "called" /\ Current \notin Watches => gio'.id[Current] = gio.id[Current]
    BY <1>1, <1>8 DEF Inv, MainExact, Current
  <2> QED
    BY <1>1, <1>5, <2>1 DEF Inv, MainExact
<1>10. ReleasedWithoutSource'
  BY <1>1, <1>5 DEF Inv, ReleasedWithoutSource, Source
<1>11. SourcesMatch'
  <2>1. \A k \in gio'.there : Source(gio'.id[k], k) \in sources'
    <3>1. \A k \in gio.there \ {h} : /\ Source(gio.id[k], k) \in sources /\ gio'.id[k] = gio.id[k]
                                      /\ gio.id[k] # gio.id[h]
      BY <1>8 DEF Inv, InOnePlace, SourcesMatch
    <3>2. \A n, k : Source(n, k).id = n
      BY DEF Source
    <3> QED
      BY <1>1, <1>5, <1>8, <3>1, <3>2
  <2>2. \A s \in sources' : s.id = gio'.id[s.handle] /\ s.handle \in used'.added
    <3>1. \A s \in sources : s.id # gio.id[h] => s.id = gio'.id[s.handle] /\ s.handle \in used.added
      BY <1>8 DEF Inv, SourcesMatch
    <3>2. Source(used.ids + 1, h).id = gio'.id[h] /\ Source(used.ids + 1, h).handle = h
      BY <1>8 DEF Source
    <3> QED
      BY <1>1, <1>2, <1>5, <3>1, <3>2
  <2> QED
    BY <1>1, <1>5, <2>1, <2>2 DEF Inv, SourcesMatch
<1> QED
  BY <1>4, <1>6, <1>7, <1>9, <1>10, <1>11 DEF Inv

------------------------------------------------------------------------------
(* Removing *)

\* A handle's source can be taken away when the handle is not there; it must be,
\* unless the handle is that of a watch that was freed.
LEMMA SourcesTaken ==
  ASSUME Inv, NEW h \in used.added, NEW freed \in BOOLEAN, sources' \in SourcesWithout(h, freed),
         gio'.there \subseteq gio.there \ {h}, gio'.id = gio.id, used'.added = used.added
  PROVE  /\ sources' \subseteq sources
         /\ ~freed => \A s \in sources' : s.handle # h
         /\ \A k \in gio'.there : Source(gio'.id[k], k) \in sources'
         /\ \A s \in sources' : s.id = gio'.id[s.handle] /\ s.handle \in used'.added
<1>1. \/ sources' = {s \in sources : s.id # gio.id[h]}
      \/ freed /\ sources' = sources
  BY DEF SourcesWithout
<1>2. sources' \subseteq sources
  BY <1>1
<1>3. \A s \in sources : s.id = gio.id[s.handle] /\ s.handle \in used.added
  BY DEF Inv, SourcesMatch
<1>4. \A k \in gio'.there : Source(gio.id[k], k) \in sources'
  <2>1. \A k \in gio'.there : Source(gio.id[k], k) \in sources /\ gio.id[k] # gio.id[h]
    BY DEF Inv, InOnePlace, IdsDiffer, SourcesMatch
  <2>2. \A n, k : Source(n, k).id = n
    BY DEF Source
  <2> QED
    BY <1>1, <2>1, <2>2
<1> QED
  BY <1>1, <1>2, <1>3, <1>4

\* It is listed no longer, and released unless the callback is using it.
LEMMA RemoveAtOnceDoes ==
  ASSUME Inv, NEW h \in Handles, RemoveAtOnce(h)
  PROVE  /\ gio'.there = gio.there \ {h} /\ gio'.id = gio.id /\ gio'.removing = gio.removing
         /\ gio'.disposed = IF Executing(h) THEN gio.disposed \cup {h} ELSE gio.disposed
         /\ used'.released = IF Executing(h) THEN used.released ELSE used.released \cup {h}
         /\ used'.added = used.added /\ used'.ids = used.ids /\ Current' = Current
BY DEF Inv, TypeOK, RemoveAtOnce, Lists, Histories, Current

\* A watch that is being called is left to its callback.
LEMMA RemoveAtOnceKeeps ==
  ASSUME GtkAssumption, Inv, NEW h \in Handles, RemoveAtOnce(h) PROVE Inv'
<1>1. /\ gio' = [gio EXCEPT !.there = gio.there \ {h},
                           !.disposed = IF Executing(h) THEN gio.disposed \cup {h} ELSE gio.disposed]
      /\ used' = IF Executing(h) THEN used ELSE [used EXCEPT !.released = used.released \cup {h}]
      /\ sources' \in SourcesWithout(h, h \in Watches /\ ~Executing(h))
      /\ main' = main /\ program' = program /\ h \in gio.there
  BY DEF RemoveAtOnce
<1>2. /\ gio.there \ {h} \in SUBSET Handles /\ used.released \cup {h} \in SUBSET Handles
      /\ Executing(h) => gio.disposed \cup {h} \in SUBSET Watches
      /\ gio \in Lists /\ used \in Histories /\ h \in used.added
  BY <1>1 DEF Inv, TypeOK, InOnePlace, Lists, Histories, Executing
<1>3. gio' \in Lists /\ used' \in Histories
  BY <1>1, <1>2 DEF Lists, Histories
<1>4. /\ gio'.there = gio.there \ {h} /\ gio'.id = gio.id /\ gio'.removing = gio.removing
      /\ gio'.disposed = IF Executing(h) THEN gio.disposed \cup {h} ELSE gio.disposed
      /\ used'.released = IF Executing(h) THEN used.released ELSE used.released \cup {h}
      /\ used'.added = used.added /\ used'.ids = used.ids /\ Current' = Current
  BY RemoveAtOnceDoes
<1>5. /\ sources' \subseteq sources
      /\ h \notin Watches \/ Executing(h) => \A s \in sources' : s.handle # h
      /\ \A k \in gio'.there : Source(gio'.id[k], k) \in sources'
      /\ \A s \in sources' : s.id = gio'.id[s.handle] /\ s.handle \in used'.added
  BY <1>1, <1>2, <1>4, SourcesTaken
<1>6. TypeOK'
  BY <1>1, <1>3, <1>5 DEF Inv, TypeOK
<1>7. IdsDiffer'
  BY <1>4 DEF Inv, IdsDiffer
<1>8. InOnePlace'
  BY <1>1, <1>4 DEF Inv, InOnePlace, Executing
<1>9. MainExact'
  BY <1>1, <1>4 DEF Inv, MainExact, Executing, Current
<1>10. ReleasedWithoutSource'
  BY <1>4, <1>5 DEF Inv, ReleasedWithoutSource
<1>11. SourcesMatch'
  BY <1>1, <1>4, <1>5 DEF Inv, SourcesMatch
<1> QED
  BY <1>6, <1>7, <1>8, <1>9, <1>10, <1>11 DEF Inv

\* It is listed no longer; the source is taken away later.
LEMMA BeginRemoveDoes ==
  ASSUME Inv, NEW h \in Handles, BeginRemove(h)
  PROVE  /\ gio'.there = gio.there \ {h} /\ gio'.id = gio.id /\ gio'.removing = gio.removing \cup {h}
         /\ gio'.disposed = IF Executing(h) THEN gio.disposed \cup {h} ELSE gio.disposed
         /\ used'.released = used.released \cup IF h \in Watches /\ ~Executing(h) THEN {h} ELSE {}
         /\ used'.added = used.added /\ used'.ids = used.ids /\ Current' = Current
BY DEF Inv, TypeOK, BeginRemove, Lists, Histories, Current

\* Another thread has taken it from the list.
LEMMA BeginRemoveKeeps ==
  ASSUME GtkAssumption, Inv, NEW h \in Handles, BeginRemove(h) PROVE Inv'
<1>1. /\ gio' = [gio EXCEPT !.there = gio.there \ {h}, !.removing = gio.removing \cup {h},
                           !.disposed = IF Executing(h) THEN gio.disposed \cup {h} ELSE gio.disposed]
      /\ used' = [used EXCEPT !.released =
                    used.released \cup IF h \in Watches /\ ~Executing(h) THEN {h} ELSE {}]
      /\ sources' = sources /\ main' = main /\ program' = program /\ h \in gio.there
  BY DEF BeginRemove
<1>2. /\ gio.there \ {h} \in SUBSET Handles /\ gio.removing \cup {h} \in SUBSET Handles
      /\ used.released \cup {h} \in SUBSET Handles /\ used.released \cup {} \in SUBSET Handles
      /\ Executing(h) => gio.disposed \cup {h} \in SUBSET Watches
      /\ gio \in Lists /\ used \in Histories /\ h \in used.added
  BY <1>1 DEF Inv, TypeOK, InOnePlace, Lists, Histories, Executing
<1>3. gio' \in Lists /\ used' \in Histories
  BY <1>1, <1>2 DEF Lists, Histories
<1>4. /\ gio'.there = gio.there \ {h} /\ gio'.id = gio.id /\ gio'.removing = gio.removing \cup {h}
      /\ gio'.disposed = IF Executing(h) THEN gio.disposed \cup {h} ELSE gio.disposed
      /\ used'.released = used.released \cup IF h \in Watches /\ ~Executing(h) THEN {h} ELSE {}
      /\ used'.added = used.added /\ used'.ids = used.ids /\ Current' = Current
  BY BeginRemoveDoes
<1>5. TypeOK'
  BY <1>1, <1>3 DEF Inv, TypeOK
<1>6. IdsDiffer'
  BY <1>4 DEF Inv, IdsDiffer
<1>7. InOnePlace'
  BY <1>1, <1>2, <1>4 DEF Inv, InOnePlace, Executing
<1>8. MainExact'
  BY <1>1, <1>4 DEF Inv, MainExact, Executing, Current
<1>9. ReleasedWithoutSource'
  BY <1>1, <1>4 DEF Inv, ReleasedWithoutSource
<1>10. SourcesMatch'
  <2>1. \A k \in gio.there : Source(gio.id[k], k) \in sources
    BY DEF Inv, SourcesMatch
  <2>2. \A k \in gio'.there : Source(gio'.id[k], k) \in sources'
    BY <1>1, <1>4, <2>1
  <2>3. \A s \in sources' : s.id = gio'.id[s.handle] /\ s.handle \in used'.added
    BY <1>1, <1>4 DEF Inv, SourcesMatch
  <2> QED
    BY <1>1, <1>4, <2>2, <2>3 DEF Inv, SourcesMatch
<1> QED
  BY <1>5, <1>6, <1>7, <1>8, <1>9, <1>10 DEF Inv

\* The removal that another thread began has ended.
LEMMA EndRemoveDoes ==
  ASSUME Inv, NEW h \in Handles, EndRemove(h)
  PROVE  /\ gio'.there = gio.there /\ gio'.id = gio.id /\ gio'.removing = gio.removing \ {h}
         /\ gio'.disposed = gio.disposed
         /\ used'.released = used.released \cup IF h \in Watches THEN {} ELSE {h}
         /\ used'.added = used.added /\ used'.ids = used.ids /\ Current' = Current
BY DEF Inv, TypeOK, EndRemove, Alive, Lists, Histories, Current

\* ... and removes the source.
LEMMA EndRemoveKeeps ==
  ASSUME GtkAssumption, Inv, NEW h \in Handles, EndRemove(h) PROVE Inv'
<1>1. /\ gio' = [gio EXCEPT !.removing = gio.removing \ {h}]
      /\ used' = [used EXCEPT !.released = used.released \cup IF h \in Watches THEN {} ELSE {h}]
      /\ sources' \in SourcesWithout(h, h \in used.released)
      /\ main' = main /\ program' = program /\ h \in gio.removing /\ main.failure = None
  BY DEF EndRemove, Alive
<1>2. /\ gio.removing \ {h} \in SUBSET Handles
      /\ used.released \cup {h} \in SUBSET Handles /\ used.released \cup {} \in SUBSET Handles
      /\ gio \in Lists /\ used \in Histories /\ h \in used.added
  BY <1>1 DEF Inv, TypeOK, InOnePlace, Lists, Histories
<1>3. gio' \in Lists /\ used' \in Histories
  BY <1>1, <1>2 DEF Lists, Histories
<1>4. /\ gio'.there = gio.there /\ gio'.id = gio.id /\ gio'.removing = gio.removing \ {h}
      /\ gio'.disposed = gio.disposed
      /\ used'.released = used.released \cup IF h \in Watches THEN {} ELSE {h}
      /\ used'.added = used.added /\ used'.ids = used.ids /\ Current' = Current
  BY EndRemoveDoes
<1>5. gio'.there \subseteq gio.there \ {h}
  BY <1>1, <1>4 DEF Inv, InOnePlace
<1>6. /\ sources' \subseteq sources
      /\ h \notin used.released => \A s \in sources' : s.handle # h
      /\ \A k \in gio'.there : Source(gio'.id[k], k) \in sources'
      /\ \A s \in sources' : s.id = gio'.id[s.handle] /\ s.handle \in used'.added
  <2>1. (h \in used.released) \in BOOLEAN /\ gio'.id = gio.id /\ used'.added = used.added
    BY <1>4
  <2> QED
    BY <1>1, <1>2, <1>5, <2>1, SourcesTaken
<1>7. TypeOK'
  BY <1>1, <1>3, <1>6 DEF Inv, TypeOK
<1>8. IdsDiffer'
  BY <1>4 DEF Inv, IdsDiffer
<1>9. InOnePlace'
  BY <1>1, <1>2, <1>4 DEF Inv, InOnePlace, MainExact
<1>10. MainExact'
  BY <1>1, <1>4 DEF Inv, MainExact
<1>11. ReleasedWithoutSource'
  BY <1>1, <1>4, <1>6 DEF Inv, ReleasedWithoutSource, InOnePlace
<1>12. SourcesMatch'
  BY <1>1, <1>6, StillMatches
<1> QED
  BY <1>7, <1>8, <1>9, <1>10, <1>11, <1>12 DEF Inv

------------------------------------------------------------------------------
(* The main thread *)

\* It looks for a source, and turns back when that has gone.
LEMMA ChooseKeeps ==
  ASSUME GtkAssumption, Inv, Choose \/ Dropped PROVE Inv'
<1>1. /\ gio' = gio /\ used' = used /\ sources' = sources /\ program' = program
      /\ main.failure = None /\ Current = None /\ Current' = None
      /\ \/ \E s \in sources : main' = [main EXCEPT !.at = "chosen", !.source = s]
         \/ main' = [main EXCEPT !.at = "idle", !.source = None]
  BY DEF Choose, Dropped, Inv, TypeOK, Places, Current, Alive
<1>2. main' \in Places /\ main'.failure = None
  BY <1>1 DEF Inv, TypeOK, Places
<1>3. main'.at # "called"
  BY <1>1 DEF Inv, TypeOK, Places
<1>4. main'.at = "chosen" => main'.source \in AllSources /\ main'.source.handle \in used.added
  BY <1>1 DEF Inv, TypeOK, Places, SourcesMatch
<1>5. TypeOK'
  BY <1>1, <1>2 DEF Inv, TypeOK
<1>6. IdsDiffer' /\ InOnePlace' /\ ReleasedWithoutSource'
  BY <1>1 DEF Inv, IdsDiffer, InOnePlace, ReleasedWithoutSource
<1>7. MainExact'
  BY <1>1, <1>3, <1>4 DEF Inv, MainExact
<1>8. SourcesMatch'
  <2>1. /\ \A k \in gio.there : Source(gio.id[k], k) \in sources
        /\ \A s \in sources : s.id = gio.id[s.handle] /\ s.handle \in used.added
    BY DEF Inv, SourcesMatch
  <2>2. /\ \A k \in gio'.there : Source(gio'.id[k], k) \in sources'
        /\ \A s \in sources' : s.id = gio'.id[s.handle] /\ s.handle \in used'.added
    BY <1>1, <2>1, Zenon
  <2> QED
    BY <1>2, <2>2, StillMatches
<1> QED
  BY <1>5, <1>6, <1>7, <1>8 DEF Inv

\* What it is misled to is a freed watch, or is being removed by another thread.
LEMMA MisledKeeps ==
  ASSUME GtkAssumption, Inv, Misled PROVE Inv'
<1> DEFINE h == main.source.handle
           what == IF h \in used.released THEN "freed handle" ELSE "not in the list"
<1>1. /\ gio' = gio /\ used' = used /\ sources' = sources /\ program' = program
      /\ main' = [main EXCEPT !.failure = what]
      /\ main.at = "chosen" /\ main.source \in sources /\ h \notin gio.there
  BY DEF Misled, Fails
<1>2. /\ main' \in Places /\ main'.at = "chosen" /\ main'.source = main.source
      /\ main'.failure = what
  BY <1>1 DEF Inv, TypeOK, Places
<1>3. Current = None /\ Current' = None
  BY <1>1, <1>2 DEF Current
<1>4. h \in used.added /\ h # None
  BY <1>1 DEF Inv, SourcesMatch, TypeOK, Histories, GtkAssumption
<1>5. IF h \in used.released THEN h \in Watches ELSE h \in gio.removing
  BY <1>1, <1>3, <1>4 DEF Inv, InOnePlace, ReleasedWithoutSource
<1>6. TypeOK'
  BY <1>1, <1>2 DEF Inv, TypeOK
<1>7. IdsDiffer' /\ InOnePlace' /\ ReleasedWithoutSource'
  BY <1>1, <1>3 DEF Inv, IdsDiffer, InOnePlace, ReleasedWithoutSource
<1>8. MainExact'
  BY <1>1, <1>2, <1>3 DEF Inv, MainExact
<1>9. SourcesMatch'
  <2>1. /\ \A k \in gio'.there : Source(gio'.id[k], k) \in sources'
        /\ \A s \in sources' : s.id = gio'.id[s.handle] /\ s.handle \in used'.added
    BY <1>1, Zenon DEF Inv, SourcesMatch
  <2>2. /\ main'.failure = "freed handle" => main'.source.handle \in Watches
        /\ main'.failure = "not in the list" => main'.source.handle \in gio'.removing
    <3>1. main'.source.handle = h /\ gio'.removing = gio.removing
      BY <1>1, <1>2
    <3>2. "freed handle" # "not in the list"
      OBVIOUS
    <3>3. CASE h \in used.released
      BY <1>2, <1>5, <3>1, <3>2, <3>3
    <3>4. CASE h \notin used.released
      BY <1>2, <1>5, <3>1, <3>2, <3>4
    <3> QED
      BY <3>3, <3>4
  <2> QED
    BY <2>1, <2>2 DEF SourcesMatch
<1> QED
  BY <1>6, <1>7, <1>8, <1>9 DEF Inv

\* A timeout and a dispatch are listed no longer when they are called.
LEMMA CallDoes ==
  ASSUME Inv, Call
  PROVE  /\ gio'.there = IF main.source.handle \in Watches THEN gio.there ELSE gio.there \ {main.source.handle}
         /\ gio'.id = gio.id /\ gio'.removing = gio.removing /\ gio'.disposed = gio.disposed
         /\ main'.at = "called" /\ main'.source = main.source /\ main'.failure = None
         /\ Current' = main.source.handle /\ Current = None
BY DEF Inv, TypeOK, Call, Alive, Lists, Places, Current

\* A timeout and a dispatch leave the list before they are called.
LEMMA CallKeeps ==
  ASSUME GtkAssumption, Inv, Call PROVE Inv'
<1> DEFINE h == main.source.handle
<1>1. /\ main' = [main EXCEPT !.at = "called"]
      /\ gio' = [gio EXCEPT !.there = IF h \in Watches THEN gio.there ELSE gio.there \ {h}]
      /\ used' = used /\ sources' = sources /\ program' = program
      /\ main.at = "chosen" /\ main.source \in sources /\ h \in gio.there /\ main.failure = None
  BY DEF Call, Alive
<1>2. gio.there \ {h} \in SUBSET Handles /\ gio \in Lists /\ main \in Places
  BY DEF Inv, TypeOK, Lists
<1>3. gio' \in Lists /\ main' \in Places
  BY <1>1, <1>2 DEF Lists, Places
<1>4. /\ gio'.there = IF h \in Watches THEN gio.there ELSE gio.there \ {h}
      /\ gio'.id = gio.id /\ gio'.removing = gio.removing /\ gio'.disposed = gio.disposed
      /\ main'.at = "called" /\ main'.source = main.source /\ main'.failure = None
      /\ Current' = h /\ Current = None
  BY CallDoes
<1>5. gio.disposed = {} /\ main.source.id = gio.id[h] /\ h \notin used.released /\ h \notin gio.removing
  <2>1. main.source.id = gio.id[h]
    BY <1>1 DEF Inv, SourcesMatch
  <2>2. h \notin used.released /\ h \notin gio.removing
    BY <1>1 DEF Inv, InOnePlace
  <2>3. None \notin gio.disposed
    BY <1>2 DEF Lists, Handles, GtkAssumption
  <2> QED
    BY <1>4, <2>1, <2>2, <2>3 DEF Inv, MainExact
<1>6. TypeOK'
  BY <1>1, <1>3 DEF Inv, TypeOK
<1>7. IdsDiffer' /\ ReleasedWithoutSource'
  BY <1>1, <1>4 DEF Inv, IdsDiffer, ReleasedWithoutSource
<1>8. InOnePlace'
  <2>1. None \notin used.added
    BY DEF Inv, TypeOK, Histories, GtkAssumption
  <2> QED
    BY <1>1, <1>4, <1>5, <2>1 DEF Inv, InOnePlace
<1>9. MainExact'
  BY <1>1, <1>4, <1>5 DEF Inv, MainExact
<1>10. SourcesMatch'
  <2>1. /\ \A k \in gio.there : Source(gio.id[k], k) \in sources
        /\ \A s \in sources : s.id = gio.id[s.handle] /\ s.handle \in used.added
    BY DEF Inv, SourcesMatch
  <2> QED
    BY <1>1, <1>4, <2>1, StillMatches
<1> QED
  BY <1>6, <1>7, <1>8, <1>9, <1>10 DEF Inv

\* Everything but a watch that is still there is released.
LEMMA ReturnDoes ==
  ASSUME Inv, Return
  PROVE  /\ gio'.there = gio.there /\ gio'.id = gio.id /\ gio'.removing = gio.removing
         /\ gio'.disposed = gio.disposed \ {main.source.handle}
         /\ used'.released = used.released \cup IF main.source.handle \in gio.disposed \/ main.source.handle \notin Watches THEN {main.source.handle} ELSE {}
         /\ used'.added = used.added /\ used'.ids = used.ids
         /\ main'.at = "idle" /\ main'.failure = None /\ Current' = None
BY DEF Inv, TypeOK, Return, Current, Alive, Lists, Places, Histories

\* A watch stays unless it was removed meanwhile; anything else is released.
LEMMA ReturnKeeps ==
  ASSUME GtkAssumption, Inv, Return PROVE Inv'
<1> DEFINE h == main.source.handle
<1>1. /\ main' = [main EXCEPT !.at = "idle", !.source = None]
      /\ sources' = sources \ IF h \in Watches THEN {} ELSE {main.source}
      /\ gio' = [gio EXCEPT !.disposed = gio.disposed \ {h}]
      /\ used' = [used EXCEPT !.released =
                    used.released \cup IF h \in gio.disposed \/ h \notin Watches THEN {h} ELSE {}]
      /\ program' = program /\ main.at = "called" /\ main.failure = None /\ Current = h
  BY DEF Return, Current, Alive
<1>2. /\ gio.disposed \ {h} \in SUBSET Watches /\ gio \in Lists /\ main \in Places /\ used \in Histories
      /\ h \in used.added /\ h \in Handles /\ main.source \in AllSources
      /\ used.released \cup {h} \in SUBSET Handles /\ used.released \cup {} \in SUBSET Handles
  BY <1>1 DEF Inv, TypeOK, Lists, MainExact, Histories
<1>3. gio' \in Lists /\ main' \in Places /\ used' \in Histories
  BY <1>1, <1>2 DEF Lists, Places, Histories
<1>4. /\ gio'.there = gio.there /\ gio'.id = gio.id /\ gio'.removing = gio.removing
      /\ gio'.disposed = gio.disposed \ {h}
      /\ used'.released = used.released \cup IF h \in gio.disposed \/ h \notin Watches THEN {h} ELSE {}
      /\ used'.added = used.added /\ used'.ids = used.ids
      /\ main'.at = "idle" /\ main'.failure = None /\ Current' = None
  BY ReturnDoes
<1>5. /\ h \notin Watches => h \notin gio.there \cup gio.removing /\ main.source.id = gio.id[h]
      /\ gio.disposed \subseteq {h} \ gio.there /\ h \notin used.released
      /\ h \in Watches => h \in gio.there \cup gio.disposed
  BY <1>1 DEF Inv, MainExact
<1>6. \A s \in sources' : s \in sources /\ (s.handle = h => h \in Watches)
  <2>1. \A s \in sources : s.handle = h /\ h \notin Watches => s = main.source
    <3> SUFFICES ASSUME NEW s \in sources, s.handle = h, h \notin Watches PROVE s = main.source
      OBVIOUS
    <3>1. s \in AllSources /\ s.id = main.source.id
      BY <1>2, <1>5 DEF Inv, TypeOK, SourcesMatch
    <3> QED
      BY <1>2, <3>1 DEF AllSources
  <2> QED
    BY <1>1, <2>1
<1>7. TypeOK'
  BY <1>1, <1>3, <1>6 DEF Inv, TypeOK
<1>8. IdsDiffer'
  BY <1>4 DEF Inv, IdsDiffer
<1>9. InOnePlace'
  BY <1>1, <1>2, <1>4, <1>5 DEF Inv, InOnePlace
<1>10. MainExact'
  BY <1>1, <1>4, <1>5 DEF Inv, MainExact
<1>11. ReleasedWithoutSource'
  BY <1>4, <1>6 DEF Inv, ReleasedWithoutSource
<1>12. SourcesMatch'
  <2>1. \A k \in gio.there : Source(gio.id[k], k) \in sources'
    <3>1. \A k \in gio.there : Source(gio.id[k], k) \in sources
      BY DEF Inv, SourcesMatch
    <3>2. \A n, k : Source(n, k).handle = k
      BY DEF Source
    <3> QED
      BY <1>1, <1>5, <3>1, <3>2
  <2> QED
    BY <1>4, <1>6, <2>1, StillMatches DEF Inv, SourcesMatch
<1> QED
  BY <1>7, <1>8, <1>9, <1>10, <1>11, <1>12 DEF Inv

\* Everything that is listed is released.
LEMMA FinalizeDoes ==
  ASSUME Inv, Finalize
  PROVE  /\ gio'.there = {} /\ gio'.id = gio.id /\ gio'.removing = {} /\ gio'.disposed = gio.disposed
         /\ used'.released = used.released \cup gio.there
         /\ used'.added = used.added /\ used'.ids = used.ids
         /\ main'.at = "disposed" /\ main'.failure = None /\ Current' = None /\ Current = None
BY DEF Inv, TypeOK, Finalize, Alive, Lists, Places, Histories, Current

\* What is still there is released with its sources.
LEMMA FinalizeKeeps ==
  ASSUME GtkAssumption, Inv, Finalize PROVE Inv'
<1>1. /\ main' = [main EXCEPT !.at = "disposed"]
      /\ sources' = {s \in sources : \A k \in gio.there : s.id # gio.id[k]}
      /\ used' = [used EXCEPT !.released = used.released \cup gio.there]
      /\ gio' = [gio EXCEPT !.there = {}]
      /\ program' = program /\ main.at = "idle" /\ main.failure = None /\ gio.removing = {}
  BY DEF Finalize, Alive
<1>2. /\ gio \in Lists /\ main \in Places /\ used \in Histories
      /\ used.released \cup gio.there \in SUBSET Handles /\ {} \in SUBSET Handles
  BY DEF Inv, TypeOK, Lists, Histories
<1>3. gio' \in Lists /\ main' \in Places /\ used' \in Histories
  BY <1>1, <1>2 DEF Lists, Places, Histories
<1>4. /\ gio'.there = {} /\ gio'.id = gio.id /\ gio'.removing = {} /\ gio'.disposed = gio.disposed
      /\ used'.released = used.released \cup gio.there
      /\ used'.added = used.added /\ used'.ids = used.ids
      /\ main'.at = "disposed" /\ main'.failure = None /\ Current' = None /\ Current = None
  BY FinalizeDoes
<1>5. \A s \in sources' : s \in sources /\ s.handle \notin gio.there
  BY <1>1 DEF Inv, SourcesMatch
<1>6. TypeOK'
  BY <1>1, <1>3, <1>5 DEF Inv, TypeOK
<1>7. IdsDiffer' /\ InOnePlace'
  BY <1>1, <1>4 DEF Inv, IdsDiffer, InOnePlace
<1>8. MainExact' /\ ReleasedWithoutSource'
  BY <1>4, <1>5 DEF Inv, MainExact, ReleasedWithoutSource
<1>9. SourcesMatch'
  BY <1>4, <1>5, StillMatches DEF Inv, SourcesMatch
<1> QED
  BY <1>6, <1>7, <1>8, <1>9 DEF Inv

------------------------------------------------------------------------------
(* What holds always *)

\* Every step preserves the inductive invariant.
LEMMA StepKeeps == ASSUME GtkAssumption, Inv, [Next]_gioVars PROVE Inv'
<1>1. CASE \E h \in Handles : Add(h) \/ UpdateWatch(h)
  BY <1>1, AddKeeps, UpdateWatchKeeps
<1>2. CASE \E h \in Handles : RemoveAtOnce(h) \/ BeginRemove(h) \/ EndRemove(h)
  BY <1>2, RemoveAtOnceKeeps, BeginRemoveKeeps, EndRemoveKeeps
<1>3. CASE Choose \/ Dropped \/ Misled \/ Call \/ Return \/ Finalize
  BY <1>3, ChooseKeeps, MisledKeeps, CallKeeps, ReturnKeeps, FinalizeKeeps
<1>4. CASE BecomesReady \/ Elapse \/ UNCHANGED gioVars
  <2>1. /\ gio' = gio /\ used' = used /\ sources' = sources /\ program' = program /\ main' = main
    BY <1>4 DEF BecomesReady, Elapse, gioVars
  <2> QED
    BY <2>1 DEF Inv, TypeOK, IdsDiffer, InOnePlace, MainExact, ReleasedWithoutSource, SourcesMatch, Current
<1> QED
  BY <1>1, <1>2, <1>3, <1>4 DEF Next

\* It holds at the start.
LEMMA StartsSo == ASSUME GtkAssumption, Init PROVE Inv
<1>1. TypeOK
  <2>1. /\ program.uses \subseteq Handles /\ sources = {} /\ None \notin Handles
    BY DEF Init, GtkAssumption
  <2>2. gio \in Lists
    BY DEF Init, Lists
  <2>3. main \in Places /\ used \in Histories
    BY DEF Init, Places, Histories
  <2> QED
    BY <2>1, <2>2, <2>3 DEF TypeOK
<1>2. IdsDiffer /\ InOnePlace /\ MainExact /\ ReleasedWithoutSource
  BY DEF Init, IdsDiffer, InOnePlace, MainExact, ReleasedWithoutSource, Current
<1>3. SourcesMatch
  BY DEF Init, SourcesMatch, GtkAssumption
<1> QED
  BY <1>1, <1>2, <1>3 DEF Inv

\* The inductive invariant holds, whatever is added, changed and removed, by callbacks
\* of inf-gtk-io.c and by other threads.
THEOREM Invariance == ASSUME GtkAssumption PROVE Spec => []Inv
<1>1. Init => Inv
  BY StartsSo
<1>2. Inv /\ [Next]_gioVars => Inv'
  BY StepKeeps
<1> QED
  BY <1>1, <1>2, PTL DEF Spec

\* Each handle that is there has its source with GLib and no stale one; whatever is
\* called after its removal is a freed watch, or is being removed by another thread
\* (inf_gtk_io_watch_func, inf_gtk_io_timeout_func, inf_gtk_io_dispatch_func).
THEOREM SourcesMatchAlways == ASSUME GtkAssumption PROVE Spec => []SourcesMatch
<1>1. Inv => SourcesMatch
  BY DEF Inv
<1> QED
  BY <1>1, Invariance, PTL

------------------------------------------------------------------------------
(* Refinement of InfIo *)

\* What a handle looks like from outside.
Looks ==
  \A h \in Handles :
    /\ h \notin used.added => HandleState(h) = "new"
    /\ h \in used.released => HandleState(h) = "gone"
    /\ h \in gio.removing /\ Current # h => HandleState(h) = "gone"
    /\ h \in gio.there /\ Current # h => HandleState(h) = "there"
    /\ Current = h /\ h \notin gio.disposed => HandleState(h) = "called"
    /\ Current = h /\ h \in gio.disposed => HandleState(h) = "leaving"

\* The invariant tells how each handle looks.
LEMMA LooksSo == ASSUME GtkAssumption PROVE Inv => Looks
<1> SUFFICES ASSUME Inv, NEW h \in Handles PROVE Looks!(h)
  BY DEF Looks
<1>1. h \in used.released \cup gio.removing \cup gio.there => h \in used.added
  BY DEF Inv, InOnePlace
<1>2. h \in gio.there => h \notin used.released \cup gio.removing \cup gio.disposed
  BY DEF Inv, InOnePlace, MainExact
<1>3. Current = h => h \in used.added /\ h \notin used.released
  BY DEF Inv, MainExact, Current, GtkAssumption
<1> QED
  BY <1>1, <1>2, <1>3 DEF HandleState

\* So it does after a step.
LEMMA LooksSoAfter == ASSUME GtkAssumption PROVE Inv' => Looks'
BY LooksSo, PTL

\* One handle looks different, and all others as before.
LEMMA GoesTo ==
  ASSUME NEW h \in Handles, NEW from, NEW to, HandleState(h) = from, HandleState(h)' = to,
         \A k \in Handles \ {h} : HandleState(k)' = HandleState(k)
  PROVE  Abstract!Goes(h, from, to)
BY DEF Abstract!Goes

\* A handle that nothing happens to.
LEMMA Untouched ==
  ASSUME NEW k \in Handles,
         k \in used'.added <=> k \in used.added, k \in used'.released <=> k \in used.released,
         k \in gio'.removing <=> k \in gio.removing, k \in gio'.disposed <=> k \in gio.disposed,
         k \in gio'.there <=> k \in gio.there, (Current = k)' <=> Current = k
  PROVE  HandleState(k)' = HandleState(k)
BY DEF HandleState

\* Adding is what InfIo calls so.
LEMMA AddRefines ==
  ASSUME GtkAssumption, Inv, NEW h \in Handles, Add(h) PROVE Abstract!Add(h)
<1>1. \A k \in Handles \ {h} : HandleState(k)' = HandleState(k)
  BY AddDoes, Untouched
<1>2. HandleState(h) = "new"
  BY LooksSo DEF Add, Looks
<1>3. HandleState(h)' = "there"
  <2>1. h \in gio'.there /\ Current' # h
    BY AddDoes DEF Add, Inv, MainExact, Current, GtkAssumption
  <2> QED
    BY <2>1, AddKeeps, LooksSoAfter DEF Looks
<1> QED
  BY <1>1, <1>2, <1>3, GoesTo DEF Abstract!Add

\* A change of a watch is not seen.
LEMMA UpdateWatchRefines ==
  ASSUME GtkAssumption, Inv, NEW h \in Handles, UpdateWatch(h)
  PROVE  \A k \in Handles : HandleState(k)' = HandleState(k)
BY UpdateWatchDoes, Untouched

\* So is removing, of what is called and of what is not.
LEMMA RemoveAtOnceRefines ==
  ASSUME GtkAssumption, Inv, NEW h \in Handles, RemoveAtOnce(h) PROVE Abstract!Remove(h)
<1>1. \A k \in Handles \ {h} : HandleState(k)' = HandleState(k)
  BY RemoveAtOnceDoes, Untouched
<1>2. h \in gio.there /\ h \notin gio.disposed
  BY DEF RemoveAtOnce, Inv, MainExact
<1>3. Inv' /\ Looks /\ Looks'
  BY RemoveAtOnceKeeps, LooksSo, LooksSoAfter
<1>4. CASE Executing(h)
  <2>1. HandleState(h) = "called" /\ HandleState(h)' = "leaving" /\ h \in Watches
    BY <1>2, <1>3, <1>4, RemoveAtOnceDoes DEF Looks, Executing
  <2> QED
    BY <1>1, <2>1, GoesTo DEF Abstract!Remove
<1>5. CASE ~Executing(h)
  <2>1. Current # h
    BY <1>2, <1>5 DEF Executing, Inv, MainExact, Current, GtkAssumption
  <2>2. HandleState(h) = "there" /\ HandleState(h)' = "gone"
    BY <1>2, <1>3, <1>5, <2>1, RemoveAtOnceDoes DEF Looks
  <2> QED
    BY <1>1, <2>2, GoesTo DEF Abstract!Remove
<1> QED
  BY <1>4, <1>5

\* It is removed when the list does not have it any more.
LEMMA BeginRemoveRefines ==
  ASSUME GtkAssumption, Inv, NEW h \in Handles, BeginRemove(h) PROVE Abstract!Remove(h)
<1>1. \A k \in Handles \ {h} : HandleState(k)' = HandleState(k)
  BY BeginRemoveDoes, Untouched
<1>2. h \in gio.there /\ h \notin gio.disposed
  BY DEF BeginRemove, Inv, MainExact
<1>3. Inv' /\ Looks /\ Looks'
  BY BeginRemoveKeeps, LooksSo, LooksSoAfter
<1>4. CASE Executing(h)
  <2>1. HandleState(h) = "called" /\ HandleState(h)' = "leaving" /\ h \in Watches
    BY <1>2, <1>3, <1>4, BeginRemoveDoes DEF Looks, Executing
  <2> QED
    BY <1>1, <2>1, GoesTo DEF Abstract!Remove
<1>5. CASE ~Executing(h)
  <2>1. Current # h
    BY <1>2, <1>5 DEF Executing, Inv, MainExact, Current, GtkAssumption
  <2>2. HandleState(h) = "there" /\ HandleState(h)' = "gone"
    BY <1>2, <1>3, <2>1, BeginRemoveDoes DEF Looks
  <2> QED
    BY <1>1, <2>2, GoesTo DEF Abstract!Remove
<1> QED
  BY <1>4, <1>5

\* It has gone already, or is leaving.
LEMMA EndRemoveRefines ==
  ASSUME GtkAssumption, Inv, NEW h \in Handles, EndRemove(h)
  PROVE  \A k \in Handles : HandleState(k)' = HandleState(k)
<1>1. \A k \in Handles \ {h} : HandleState(k)' = HandleState(k)
  BY EndRemoveDoes, Untouched
<1>2. h \in gio.removing
  BY DEF EndRemove
<1>3. CASE h \in Watches
  BY <1>1, <1>2, <1>3, EndRemoveDoes DEF HandleState, Inv, InOnePlace, MainExact
<1>4. CASE h \notin Watches
  <2>1. Current # h /\ h \in used'.released
    BY <1>2, <1>4, EndRemoveDoes DEF Inv, MainExact, Current, GtkAssumption
  <2>2. HandleState(h) = "gone" /\ HandleState(h)' = "gone"
    BY <1>2, <2>1, EndRemoveKeeps, LooksSo, LooksSoAfter DEF Looks
  <2> QED
    BY <1>1, <2>2
<1> QED
  BY <1>3, <1>4

\* Nothing else is called.
LEMMA NobodyCalled ==
  ASSUME GtkAssumption, Inv, main.at # "called"
  PROVE  \A k \in Handles : HandleState(k) \notin {"called", "leaving"}
<1>1. \A k \in Handles : Current # k
  BY DEF Current, GtkAssumption
<1> QED
  BY <1>1 DEF HandleState

\* Only what is there is called, and while nothing else is.
LEMMA CallRefines ==
  ASSUME GtkAssumption, Inv, NEW h \in Handles, h = main.source.handle, Call
  PROVE  Abstract!Call(h)
<1>1. /\ h \in gio.there /\ main.at = "chosen" /\ h \notin gio.disposed
  BY DEF Call, Inv, TypeOK, Lists, MainExact
<1>2. Current = None /\ \A k \in Handles : k # None
  BY <1>1 DEF Current, GtkAssumption
<1>3. \A k \in Handles \ {h} : HandleState(k)' = HandleState(k)
  BY <1>2, CallDoes, Untouched DEF Call
<1>4. HandleState(h) = "there" /\ HandleState(h)' = "called"
  BY <1>1, <1>2, CallKeeps, CallDoes, LooksSo, LooksSoAfter DEF Looks
<1>5. Abstract!Goes(h, "there", "called")
  BY <1>3, <1>4, GoesTo
<1>6. \A k \in Handles : HandleState(k) \notin {"called", "leaving"}
  BY <1>1, NobodyCalled
<1> QED
  BY <1>5, <1>6 DEF Abstract!Call, Abstract!Handles, Handles

\* A watch is there again, unless it was removed; anything else is gone.
LEMMA ReturnRefines ==
  ASSUME GtkAssumption, Inv, NEW h \in Handles, h = main.source.handle, Return
  PROVE  Abstract!Return(h)
<1>1. Current = h /\ None \notin Handles
  BY DEF Return, Current, GtkAssumption
<1>2. \A k \in Handles \ {h} : HandleState(k)' = HandleState(k)
  BY <1>1, ReturnDoes, Untouched
<1>3. Inv' /\ Looks /\ Looks'
  BY ReturnKeeps, LooksSo, LooksSoAfter
<1>4. CASE h \in gio.disposed
  <2>1. HandleState(h) = "leaving" /\ HandleState(h)' = "gone"
    BY <1>1, <1>3, <1>4, ReturnDoes DEF Looks, Return
  <2> QED
    BY <1>1, <1>2, <2>1, GoesTo DEF Abstract!Return
<1>5. CASE h \notin gio.disposed /\ h \in Watches
  <2>1. h \in gio.there
    BY <1>1, <1>5 DEF Inv, MainExact, Return
  <2>2. HandleState(h) = "called" /\ HandleState(h)' = "there"
    BY <1>1, <1>3, <1>5, <2>1, ReturnDoes DEF Looks, Return
  <2> QED
    BY <1>1, <1>2, <1>5, <2>2, GoesTo DEF Abstract!Return
<1>6. CASE h \notin gio.disposed /\ h \notin Watches
  <2>1. HandleState(h) = "called" /\ HandleState(h)' = "gone"
    BY <1>1, <1>3, <1>6, ReturnDoes DEF Looks, Return
  <2> QED
    BY <1>1, <1>2, <1>6, <2>1, GoesTo DEF Abstract!Return
<1> QED
  BY <1>4, <1>5, <1>6

\* Everything that is still there goes with the loop.
LEMMA FinalizeRefines ==
  ASSUME GtkAssumption, Inv, Finalize PROVE Abstract!Finalize
<1>1. main.at = "idle" /\ gio.removing = {} /\ Current = None /\ \A k \in Handles : k # None
  BY DEF Finalize, Current, GtkAssumption
<1>2. \A k \in Handles : HandleState(k)' = IF HandleState(k) = "there" THEN "gone" ELSE HandleState(k)
  <2> SUFFICES ASSUME NEW k \in Handles
               PROVE  HandleState(k)' = IF HandleState(k) = "there" THEN "gone" ELSE HandleState(k)
    OBVIOUS
  <2>1. CASE k \in gio.there
    BY <1>1, <2>1, FinalizeKeeps, FinalizeDoes, LooksSo, LooksSoAfter DEF Looks
  <2>2. CASE k \notin gio.there
    <3>1. HandleState(k)' = HandleState(k)
      BY <1>1, <2>2, FinalizeDoes, Untouched
    <3>2. HandleState(k) # "there"
      BY <2>2 DEF HandleState
    <3> QED
      BY <3>1, <3>2
  <2> QED
    BY <2>1, <2>2
<1>3. \A k \in Handles : HandleState(k) \notin {"called", "leaving"}
  BY <1>1, NobodyCalled
<1> QED
  BY <1>2, <1>3 DEF Abstract!Finalize, Abstract!Handles, Handles

\* Choosing a source is not seen, nor is what arrives.
LEMMA OtherStepsRefine ==
  ASSUME GtkAssumption, Inv, Choose \/ Dropped \/ Misled \/ BecomesReady \/ Elapse \/ UNCHANGED gioVars
  PROVE  \A k \in Handles : HandleState(k)' = HandleState(k)
<1>1. gio' = gio /\ used' = used
  BY DEF Choose, Dropped, Misled, Fails, BecomesReady, Elapse, gioVars
<1>2. Current' = Current
  BY DEF Choose, Dropped, Misled, Fails, BecomesReady, Elapse, gioVars, Current, Inv, TypeOK, Places
<1> QED
  BY <1>1, <1>2, Untouched

\* InfGtkIo does what InfIo promises: callbacks run one at a time, none after its removal
\* has returned, and data is released once, when no callback uses it (inf-gtk-io.c).
THEOREM Implements == ASSUME GtkAssumption PROVE Spec => ImplementsInfIo
<1> DEFINE Mapped == [h \in Handles |-> HandleState(h)]
<1>1. Init => Abstract!Init
  <2>1. Init => \A h \in Handles : HandleState(h) = "new"
    BY DEF Init, HandleState
  <2> QED
    BY <2>1 DEF Abstract!Init, Abstract!Handles, Handles
<1>2. Inv /\ [Next]_gioVars => [Abstract!Next]_Mapped
  <2> SUFFICES ASSUME Inv, [Next]_gioVars PROVE Abstract!Next \/ Mapped' = Mapped
    OBVIOUS
  <2>1. (\A k \in Handles : HandleState(k)' = HandleState(k)) => Mapped' = Mapped
    OBVIOUS
  <2>2. CASE \E h \in Handles : Add(h) \/ RemoveAtOnce(h) \/ BeginRemove(h)
    BY <2>2, AddRefines, RemoveAtOnceRefines, BeginRemoveRefines DEF Abstract!Next, Abstract!Handles, Handles
  <2>3. CASE \E h \in Handles : UpdateWatch(h) \/ EndRemove(h)
    BY <2>1, <2>3, UpdateWatchRefines, EndRemoveRefines
  <2>4. CASE Call \/ Return \/ Finalize
    <3>1. Call \/ Return => main.source.handle \in Handles
      BY DEF Call, Return, Inv, TypeOK, Places, MainExact, AllSources
    <3> QED
      BY <2>4, <3>1, CallRefines, ReturnRefines, FinalizeRefines DEF Abstract!Next, Abstract!Handles, Handles
  <2>5. CASE Choose \/ Dropped \/ Misled \/ BecomesReady \/ Elapse \/ UNCHANGED gioVars
    BY <2>1, <2>5, OtherStepsRefine
  <2> QED
    BY <2>2, <2>3, <2>4, <2>5 DEF Next
<1> QED
  BY <1>1, <1>2, Invariance, PTL DEF Spec, ImplementsInfIo, Abstract!Spec
================================================================================
