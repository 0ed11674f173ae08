-------------------------- MODULE StandaloneIoProofs --------------------------
(***************************************************************************)
(* For any handles and programs: InfStandaloneIo does what InfIo promises, *)
(* and the loop never sleeps while there is something that it does not     *)
(* know of.                                                                *)
(***************************************************************************)
EXTENDS StandaloneIo, WellFoundedInduction, TLAPS

(* The inductive invariant *)

Events == [watch : Watches, flags : SUBSET Flags, revents : SUBSET Flags]
Ios == [events : Seq(Events), place : Nat, alloc : Nat, timeouts : Seq(Timeouts),
        dispatchs : Seq(Dispatches), polling : BOOLEAN, pipe : Nat, running : BOOLEAN,
        disposed : SUBSET Watches]
Loops == [at : {"start", "top", "polling", "back", "called", "disposed"}, polled : Seq(Events),
          place : Nat, wait : {None} \cup SUBSET Timeouts,
          result : {None, "at once", "later", "events", "timeout"}, woken : BOOLEAN,
          current : Handles \cup {None}, events : SUBSET Flags, failure : {None, "freed array"}]
Histories == [added : SUBSET Handles, released : SUBSET Handles, updates : Nat, interrupts : Nat]

TypeOK ==
  /\ program.flags \subseteq SUBSET Flags
  /\ io \in Ios /\ loop \in Loops /\ used \in Histories

Distinct(list) == \A i, j \in DOMAIN list : list[i] = list[j] => i = j
WatchesOf(events) == {events[i].watch : i \in DOMAIN events}
WatchedOnce(events) == \A i, j \in DOMAIN events : events[i].watch = events[j].watch => i = j

\* Nothing is listed twice.
ListedOnce == WatchedOnce(io.events) /\ Distinct(io.timeouts) /\ Distinct(io.dispatchs)

\* What is listed or called is there and not released.
InOnePlace ==
  /\ Listed \subseteq used.added \ used.released
  /\ used.released \subseteq used.added
  /\ io.disposed \subseteq {loop.current} \ Listed
  /\ loop.current # None => /\ loop.current \in used.added \ used.released
                            /\ loop.current \in Listed <=> loop.current \in Watches \ io.disposed

\* While it polls it says so, and something is called only when it has returned.
LoopExact ==
  /\ io.polling <=> loop.at \in {"polling", "back"}
  /\ loop.current # None <=> loop.at = "called"
  /\ loop.at = "back" /\ loop.woken => io.pipe > 0

Inv == TypeOK /\ ListedOnce /\ InOnePlace /\ LoopExact /\ NoLostWakeup

------------------------------------------------------------------------------
(* Lists and the array *)

\* A list and what comes after it.
LEMMA ConcatIs ==
  ASSUME NEW S, NEW a \in Seq(S), NEW b \in Seq(S)
  PROVE  /\ a \o b \in Seq(S) /\ Len(a \o b) = Len(a) + Len(b)
         /\ \A k \in 1 .. Len(a) + Len(b) : (a \o b)[k] = IF k <= Len(a) THEN a[k] ELSE b[k - Len(a)]
OBVIOUS

\* A list without one of its elements.
LEMMA RemoveAtIs ==
  ASSUME NEW S, NEW s \in Seq(S), NEW i \in DOMAIN s
  PROVE  /\ RemoveAt(s, i) \in Seq(S) /\ Len(RemoveAt(s, i)) = Len(s) - 1
         /\ \A k \in 1 .. Len(s) - 1 : RemoveAt(s, i)[k] = IF k < i THEN s[k] ELSE s[k + 1]
<1> DEFINE a == SubSeq(s, 1, i - 1)
           b == SubSeq(s, i + 1, Len(s))
<1>1. i \in 1 .. Len(s) /\ Len(s) \in Nat
  OBVIOUS
<1>2. a \in Seq(S) /\ Len(a) = i - 1
  BY <1>1
<1>3. b \in Seq(S) /\ Len(b) = Len(s) - i
  BY <1>1
<1>4. \A k \in 1 .. i - 1 : a[k] = s[k]
  BY <1>1
<1>5. \A k \in 1 .. Len(s) - i : b[k] = s[i + k]
  BY <1>1
<1>6. RemoveAt(s, i) = a \o b
  BY DEF RemoveAt
<1> HIDE DEF a, b
<1>7. /\ a \o b \in Seq(S) /\ Len(a \o b) = Len(a) + Len(b)
      /\ \A k \in 1 .. Len(a) + Len(b) : (a \o b)[k] = IF k <= Len(a) THEN a[k] ELSE b[k - Len(a)]
  BY <1>2, <1>3, ConcatIs
<1> DEFINE t == a \o b
<1> HIDE DEF t
<1>8. \A k \in 1 .. Len(s) - 1 : t[k] = IF k < i THEN a[k] ELSE b[k - i + 1]
  <2>1. Len(a) + Len(b) = Len(s) - 1
    BY <1>1, <1>2, <1>3
  <2>2. \A k \in 1 .. Len(s) - 1 : t[k] = IF k <= Len(a) THEN a[k] ELSE b[k - Len(a)]
    BY <1>7, <2>1 DEF t
  <2>3. \A k \in 1 .. Len(s) - 1 : (k <= Len(a) <=> k < i) /\ k - Len(a) = k - i + 1
    BY <1>1, <1>2
  <2> QED
    BY <2>2, <2>3
<1>9. \A k \in 1 .. Len(s) - 1 : t[k] = IF k < i THEN s[k] ELSE s[k + 1]
  <2> SUFFICES ASSUME NEW k \in 1 .. Len(s) - 1 PROVE t[k] = IF k < i THEN s[k] ELSE s[k + 1]
    OBVIOUS
  <2>1. CASE k < i
    BY <1>1, <1>4, <1>8, <2>1
  <2>2. CASE ~(k < i)
    <3>1. k - i + 1 \in 1 .. Len(s) - i /\ i + (k - i + 1) = k + 1
      BY <1>1, <2>2
    <3> QED
      BY <1>5, <1>8, <2>2, <3>1
  <2> QED
    BY <2>1, <2>2
<1>10. RemoveAt(s, i) = t /\ t \in Seq(S) /\ Len(t) = Len(s) - 1
  BY <1>1, <1>2, <1>3, <1>6, <1>7 DEF t
<1> QED
  BY <1>9, <1>10

\* What is taken out of a list is not in it any more, and everything else is.
LEMMA ListWithout ==
  ASSUME NEW S, NEW s \in Seq(S), Distinct(s), NEW i \in DOMAIN s
  PROVE  /\ RemoveAt(s, i) \in Seq(S) /\ Distinct(RemoveAt(s, i))
         /\ ToSet(RemoveAt(s, i)) = ToSet(s) \ {s[i]}
<1> DEFINE t == RemoveAt(s, i)
<1>1. /\ t \in Seq(S) /\ Len(t) = Len(s) - 1 /\ i \in 1 .. Len(s) /\ Len(s) \in Nat
      /\ \A k \in 1 .. Len(s) - 1 : t[k] = IF k < i THEN s[k] ELSE s[k + 1]
  BY RemoveAtIs
<1> HIDE DEF t
<1>2. Distinct(t)
  <2> DEFINE from(k) == IF k < i THEN k ELSE k + 1
  <2>1. \A k \in DOMAIN t : from(k) \in DOMAIN s /\ t[k] = s[from(k)]
    BY <1>1
  <2>2. \A j, k \in DOMAIN t : from(j) = from(k) => j = k
    BY <1>1
  <2> HIDE DEF from
  <2> QED
    BY <2>1, <2>2 DEF Distinct
<1>3. \A k \in DOMAIN t : t[k] \in ToSet(s) \ {s[i]}
  BY <1>1 DEF ToSet, Distinct
<1>4. \A k \in DOMAIN s : k # i => s[k] \in ToSet(t)
  <2> SUFFICES ASSUME NEW k \in DOMAIN s, k # i PROVE s[k] \in ToSet(t)
    OBVIOUS
  <2>1. CASE k < i
    <3>1. k \in DOMAIN t /\ t[k] = s[k]
      BY <1>1, <2>1
    <3> QED
      BY <3>1 DEF ToSet
  <2>2. CASE k > i
    <3>1. k - 1 \in DOMAIN t /\ t[k - 1] = s[k]
      BY <1>1, <2>2
    <3> QED
      BY <3>1 DEF ToSet
  <2> QED
    BY <1>1, <2>1, <2>2
<1>5. ToSet(t) = ToSet(s) \ {s[i]}
  BY <1>3, <1>4 DEF ToSet
<1> QED
  BY <1>1, <1>2, <1>5 DEF t

\* A list with a new element in front.
LEMMA ListWith ==
  ASSUME NEW S, NEW s \in Seq(S), Distinct(s), NEW x \in S, x \notin ToSet(s)
  PROVE  /\ <<x>> \o s \in Seq(S) /\ Distinct(<<x>> \o s)
         /\ ToSet(<<x>> \o s) = ToSet(s) \cup {x}
<1> DEFINE t == <<x>> \o s
<1>1. /\ t \in Seq(S) /\ Len(t) = Len(s) + 1 /\ Len(s) \in Nat
      /\ \A k \in 1 .. Len(t) : t[k] = IF k = 1 THEN x ELSE s[k - 1]
  OBVIOUS
<1> HIDE DEF t
<1>2. \A k \in DOMAIN s : k + 1 \in DOMAIN t /\ t[k + 1] = s[k]
  BY <1>1
<1>3. Distinct(t)
  BY <1>1 DEF Distinct, ToSet
<1>4. ToSet(t) \subseteq ToSet(s) \cup {x}
  BY <1>1 DEF ToSet
<1>5. x \in ToSet(t)
  BY <1>1 DEF ToSet
<1>6. ToSet(s) \subseteq ToSet(t)
  BY <1>2 DEF ToSet
<1> QED
  BY <1>1, <1>3, <1>4, <1>5, <1>6 DEF t

\* A list without its first element.
LEMMA ListTail ==
  ASSUME NEW S, NEW s \in Seq(S), Distinct(s), s # <<>>
  PROVE  /\ Tail(s) \in Seq(S) /\ Distinct(Tail(s)) /\ ToSet(Tail(s)) = ToSet(s) \ {s[1]}
         /\ s[1] \in ToSet(s)
<1> DEFINE t == Tail(s)
<1>1. /\ t \in Seq(S) /\ Len(t) = Len(s) - 1 /\ Len(s) \in Nat /\ 1 \in DOMAIN s
      /\ \A k \in 1 .. Len(t) : t[k] = s[k + 1]
  OBVIOUS
<1> HIDE DEF t
<1>2. \A k \in DOMAIN s : k # 1 => k - 1 \in DOMAIN t /\ t[k - 1] = s[k]
  BY <1>1
<1>3. Distinct(t)
  BY <1>1 DEF Distinct
<1>4. ToSet(t) \subseteq ToSet(s) \ {s[1]}
  BY <1>1 DEF ToSet, Distinct
<1>5. ToSet(s) \ {s[1]} \subseteq ToSet(t)
  BY <1>2 DEF ToSet
<1>6. s[1] \in ToSet(s)
  BY <1>1 DEF ToSet
<1> QED
  BY <1>1, <1>3, <1>4, <1>5, <1>6 DEF t

\* An array with a new watch at its end.
LEMMA ArrayWith ==
  ASSUME NEW s \in Seq(Events), WatchedOnce(s), NEW e \in Events, e.watch \notin WatchesOf(s)
  PROVE  /\ Append(s, e) \in Seq(Events) /\ WatchedOnce(Append(s, e))
         /\ WatchesOf(Append(s, e)) = WatchesOf(s) \cup {e.watch}
<1> DEFINE t == Append(s, e)
<1>1. /\ t \in Seq(Events) /\ Len(t) = Len(s) + 1 /\ Len(s) \in Nat
      /\ \A k \in 1 .. Len(t) : t[k] = IF k = Len(t) THEN e ELSE s[k]
  OBVIOUS
<1> HIDE DEF t
<1>2. WatchedOnce(t)
  BY <1>1 DEF WatchedOnce, WatchesOf
<1>3. WatchesOf(t) \subseteq WatchesOf(s) \cup {e.watch}
  BY <1>1 DEF WatchesOf
<1>4. WatchesOf(s) \subseteq WatchesOf(t)
  BY <1>1 DEF WatchesOf
<1>5. e.watch \in WatchesOf(t)
  BY <1>1 DEF WatchesOf
<1> QED
  BY <1>1, <1>2, <1>3, <1>4, <1>5 DEF t

\* The last one takes the place of the one that is removed.
LEMMA ArrayWithout ==
  ASSUME NEW s \in Seq(Events), WatchedOnce(s), NEW i \in DOMAIN s
  PROVE  /\ Without(s, i) \in Seq(Events) /\ WatchedOnce(Without(s, i))
         /\ WatchesOf(Without(s, i)) = WatchesOf(s) \ {s[i].watch}
<1> DEFINE t == Without(s, i)
           n == Len(s)
<1>1. n \in Nat \ {0} /\ i \in 1 .. n
  OBVIOUS
<1>2. /\ t \in Seq(Events) /\ Len(t) = n - 1
      /\ \A k \in 1 .. n - 1 : t[k] = IF k = i THEN s[n] ELSE s[k]
  <2>1. CASE i = n
    BY <1>1, <2>1 DEF Without, Front
  <2>2. CASE i # n
    <3>1. [s EXCEPT ![i] = s[n]] \in Seq(Events) /\ Len([s EXCEPT ![i] = s[n]]) = n
      BY <1>1
    <3> QED
      BY <1>1, <2>2, <3>1 DEF Without, Front
  <2> QED
    BY <2>1, <2>2
<1> HIDE DEF t
<1>3. WatchedOnce(t)
  BY <1>1, <1>2 DEF WatchedOnce
<1>4. WatchesOf(t) \subseteq WatchesOf(s) \ {s[i].watch}
  BY <1>1, <1>2 DEF WatchedOnce, WatchesOf
<1>5. \A k \in DOMAIN s : k # i => s[k].watch \in WatchesOf(t)
  <2> SUFFICES ASSUME NEW k \in DOMAIN s, k # i PROVE s[k].watch \in WatchesOf(t)
    OBVIOUS
  <2>1. CASE k = n
    <3>1. i \in DOMAIN t /\ t[i] = s[k]
      BY <1>1, <1>2, <2>1
    <3> QED
      BY <3>1 DEF WatchesOf
  <2>2. CASE k # n
    <3>1. k \in DOMAIN t /\ t[k] = s[k]
      BY <1>1, <1>2, <2>2
    <3> QED
      BY <3>1 DEF WatchesOf
  <2> QED
    BY <2>1, <2>2
<1>6. WatchesOf(s) \ {s[i].watch} \subseteq WatchesOf(t)
  BY <1>5 DEF WatchesOf
<1> QED
  BY <1>2, <1>3, <1>4, <1>6 DEF t

\* A watch changes, or something happened to it.
LEMMA ArrayOfSame ==
  ASSUME NEW s \in Seq(Events), NEW t \in Seq(Events), Len(t) = Len(s),
         \A k \in 1 .. Len(s) : t[k].watch = s[k].watch
  PROVE  WatchesOf(t) = WatchesOf(s) /\ (WatchedOnce(s) => WatchedOnce(t))
<1>1. DOMAIN t = 1 .. Len(s) /\ DOMAIN s = 1 .. Len(s)
  OBVIOUS
<1> QED
  BY <1>1 DEF WatchesOf, WatchedOnce

------------------------------------------------------------------------------
(* What calls of callbacks and of other threads have in common *)

\* The three lists have the three kinds of handles, and together they are what is listed.
LEMMA KindsDiffer ==
  ASSUME TypeOK
  PROVE  /\ WatchesOf(io.events) \subseteq Watches /\ ToSet(io.timeouts) \subseteq Timeouts
         /\ ToSet(io.dispatchs) \subseteq Dispatches
         /\ \A i \in DOMAIN io.events : io.events[i].watch \in WatchesOf(io.events)
         /\ \A i \in DOMAIN io.timeouts : io.timeouts[i] \in ToSet(io.timeouts)
         /\ \A i \in DOMAIN io.dispatchs : io.dispatchs[i] \in ToSet(io.dispatchs)
         /\ Listed = WatchesOf(io.events) \cup ToSet(io.timeouts) \cup ToSet(io.dispatchs)
<1>1. io.events \in Seq(Events) /\ io.timeouts \in Seq(Timeouts) /\ io.dispatchs \in Seq(Dispatches)
  BY DEF TypeOK, Ios
<1>2. \A i \in DOMAIN io.events : io.events[i].watch \in Watches
  <2> SUFFICES ASSUME NEW i \in DOMAIN io.events PROVE io.events[i].watch \in Watches
    OBVIOUS
  <2>1. io.events[i] \in Events
    BY <1>1
  <2> QED
    BY <2>1 DEF Events
<1>3. WatchesOf(io.events) \subseteq Watches
  BY <1>2 DEF WatchesOf
<1>4. ToSet(io.timeouts) \subseteq Timeouts /\ ToSet(io.dispatchs) \subseteq Dispatches
  BY <1>1 DEF ToSet
<1>5. /\ \A i \in DOMAIN io.events : io.events[i].watch \in WatchesOf(io.events)
      /\ \A i \in DOMAIN io.timeouts : io.timeouts[i] \in ToSet(io.timeouts)
      /\ \A i \in DOMAIN io.dispatchs : io.dispatchs[i] \in ToSet(io.dispatchs)
  BY DEF WatchesOf, ToSet
<1>6. Listed = WatchesOf(io.events) \cup ToSet(io.timeouts) \cup ToSet(io.dispatchs)
  BY DEF Listed, Watched, WatchesOf
<1> QED
  BY <1>3, <1>4, <1>5, <1>6

\* The loop is woken up when it polls; otherwise it looks at everything before it does.
LEMMA WokenKeeps ==
  ASSUME StandaloneAssumption, Inv, NEW x \in Ios, x.polling = io.polling, x.pipe = io.pipe,
         io' = Woken(x), loop' = loop, program' = program, used' \in Histories
  PROVE  /\ TypeOK' /\ LoopExact' /\ NoLostWakeup'
         /\ io'.events = x.events /\ io'.timeouts = x.timeouts /\ io'.dispatchs = x.dispatchs
         /\ io'.disposed = x.disposed
<1>1. io' \in Ios
  <2>1. x.pipe + 1 \in Nat
    BY DEF Ios
  <2> QED
    BY <2>1 DEF Woken, Ios
<1>2. /\ io'.events = x.events /\ io'.timeouts = x.timeouts /\ io'.dispatchs = x.dispatchs
      /\ io'.disposed = x.disposed /\ io'.polling = x.polling
      /\ io'.pipe = IF x.polling THEN x.pipe + 1 ELSE x.pipe
  BY DEF Woken, Ios
<1>3. x.pipe \in Nat /\ io.pipe \in Nat /\ io.polling \in BOOLEAN
  BY DEF Inv, TypeOK, Ios
<1>4. TypeOK'
  BY <1>1 DEF Inv, TypeOK
<1>5. LoopExact'
  BY <1>2, <1>3 DEF Inv, LoopExact
<1>6. NoLostWakeup'
  <2>1. loop.at = "polling" => io'.pipe > 0
    BY <1>2, <1>3 DEF Inv, LoopExact
  <2> QED
    BY <2>1 DEF NoLostWakeup
<1> QED
  BY <1>2, <1>4, <1>5, <1>6

\* What is new may be listed.
LEMMA AddedInPlace ==
  ASSUME StandaloneAssumption, Inv, NEW h \in Handles, h \notin used.added, Listed' = Listed \cup {h},
         used'.added = used.added \cup {h}, used'.released = used.released,
         io'.disposed = io.disposed, loop'.current = loop.current
  PROVE  InOnePlace'
<1>1. h # loop.current /\ h \notin io.disposed
  BY DEF Inv, InOnePlace, StandaloneAssumption
<1> QED
  BY <1>1 DEF Inv, InOnePlace

\* What is not being called is released at once.
LEMMA RemovedInPlace ==
  ASSUME Inv, NEW h \in Listed, h # loop.current, Listed' = Listed \ {h},
         used'.added = used.added, used'.released = used.released \cup {h},
         io'.disposed = io.disposed, loop'.current = loop.current
  PROVE  InOnePlace'
BY DEF Inv, InOnePlace

\* Of what is being called, only a watch is still listed.
LEMMA OnlyWatchesListedAndCalled ==
  ASSUME StandaloneAssumption, Inv
  PROVE  /\ loop.current \notin ToSet(io.timeouts) \cup ToSet(io.dispatchs)
         /\ None \notin Listed
<1>1. TypeOK
  BY DEF Inv
<1>2. Listed \subseteq Handles
  BY <1>1, KindsDiffer DEF Handles
<1>3. None \notin Listed
  BY <1>2 DEF StandaloneAssumption
<1>4. loop.current \in Listed => loop.current \in Watches
  BY <1>3 DEF Inv, InOnePlace
<1> QED
  BY <1>1, <1>3, <1>4, KindsDiffer DEF StandaloneAssumption

------------------------------------------------------------------------------
(* Adding *)

\* What is added was not used before.
LEMMA AddedIs ==
  ASSUME Inv, NEW h \in Handles, Added(h)
  PROVE  /\ used' \in Histories /\ h \notin used.added /\ used'.added = used.added \cup {h}
         /\ used'.released = used.released
<1>1. used \in Histories /\ used.added \cup {h} \in SUBSET Handles
  BY DEF Inv, TypeOK, Histories
<1> QED
  BY <1>1 DEF Added, Histories

\* The array grows when it is full.
LEMMA AddWatchDoes ==
  ASSUME StandaloneAssumption, Inv, NEW w \in Watches, AddWatch(w)
  PROVE  /\ Inv' /\ Listed' = Listed \cup {w} /\ loop' = loop /\ io'.disposed = io.disposed
         /\ w \notin used.added /\ used'.added = used.added \cup {w} /\ used'.released = used.released
<1> DEFINE e(flags) == [watch |-> w, flags |-> flags, revents |-> {}]
<1>1. PICK flags \in program.flags, place \in {io.place, io.place + 1}, alloc \in {io.alloc, io.alloc + Inc} :
        io' = Woken([io EXCEPT !.events = Append(io.events, e(flags)), !.alloc = alloc, !.place = place])
  BY DEF AddWatch
<1>2. loop' = loop /\ program' = program /\ Added(w) /\ w \in Handles
  BY DEF AddWatch, Handles
<1> DEFINE x == [io EXCEPT !.events = Append(io.events, e(flags)), !.alloc = alloc, !.place = place]
<1>3. /\ io \in Ios /\ io.events \in Seq(Events) /\ TypeOK
      /\ WatchedOnce(io.events) /\ place \in Nat /\ alloc \in Nat
  <2>1. io \in Ios /\ TypeOK /\ WatchedOnce(io.events)
    BY DEF Inv, TypeOK, ListedOnce
  <2>2. io.place \in Nat /\ io.alloc \in Nat /\ io.events \in Seq(Events)
    BY <2>1 DEF Ios
  <2>3. Inc \in Nat
    BY DEF StandaloneAssumption
  <2> QED
    BY <2>1, <2>2, <2>3
<1>e. e(flags) \in Events
  <2>1. flags \in SUBSET Flags /\ {} \in SUBSET Flags
    BY DEF Inv, TypeOK
  <2> QED
    BY <2>1 DEF Events
<1>4. w \notin WatchesOf(io.events)
  BY <1>2, <1>3, KindsDiffer, AddedIs DEF Inv, InOnePlace
<1>5. /\ Append(io.events, e(flags)) \in Seq(Events) /\ WatchedOnce(Append(io.events, e(flags)))
      /\ WatchesOf(Append(io.events, e(flags))) = WatchesOf(io.events) \cup {w}
  <2>1. e(flags).watch = w
    OBVIOUS
  <2> QED
    BY <1>3, <1>e, <1>4, <2>1, ArrayWith
<1>6. /\ x \in Ios /\ x.polling = io.polling /\ x.pipe = io.pipe
      /\ x.events = Append(io.events, e(flags)) /\ x.timeouts = io.timeouts
      /\ x.dispatchs = io.dispatchs /\ x.disposed = io.disposed
  BY <1>3, <1>5 DEF Ios
<1> HIDE DEF e, x
<1>7. io' = Woken(x)
  BY <1>1 DEF x
<1>8. /\ TypeOK' /\ LoopExact' /\ NoLostWakeup'
      /\ io'.events = Append(io.events, e(flags)) /\ io'.timeouts = io.timeouts
      /\ io'.dispatchs = io.dispatchs /\ io'.disposed = io.disposed
  BY <1>2, <1>6, <1>7, AddedIs, WokenKeeps
<1>9. Listed' = Listed \cup {w}
  BY <1>5, <1>8 DEF Listed, Watched, WatchesOf
<1>10. ListedOnce'
  BY <1>5, <1>8 DEF Inv, ListedOnce
<1>11. InOnePlace'
  BY <1>2, <1>8, <1>9, AddedIs, AddedInPlace
<1> QED
  BY <1>2, <1>8, <1>9, <1>10, <1>11, AddedIs DEF Inv

\* The newest timeout comes first.
LEMMA AddTimeoutDoes ==
  ASSUME StandaloneAssumption, Inv, NEW t \in Timeouts, AddTimeout(t)
  PROVE  /\ Inv' /\ Listed' = Listed \cup {t} /\ loop' = loop /\ io'.disposed = io.disposed
         /\ t \notin used.added /\ used'.added = used.added \cup {t} /\ used'.released = used.released
<1> DEFINE x == [io EXCEPT !.timeouts = <<t>> \o io.timeouts]
<1>1. io' = Woken(x) /\ loop' = loop /\ program' = program /\ Added(t) /\ t \in Handles
  BY DEF AddTimeout, Handles
<1>2. /\ io \in Ios /\ io.timeouts \in Seq(Timeouts) /\ TypeOK /\ Distinct(io.timeouts)
  BY DEF Inv, TypeOK, Ios, ListedOnce
<1>3. t \notin ToSet(io.timeouts)
  BY <1>1, <1>2, KindsDiffer, AddedIs DEF Inv, InOnePlace
<1>4. /\ <<t>> \o io.timeouts \in Seq(Timeouts) /\ Distinct(<<t>> \o io.timeouts)
      /\ ToSet(<<t>> \o io.timeouts) = ToSet(io.timeouts) \cup {t}
  BY <1>2, <1>3, ListWith
<1>5. /\ x \in Ios /\ x.polling = io.polling /\ x.pipe = io.pipe /\ x.events = io.events
      /\ x.timeouts = <<t>> \o io.timeouts /\ x.dispatchs = io.dispatchs /\ x.disposed = io.disposed
  BY <1>2, <1>4 DEF Ios
<1> HIDE DEF x
<1>6. /\ TypeOK' /\ LoopExact' /\ NoLostWakeup'
      /\ io'.events = io.events /\ io'.timeouts = <<t>> \o io.timeouts
      /\ io'.dispatchs = io.dispatchs /\ io'.disposed = io.disposed
  BY <1>1, <1>5, AddedIs, WokenKeeps
<1>7. Listed' = Listed \cup {t}
  BY <1>4, <1>6 DEF Listed, Watched
<1>8. ListedOnce'
  BY <1>4, <1>6 DEF Inv, ListedOnce
<1>9. InOnePlace'
  BY <1>1, <1>6, <1>7, AddedIs, AddedInPlace
<1> QED
  BY <1>1, <1>6, <1>7, <1>8, <1>9, AddedIs DEF Inv

\* The newest dispatch comes first.
LEMMA AddDispatchDoes ==
  ASSUME StandaloneAssumption, Inv, NEW d \in Dispatches, AddDispatch(d)
  PROVE  /\ Inv' /\ Listed' = Listed \cup {d} /\ loop' = loop /\ io'.disposed = io.disposed
         /\ d \notin used.added /\ used'.added = used.added \cup {d} /\ used'.released = used.released
<1> DEFINE x == [io EXCEPT !.dispatchs = <<d>> \o io.dispatchs]
<1>1. io' = Woken(x) /\ loop' = loop /\ program' = program /\ Added(d) /\ d \in Handles
  BY DEF AddDispatch, Handles
<1>2. /\ io \in Ios /\ io.dispatchs \in Seq(Dispatches) /\ TypeOK /\ Distinct(io.dispatchs)
  BY DEF Inv, TypeOK, Ios, ListedOnce
<1>3. d \notin ToSet(io.dispatchs)
  BY <1>1, <1>2, KindsDiffer, AddedIs DEF Inv, InOnePlace
<1>4. /\ <<d>> \o io.dispatchs \in Seq(Dispatches) /\ Distinct(<<d>> \o io.dispatchs)
      /\ ToSet(<<d>> \o io.dispatchs) = ToSet(io.dispatchs) \cup {d}
  BY <1>2, <1>3, ListWith
<1>5. /\ x \in Ios /\ x.polling = io.polling /\ x.pipe = io.pipe /\ x.events = io.events
      /\ x.timeouts = io.timeouts /\ x.dispatchs = <<d>> \o io.dispatchs /\ x.disposed = io.disposed
  BY <1>2, <1>4 DEF Ios
<1> HIDE DEF x
<1>6. /\ TypeOK' /\ LoopExact' /\ NoLostWakeup'
      /\ io'.events = io.events /\ io'.timeouts = io.timeouts
      /\ io'.dispatchs = <<d>> \o io.dispatchs /\ io'.disposed = io.disposed
  BY <1>1, <1>5, AddedIs, WokenKeeps
<1>7. Listed' = Listed \cup {d}
  BY <1>4, <1>6 DEF Listed, Watched
<1>8. ListedOnce'
  BY <1>4, <1>6 DEF Inv, ListedOnce
<1>9. InOnePlace'
  BY <1>1, <1>6, <1>7, AddedIs, AddedInPlace
<1> QED
  BY <1>1, <1>6, <1>7, <1>8, <1>9, AddedIs DEF Inv

------------------------------------------------------------------------------
(* Changing and removing *)

\* What is listed and called stays so.
LEMMA QuietInPlace ==
  ASSUME Inv, Listed' = Listed, used'.added = used.added, used'.released = used.released,
         io'.disposed = io.disposed, loop'.current = loop.current
  PROVE  InOnePlace'
BY DEF Inv, InOnePlace

\* The watch stays where it is in the array.
LEMMA UpdateWatchDoes ==
  ASSUME StandaloneAssumption, Inv, NEW i \in DOMAIN io.events, UpdateWatch(i)
  PROVE  /\ Inv' /\ Listed' = Listed /\ loop' = loop /\ io'.disposed = io.disposed
         /\ used'.added = used.added /\ used'.released = used.released
<1>1. PICK flags \in program.flags \cup {{}} :
        /\ io' = Woken([io EXCEPT !.events[i].flags = flags])
        /\ used' = [used EXCEPT !.updates = used.updates + 1] /\ loop' = loop /\ program' = program
  BY DEF UpdateWatch
<1> DEFINE e == [io.events[i] EXCEPT !.flags = flags]
           t == [io.events EXCEPT ![i] = e]
           x == [io EXCEPT !.events = t]
<1>2. /\ io \in Ios /\ io.events \in Seq(Events) /\ TypeOK /\ WatchedOnce(io.events)
      /\ used \in Histories
  BY DEF Inv, TypeOK, Ios, ListedOnce
<1>3. used' \in Histories /\ used'.added = used.added /\ used'.released = used.released
  <2>1. used.updates + 1 \in Nat
    BY <1>2 DEF Histories
  <2> QED
    BY <1>1, <1>2, <2>1 DEF Histories
<1>4. e \in Events /\ e.watch = io.events[i].watch
  <2>1. io.events[i] \in Events /\ flags \in SUBSET Flags
    BY <1>1, <1>2 DEF TypeOK
  <2> QED
    BY <2>1 DEF Events
<1> HIDE DEF e
<1>5. /\ t \in Seq(Events) /\ Len(t) = Len(io.events)
      /\ \A k \in 1 .. Len(io.events) : t[k].watch = io.events[k].watch
  BY <1>2, <1>4
<1> HIDE DEF t
<1>6. WatchesOf(t) = WatchesOf(io.events) /\ WatchedOnce(t)
  BY <1>2, <1>5, ArrayOfSame
<1>7. /\ x \in Ios /\ x.polling = io.polling /\ x.pipe = io.pipe /\ x.events = t
      /\ x.timeouts = io.timeouts /\ x.dispatchs = io.dispatchs /\ x.disposed = io.disposed
  BY <1>2, <1>5 DEF Ios
<1> HIDE DEF x
<1>8. io' = Woken(x)
  BY <1>1 DEF x, t, e
<1>9. /\ TypeOK' /\ LoopExact' /\ NoLostWakeup'
      /\ io'.events = t /\ io'.timeouts = io.timeouts
      /\ io'.dispatchs = io.dispatchs /\ io'.disposed = io.disposed
  BY <1>1, <1>3, <1>7, <1>8, WokenKeeps
<1>10. Listed' = Listed
  BY <1>6, <1>9 DEF Listed, Watched, WatchesOf
<1>11. ListedOnce'
  BY <1>6, <1>9 DEF Inv, ListedOnce
<1>12. InOnePlace'
  BY <1>1, <1>3, <1>9, <1>10, QuietInPlace
<1> QED
  BY <1>1, <1>3, <1>9, <1>10, <1>11, <1>12 DEF Inv

\* What the callback is using is released when it returns.
LEMMA RemoveWatchDoes ==
  ASSUME StandaloneAssumption, Inv, NEW i \in DOMAIN io.events, NEW w, w = io.events[i].watch,
         RemoveWatch(i)
  PROVE  /\ Inv' /\ w \in Watches /\ w \in Listed /\ Listed' = Listed \ {w} /\ loop' = loop
         /\ Executing(w) <=> loop.current = w
         /\ io'.disposed = IF loop.current = w THEN io.disposed \cup {w} ELSE io.disposed
         /\ used'.added = used.added
         /\ used'.released = IF loop.current = w THEN used.released ELSE used.released \cup {w}
<1> DEFINE disposed == IF Executing(w) THEN io.disposed \cup {w} ELSE io.disposed
           t == Without(io.events, i)
           x == [io EXCEPT !.events = t, !.disposed = disposed]
<1>1. /\ io' = Woken(x) /\ loop' = loop /\ program' = program
      /\ IF Executing(w) THEN used' = used ELSE Released({w})
  BY DEF RemoveWatch
<1>2. /\ io \in Ios /\ io.events \in Seq(Events) /\ TypeOK /\ WatchedOnce(io.events)
      /\ used \in Histories /\ io.disposed \in SUBSET Watches
  BY DEF Inv, TypeOK, Ios, ListedOnce
<1>3. w \in WatchesOf(io.events) /\ w \in Watches /\ w \in Listed /\ w \in Handles
  BY <1>2, KindsDiffer DEF Handles
<1>4. Executing(w) <=> loop.current = w
  BY <1>3 DEF Executing, Inv, LoopExact, StandaloneAssumption, Handles
<1>5. /\ used' \in Histories /\ used'.added = used.added
      /\ used'.released = IF loop.current = w THEN used.released ELSE used.released \cup {w}
  <2>1. used.released \cup {w} \in SUBSET Handles
    BY <1>2, <1>3 DEF Histories
  <2> QED
    BY <1>1, <1>2, <1>4, <2>1 DEF Released, Histories
<1>6. t \in Seq(Events) /\ WatchedOnce(t) /\ WatchesOf(t) = WatchesOf(io.events) \ {w}
  BY <1>2, ArrayWithout
<1>7. disposed \in SUBSET Watches
  BY <1>2, <1>3
<1> HIDE DEF t, disposed
<1>8. /\ x \in Ios /\ x.polling = io.polling /\ x.pipe = io.pipe /\ x.events = t
      /\ x.timeouts = io.timeouts /\ x.dispatchs = io.dispatchs /\ x.disposed = disposed
  BY <1>2, <1>6, <1>7 DEF Ios
<1> HIDE DEF x
<1>9. /\ TypeOK' /\ LoopExact' /\ NoLostWakeup'
      /\ io'.events = t /\ io'.timeouts = io.timeouts
      /\ io'.dispatchs = io.dispatchs /\ io'.disposed = disposed
  BY <1>1, <1>5, <1>8, WokenKeeps
<1>10. Listed' = Listed \ {w}
  <2>1. w \notin ToSet(io.timeouts) \cup ToSet(io.dispatchs)
    BY <1>2, <1>3, KindsDiffer DEF StandaloneAssumption
  <2>2. Listed' = WatchesOf(t) \cup ToSet(io.timeouts) \cup ToSet(io.dispatchs)
    BY <1>9 DEF Listed, Watched, WatchesOf
  <2>3. Listed = WatchesOf(io.events) \cup ToSet(io.timeouts) \cup ToSet(io.dispatchs)
    BY <1>2, KindsDiffer
  <2> QED
    BY <1>6, <2>1, <2>2, <2>3
<1>11. ListedOnce'
  BY <1>6, <1>9 DEF Inv, ListedOnce
<1>12. InOnePlace'
  <2>1. CASE loop.current = w
    BY <1>1, <1>3, <1>4, <1>5, <1>9, <1>10, <2>1 DEF disposed, Inv, InOnePlace
  <2>2. CASE loop.current # w
    BY <1>1, <1>3, <1>4, <1>5, <1>9, <1>10, <2>2, RemovedInPlace DEF disposed
  <2> QED
    BY <2>1, <2>2
<1>13. io'.disposed = IF loop.current = w THEN io.disposed \cup {w} ELSE io.disposed
  BY <1>4, <1>9 DEF disposed
<1> QED
  BY <1>1, <1>3, <1>4, <1>5, <1>9, <1>10, <1>11, <1>12, <1>13 DEF Inv

\* What is released stays added.
LEMMA ReleasedIs ==
  ASSUME Inv, NEW hs \in SUBSET Handles, Released(hs)
  PROVE  /\ used' \in Histories /\ used'.added = used.added
         /\ used'.released = used.released \cup hs
<1>1. used \in Histories /\ used.released \cup hs \in SUBSET Handles
  BY DEF Inv, TypeOK, Histories
<1> QED
  BY <1>1 DEF Released, Histories

\* A timeout that is removed was not called: it is released at once.
LEMMA RemoveTimeoutDoes ==
  ASSUME StandaloneAssumption, Inv, NEW i \in DOMAIN io.timeouts, NEW t, t = io.timeouts[i],
         RemoveTimeout(i)
  PROVE  /\ Inv' /\ t \in Timeouts /\ t \in Listed /\ Listed' = Listed \ {t} /\ loop' = loop
         /\ t # loop.current /\ io'.disposed = io.disposed
         /\ used'.added = used.added /\ used'.released = used.released \cup {t}
<1> DEFINE left == RemoveAt(io.timeouts, i)
<1>1. /\ io' = [io EXCEPT !.timeouts = left] /\ loop' = loop /\ program' = program /\ Released({t})
  BY DEF RemoveTimeout
<1>2. /\ io \in Ios /\ io.timeouts \in Seq(Timeouts) /\ TypeOK /\ Distinct(io.timeouts)
  BY DEF Inv, TypeOK, Ios, ListedOnce
<1>3. t \in ToSet(io.timeouts) /\ t \in Timeouts /\ t \in Listed /\ t \in Handles /\ t # loop.current
  BY <1>2, KindsDiffer, OnlyWatchesListedAndCalled DEF Handles
<1>4. left \in Seq(Timeouts) /\ Distinct(left) /\ ToSet(left) = ToSet(io.timeouts) \ {t}
  BY <1>2, ListWithout
<1> HIDE DEF left
<1>5. /\ io' \in Ios /\ io'.timeouts = left /\ io'.events = io.events /\ io'.dispatchs = io.dispatchs
      /\ io'.disposed = io.disposed /\ io'.polling = io.polling /\ io'.pipe = io.pipe
      /\ io'.running = io.running
  BY <1>1, <1>2, <1>4 DEF Ios
<1>6. used' \in Histories /\ used'.added = used.added /\ used'.released = used.released \cup {t}
  BY <1>1, <1>3, ReleasedIs
<1>7. TypeOK'
  BY <1>1, <1>5, <1>6 DEF Inv, TypeOK
<1>8. Listed' = Listed \ {t}
  <2>1. t \notin WatchesOf(io.events) \cup ToSet(io.dispatchs)
    BY <1>2, <1>3, KindsDiffer DEF StandaloneAssumption
  <2>2. Listed' = WatchesOf(io.events) \cup ToSet(left) \cup ToSet(io.dispatchs)
    BY <1>5 DEF Listed, Watched, WatchesOf
  <2>3. Listed = WatchesOf(io.events) \cup ToSet(io.timeouts) \cup ToSet(io.dispatchs)
    BY <1>2, KindsDiffer
  <2> QED
    BY <1>4, <2>1, <2>2, <2>3
<1>9. ListedOnce' /\ LoopExact'
  BY <1>1, <1>4, <1>5 DEF Inv, ListedOnce, LoopExact
<1>10. InOnePlace'
  BY <1>1, <1>3, <1>5, <1>6, <1>8, RemovedInPlace
<1>11. NoLostWakeup'
  BY <1>1, <1>4, <1>5 DEF Inv, NoLostWakeup, Alive
<1> QED
  BY <1>1, <1>3, <1>5, <1>6, <1>7, <1>8, <1>9, <1>10, <1>11 DEF Inv

\* A loop that sleeps had no dispatch that could be removed.
LEMMA RemoveDispatchDoes ==
  ASSUME StandaloneAssumption, Inv, NEW i \in DOMAIN io.dispatchs, NEW d, d = io.dispatchs[i],
         RemoveDispatch(i)
  PROVE  /\ Inv' /\ d \in Dispatches /\ d \in Listed /\ Listed' = Listed \ {d} /\ loop' = loop
         /\ d # loop.current /\ io'.disposed = io.disposed
         /\ used'.added = used.added /\ used'.released = used.released \cup {d}
<1> DEFINE left == RemoveAt(io.dispatchs, i)
<1>1. /\ io' = [io EXCEPT !.dispatchs = left] /\ loop' = loop /\ program' = program /\ Released({d})
  BY DEF RemoveDispatch
<1>2. /\ io \in Ios /\ io.dispatchs \in Seq(Dispatches) /\ TypeOK /\ Distinct(io.dispatchs)
  BY DEF Inv, TypeOK, Ios, ListedOnce
<1>3. d \in ToSet(io.dispatchs) /\ d \in Dispatches /\ d \in Listed /\ d \in Handles /\ d # loop.current
  BY <1>2, KindsDiffer, OnlyWatchesListedAndCalled DEF Handles
<1>4. left \in Seq(Dispatches) /\ Distinct(left) /\ ToSet(left) = ToSet(io.dispatchs) \ {d}
  BY <1>2, ListWithout
<1> HIDE DEF left
<1>5. /\ io' \in Ios /\ io'.timeouts = io.timeouts /\ io'.events = io.events /\ io'.dispatchs = left
      /\ io'.disposed = io.disposed /\ io'.polling = io.polling /\ io'.pipe = io.pipe
      /\ io'.running = io.running
  BY <1>1, <1>2, <1>4 DEF Ios
<1>6. used' \in Histories /\ used'.added = used.added /\ used'.released = used.released \cup {d}
  BY <1>1, <1>3, ReleasedIs
<1>7. TypeOK'
  BY <1>1, <1>5, <1>6 DEF Inv, TypeOK
<1>8. Listed' = Listed \ {d}
  <2>1. d \notin WatchesOf(io.events) \cup ToSet(io.timeouts)
    BY <1>2, <1>3, KindsDiffer DEF StandaloneAssumption
  <2>2. Listed' = WatchesOf(io.events) \cup ToSet(io.timeouts) \cup ToSet(left)
    BY <1>5 DEF Listed, Watched, WatchesOf
  <2>3. Listed = WatchesOf(io.events) \cup ToSet(io.timeouts) \cup ToSet(io.dispatchs)
    BY <1>2, KindsDiffer
  <2> QED
    BY <1>4, <2>1, <2>2, <2>3
<1>9. ListedOnce' /\ LoopExact'
  BY <1>1, <1>4, <1>5 DEF Inv, ListedOnce, LoopExact
<1>10. InOnePlace'
  BY <1>1, <1>3, <1>5, <1>6, <1>8, RemovedInPlace
<1>11. NoLostWakeup'
  <2>1. io.dispatchs # <<>>
    OBVIOUS
  <2>2. ~(Alive /\ loop.at = "polling" /\ io.pipe = 0 /\ loop.result = "later")
    BY <2>1 DEF Inv, NoLostWakeup
  <2> QED
    BY <1>1, <1>5, <2>2 DEF NoLostWakeup, Alive
<1> QED
  BY <1>1, <1>3, <1>5, <1>6, <1>7, <1>8, <1>9, <1>10, <1>11 DEF Inv

\* A loop that polls notices that it is to end.
LEMMA QuitDoes ==
  ASSUME StandaloneAssumption, Inv, Quit
  PROVE  /\ Inv' /\ Listed' = Listed /\ loop' = loop /\ io'.disposed = io.disposed
         /\ used'.added = used.added /\ used'.released = used.released
<1> DEFINE x == [io EXCEPT !.running = FALSE]
<1>1. io' = Woken(x) /\ loop' = loop /\ program' = program /\ used' = used
  BY DEF Quit
<1>2. io \in Ios /\ TypeOK /\ used \in Histories
  BY DEF Inv, TypeOK
<1>3. /\ x \in Ios /\ x.polling = io.polling /\ x.pipe = io.pipe /\ x.events = io.events
      /\ x.timeouts = io.timeouts /\ x.dispatchs = io.dispatchs /\ x.disposed = io.disposed
  BY <1>2 DEF Ios
<1> HIDE DEF x
<1>4. /\ TypeOK' /\ LoopExact' /\ NoLostWakeup'
      /\ io'.events = io.events /\ io'.timeouts = io.timeouts
      /\ io'.dispatchs = io.dispatchs /\ io'.disposed = io.disposed
  BY <1>1, <1>2, <1>3, WokenKeeps
<1>5. Listed' = Listed
  BY <1>4 DEF Listed, Watched
<1>6. ListedOnce'
  BY <1>4 DEF Inv, ListedOnce
<1>7. InOnePlace'
  BY <1>1, <1>4, <1>5, QuietInPlace
<1> QED
  BY <1>1, <1>4, <1>5, <1>6, <1>7 DEF Inv

------------------------------------------------------------------------------
(* One iteration of the loop *)

\* Steps that touch neither the lists nor what is called.
LEMMA LoopInPlace ==
  ASSUME Inv, io'.events = io.events, io'.timeouts = io.timeouts, io'.dispatchs = io.dispatchs,
         io'.disposed = io.disposed, loop'.current = loop.current, used'.added = used.added,
         used'.released = used.released
  PROVE  Listed' = Listed /\ ListedOnce' /\ InOnePlace'
<1>1. Listed' = Listed
  BY DEF Listed, Watched
<1> QED
  BY <1>1, QuietInPlace DEF Inv, ListedOnce

Unseen == /\ Listed' = Listed /\ loop'.current = loop.current /\ io'.disposed = io.disposed
          /\ used'.added = used.added /\ used'.released = used.released

\* The loop begins to run.
LEMMA StartDoes == ASSUME Inv, Start PROVE Inv' /\ Unseen
<1>1. /\ io' = [io EXCEPT !.running = TRUE] /\ loop' = [loop EXCEPT !.at = "top"]
      /\ used' = used /\ program' = program /\ io \in Ios /\ loop \in Loops /\ loop.at = "start"
  BY DEF Start, Inv, TypeOK
<1>2. io' \in Ios /\ loop' \in Loops
  BY <1>1 DEF Ios, Loops
<1>3. /\ io'.events = io.events /\ io'.timeouts = io.timeouts /\ io'.dispatchs = io.dispatchs
      /\ io'.disposed = io.disposed /\ io'.polling = io.polling /\ io'.pipe = io.pipe
      /\ loop'.current = loop.current /\ loop'.at = "top"
  BY <1>1 DEF Ios, Loops
<1>4. TypeOK'
  BY <1>1, <1>2 DEF Inv, TypeOK
<1>5. LoopExact' /\ NoLostWakeup'
  BY <1>1, <1>3 DEF Inv, LoopExact, NoLostWakeup
<1> QED
  BY <1>1, <1>3, <1>4, <1>5, LoopInPlace DEF Inv, Unseen

\* It sleeps when no dispatch and no timeout that is over is left.
LEMMA PrepareDoes == ASSUME Inv, Prepare PROVE Inv' /\ Unseen
<1> DEFINE over == io.dispatchs # <<>> \/ ToSet(io.timeouts) \cap elapsed # {}
           wait == IF over THEN {} ELSE ToSet(io.timeouts)
           result == IF over THEN "at once" ELSE "later"
<1>1. /\ io' = [io EXCEPT !.polling = TRUE]
      /\ loop' = [loop EXCEPT !.at = "polling", !.polled = io.events, !.place = io.place,
                              !.wait = wait, !.result = result]
      /\ used' = used /\ program' = program /\ io \in Ios /\ loop \in Loops /\ loop.at = "top"
      /\ io.running
  BY DEF Prepare, Inv, TypeOK
<1>2. wait \in SUBSET Timeouts /\ result \in {"at once", "later"}
  BY KindsDiffer DEF Inv
<1>3. result = "later" => io.dispatchs = <<>> /\ wait = ToSet(io.timeouts)
  OBVIOUS
<1> HIDE DEF wait, result
<1>4. io.events \in Seq(Events) /\ io.place \in Nat
  BY <1>1 DEF Ios
<1>5. io' \in Ios /\ loop' \in Loops
  <2>1. io' \in Ios
    BY <1>1 DEF Ios
  <2>2. wait \in {None} \cup SUBSET Timeouts
    BY <1>2
  <2>3. loop' \in Loops
    BY <1>1, <1>2, <1>4, <2>2 DEF Loops
  <2> QED
    BY <2>1, <2>3
<1>6. /\ io'.events = io.events /\ io'.timeouts = io.timeouts /\ io'.dispatchs = io.dispatchs
      /\ io'.disposed = io.disposed /\ io'.polling = TRUE /\ io'.pipe = io.pipe
      /\ io'.running = io.running
  BY <1>1 DEF Ios
<1>7. /\ loop'.current = loop.current /\ loop'.at = "polling" /\ loop'.polled = io.events
      /\ loop'.wait = wait /\ loop'.result = result
  BY <1>1 DEF Loops
<1>8. TypeOK'
  BY <1>1, <1>5 DEF Inv, TypeOK
<1>9. LoopExact'
  BY <1>1, <1>6, <1>7 DEF Inv, LoopExact
<1>10. NoLostWakeup'
  BY <1>1, <1>3, <1>6, <1>7 DEF NoLostWakeup
<1> QED
  BY <1>1, <1>6, <1>7, <1>8, <1>9, <1>10, LoopInPlace DEF Inv, Unseen

\* What happened is written to the array, or to where it was when it has grown.
LEMMA PollReturnsDoes == ASSUME Inv, PollReturns PROVE Inv' /\ Unseen
<1>1. /\ used' = used /\ program' = program /\ io \in Ios /\ loop \in Loops /\ loop.at = "polling"
      /\ TypeOK
  BY DEF PollReturns, Inv, TypeOK
<1>2. CASE loop.place = io.place
  <2> DEFINE seen(i) == IF i \in DOMAIN loop.polled THEN [io.events[i] EXCEPT !.revents = Seen(i)]
                        ELSE io.events[i]
             t == [i \in DOMAIN io.events |-> seen(i)]
             woken == io.pipe > 0
  <2>1. /\ io' = [io EXCEPT !.events = t]
        /\ loop' = [loop EXCEPT !.at = "back", !.result = "events", !.woken = woken]
    BY <1>2 DEF PollReturns
  <2>2. io.events \in Seq(Events) /\ loop.polled \in Seq(Events)
    BY <1>1 DEF Ios, Loops
  <2>3. \A i \in DOMAIN io.events : seen(i) \in Events /\ seen(i).watch = io.events[i].watch
    <3> SUFFICES ASSUME NEW i \in DOMAIN io.events
                 PROVE  seen(i) \in Events /\ seen(i).watch = io.events[i].watch
      OBVIOUS
    <3>1. io.events[i] \in Events
      BY <2>2
    <3>2. Seen(i) \in SUBSET Flags
      <4>1. i \in DOMAIN loop.polled => loop.polled[i] \in Events
        BY <2>2
      <4> QED
        BY <4>1 DEF Seen, Events
    <3> QED
      BY <3>1, <3>2 DEF Events
  <2> HIDE DEF seen
  <2>4. /\ t \in Seq(Events) /\ Len(t) = Len(io.events)
        /\ \A k \in 1 .. Len(io.events) : t[k].watch = io.events[k].watch
    BY <2>2, <2>3
  <2> HIDE DEF t
  <2>5. WatchesOf(t) = WatchesOf(io.events) /\ (WatchedOnce(io.events) => WatchedOnce(t))
    BY <2>2, <2>4, ArrayOfSame
  <2>6. woken \in BOOLEAN
    OBVIOUS
  <2>7. io' \in Ios
    BY <1>1, <2>1, <2>4 DEF Ios
  <2>8. loop' \in Loops
    BY <1>1, <2>1, <2>6 DEF Loops
  <2>9. /\ io'.events = t /\ io'.timeouts = io.timeouts /\ io'.dispatchs = io.dispatchs
        /\ io'.disposed = io.disposed /\ io'.polling = io.polling /\ io'.pipe = io.pipe
    BY <1>1, <2>1 DEF Ios
  <2>10. loop'.current = loop.current /\ loop'.at = "back" /\ loop'.woken = (io.pipe > 0)
    BY <1>1, <2>1 DEF Loops
  <2>11. TypeOK' /\ LoopExact' /\ NoLostWakeup'
    BY <1>1, <2>7, <2>8, <2>9, <2>10 DEF Inv, TypeOK, LoopExact, NoLostWakeup
  <2>12. Listed' = Listed
    BY <2>5, <2>9 DEF Listed, Watched, WatchesOf
  <2>13. ListedOnce'
    BY <2>5, <2>9 DEF Inv, ListedOnce
  <2>14. InOnePlace'
    BY <1>1, <2>9, <2>10, <2>12, QuietInPlace
  <2> QED
    BY <1>1, <2>9, <2>10, <2>11, <2>12, <2>13, <2>14 DEF Inv, Unseen
<1>3. CASE loop.place # io.place
  <2>1. io' = io /\ loop' = [loop EXCEPT !.failure = "freed array"]
    BY <1>3 DEF PollReturns
  <2>2. /\ loop' \in Loops /\ loop'.at = loop.at /\ loop'.current = loop.current
        /\ loop'.woken = loop.woken /\ loop'.polled = loop.polled /\ loop'.wait = loop.wait
        /\ loop'.result = loop.result
    BY <1>1, <2>1 DEF Loops
  <2>3. TypeOK' /\ LoopExact'
    BY <1>1, <2>1, <2>2 DEF Inv, TypeOK, LoopExact
  <2>4. NoLostWakeup'
    BY <1>1, <2>1, <2>2 DEF Inv, NoLostWakeup, PollReturns
  <2> QED
    BY <1>1, <2>1, <2>2, <2>3, <2>4, LoopInPlace DEF Inv, Unseen
<1> QED
  BY <1>2, <1>3

\* The time is over, and nothing happened.
LEMMA PollTimesOutDoes == ASSUME Inv, PollTimesOut PROVE Inv' /\ Unseen
<1>1. /\ io' = io /\ loop' = [loop EXCEPT !.at = "back", !.result = "timeout", !.woken = FALSE]
      /\ used' = used /\ program' = program /\ loop \in Loops /\ loop.at = "polling"
  BY DEF PollTimesOut, Inv, TypeOK
<1>2. /\ loop' \in Loops /\ loop'.current = loop.current /\ loop'.at = "back" /\ loop'.woken = FALSE
  BY <1>1 DEF Loops
<1>3. TypeOK' /\ LoopExact' /\ NoLostWakeup'
  BY <1>1, <1>2 DEF Inv, TypeOK, LoopExact, NoLostWakeup
<1> QED
  BY <1>1, <1>2, <1>3, LoopInPlace DEF Inv, Unseen

\* Interrupted by a signal, it starts again.
LEMMA InterruptedDoes == ASSUME Inv, Interrupted PROVE Inv' /\ Unseen
<1>1. /\ io' = [io EXCEPT !.polling = FALSE] /\ loop' = [loop EXCEPT !.at = "top"]
      /\ used' = [used EXCEPT !.interrupts = used.interrupts + 1] /\ program' = program
      /\ io \in Ios /\ loop \in Loops /\ used \in Histories /\ loop.at = "polling"
  BY DEF Interrupted, Inv, TypeOK
<1>2. /\ used' \in Histories /\ used'.added = used.added /\ used'.released = used.released
  <2>1. used.interrupts + 1 \in Nat
    BY <1>1 DEF Histories
  <2> QED
    BY <1>1, <2>1 DEF Histories
<1>3. io' \in Ios /\ loop' \in Loops
  BY <1>1 DEF Ios, Loops
<1>4. /\ io'.events = io.events /\ io'.timeouts = io.timeouts /\ io'.dispatchs = io.dispatchs
      /\ io'.disposed = io.disposed /\ io'.polling = FALSE /\ io'.pipe = io.pipe
      /\ loop'.current = loop.current /\ loop'.at = "top"
  BY <1>1 DEF Ios, Loops
<1>5. TypeOK' /\ LoopExact' /\ NoLostWakeup'
  BY <1>1, <1>2, <1>3, <1>4 DEF Inv, TypeOK, LoopExact, NoLostWakeup
<1> QED
  BY <1>1, <1>2, <1>4, <1>5, LoopInPlace DEF Inv, Unseen

\* The byte that woke it up is read, and what is called is taken from its list.
LEMMA CallsDo ==
  ASSUME StandaloneAssumption, Inv, loop.at = "back", NEW x \in Ios, x.pipe = io.pipe,
         NEW h \in Handles \cup {None}, NEW events \in SUBSET Flags, Calls(x, h, events),
         program' = program, used' = used
  PROVE  /\ TypeOK' /\ LoopExact' /\ NoLostWakeup' /\ loop'.current = h
         /\ io'.events = x.events /\ io'.timeouts = x.timeouts /\ io'.dispatchs = x.dispatchs
         /\ io'.disposed = x.disposed
<1> DEFINE pipe == IF loop.woken THEN x.pipe - 1 ELSE x.pipe
           at == IF h = None THEN "top" ELSE "called"
<1>1. /\ io' = [x EXCEPT !.polling = FALSE, !.pipe = pipe]
      /\ loop' = [loop EXCEPT !.at = at, !.current = h, !.events = events]
  BY DEF Calls
<1>2. loop \in Loops /\ io \in Ios /\ TypeOK /\ LoopExact
  BY DEF Inv, TypeOK
<1>3. pipe \in Nat
  <2>1. io.pipe \in Nat /\ (loop.woken => io.pipe > 0)
    BY <1>2 DEF LoopExact, Ios
  <2> QED
    BY <2>1
<1>4. at \in {"top", "called"} /\ (h # None <=> at = "called")
  OBVIOUS
<1> HIDE DEF pipe, at
<1>5. io' \in Ios
  BY <1>1, <1>3 DEF Ios
<1>6. loop' \in Loops
  BY <1>1, <1>2, <1>4 DEF Loops
<1>7. /\ io'.events = x.events /\ io'.timeouts = x.timeouts /\ io'.dispatchs = x.dispatchs
      /\ io'.disposed = x.disposed /\ io'.polling = FALSE
  BY <1>1 DEF Ios
<1>8. loop'.current = h /\ loop'.at = at
  BY <1>1, <1>2 DEF Loops
<1>9. TypeOK'
  BY <1>2, <1>5, <1>6 DEF TypeOK
<1>10. LoopExact' /\ NoLostWakeup'
  BY <1>4, <1>7, <1>8 DEF LoopExact, NoLostWakeup
<1> QED
  BY <1>7, <1>8, <1>9, <1>10

\* While the loop is not calling, nothing is being used that was removed.
LEMMA NobodyCalled ==
  ASSUME StandaloneAssumption, Inv, loop.at # "called"
  PROVE  loop.current = None /\ io.disposed = {}
<1>1. loop.current = None
  BY DEF Inv, LoopExact
<1>2. io.disposed \subseteq Watches /\ io.disposed \subseteq {None}
  BY <1>1 DEF Inv, TypeOK, Ios, InOnePlace
<1> QED
  BY <1>1, <1>2 DEF StandaloneAssumption, Handles

\* A timeout and a dispatch are called once.
LEMMA CalledInPlace ==
  ASSUME StandaloneAssumption, Inv, loop.at # "called", NEW h \in Listed, h \in Handles, used' = used,
         loop'.current = h, Listed' = IF h \in Watches THEN Listed ELSE Listed \ {h},
         io'.disposed = io.disposed
  PROVE  InOnePlace'
<1>1. io.disposed = {}
  BY NobodyCalled
<1> QED
  BY <1>1 DEF Inv, InOnePlace

\* A set of naturals that is not empty has a least element.
LEMMA Least ==
  ASSUME NEW S, S \subseteq Nat, S # {}
  PROVE  \E x \in S : \A y \in S : x <= y
<1>1. \E x \in S : \A y \in S : ~(<<y, x>> \in OpToRel(<, Nat))
  BY NatLessThanWellFounded, WFMin
<1>2. PICK x \in S : \A y \in S : ~(<<y, x>> \in OpToRel(<, Nat))
  BY <1>1
<1>3. ASSUME NEW y \in S PROVE x <= y
  <2>1. x \in Nat /\ y \in Nat
    BY <1>3
  <2>2. ~(y < x)
    BY <1>2, <1>3, <2>1 DEF OpToRel
  <2> QED BY <2>1, <2>2
<1> QED BY <1>2, <1>3

\* There is a first one among what was found.
LEMMA FirstIs == ASSUME NEW S \in SUBSET Nat, S # {} PROVE First(S) \in S
<1>1. \E n \in S : \A m \in S : n <= m
  BY Least
<1> QED
  BY <1>1 DEF First

\* A timeout that is over leaves the list and is called.
LEMMA CallTimeoutDoes ==
  ASSUME StandaloneAssumption, Inv, CallTimeout
  PROVE  \E t \in Timeouts : /\ Inv' /\ loop'.current = t /\ t \in Listed /\ Listed' = Listed \ {t}
                            /\ io'.disposed = io.disposed /\ used' = used
<1> DEFINE i == First(Over)
           left == RemoveAt(io.timeouts, i)
           t == io.timeouts[i]
           x == [io EXCEPT !.timeouts = left]
<1>1. /\ Calls(x, t, {}) /\ used' = used /\ program' = program /\ loop.at = "back" /\ Over # {}
  BY DEF CallTimeout
<1>2. /\ io \in Ios /\ io.timeouts \in Seq(Timeouts) /\ TypeOK /\ Distinct(io.timeouts)
  BY DEF Inv, TypeOK, Ios, ListedOnce
<1>3. i \in DOMAIN io.timeouts
  <2>1. Over \subseteq DOMAIN io.timeouts /\ DOMAIN io.timeouts \subseteq Nat
    BY <1>2 DEF Over
  <2> QED
    BY <1>1, <2>1, FirstIs
<1> HIDE DEF i
<1>4. t \in ToSet(io.timeouts) /\ t \in Timeouts /\ t \in Listed /\ t \in Handles
  BY <1>2, <1>3, KindsDiffer DEF Handles
<1>5. left \in Seq(Timeouts) /\ Distinct(left) /\ ToSet(left) = ToSet(io.timeouts) \ {t}
  BY <1>2, <1>3, ListWithout
<1> HIDE DEF left, t
<1>6. /\ x \in Ios /\ x.pipe = io.pipe /\ x.timeouts = left /\ x.events = io.events
      /\ x.dispatchs = io.dispatchs /\ x.disposed = io.disposed
  BY <1>2, <1>5 DEF Ios
<1> HIDE DEF x
<1>7. /\ TypeOK' /\ LoopExact' /\ NoLostWakeup' /\ loop'.current = t
      /\ io'.events = io.events /\ io'.timeouts = left /\ io'.dispatchs = io.dispatchs
      /\ io'.disposed = io.disposed
  BY <1>1, <1>4, <1>6, CallsDo
<1>8. Listed' = Listed \ {t}
  <2>1. t \notin WatchesOf(io.events) \cup ToSet(io.dispatchs)
    BY <1>2, <1>4, KindsDiffer DEF StandaloneAssumption
  <2>2. Listed' = WatchesOf(io.events) \cup ToSet(left) \cup ToSet(io.dispatchs)
    BY <1>7 DEF Listed, Watched, WatchesOf
  <2>3. Listed = WatchesOf(io.events) \cup ToSet(io.timeouts) \cup ToSet(io.dispatchs)
    BY <1>2, KindsDiffer
  <2> QED
    BY <1>5, <2>1, <2>2, <2>3
<1>9. ListedOnce'
  BY <1>5, <1>7 DEF Inv, ListedOnce
<1>10. InOnePlace'
  <2>1. t \notin Watches
    BY <1>4 DEF StandaloneAssumption
  <2> QED
    BY <1>1, <1>4, <1>7, <1>8, <2>1, CalledInPlace
<1> QED
  BY <1>1, <1>4, <1>7, <1>8, <1>9, <1>10 DEF Inv

\* A watch stays where it is.
LEMMA CallWatchDoes ==
  ASSUME StandaloneAssumption, Inv, CallWatch
  PROVE  \E w \in Watches : /\ Inv' /\ loop'.current = w /\ w \in Listed /\ Listed' = Listed
                           /\ io'.disposed = io.disposed /\ used' = used
<1> DEFINE i == First(Active)
           e == [io.events[i] EXCEPT !.revents = {}]
           w == io.events[i].watch
           revents == io.events[i].revents
           t == [io.events EXCEPT ![i] = e]
           x == [io EXCEPT !.events = t]
<1>1. /\ Calls(x, w, revents) /\ used' = used /\ program' = program /\ loop.at = "back" /\ Active # {}
  BY DEF CallWatch
<1>2. /\ io \in Ios /\ io.events \in Seq(Events) /\ TypeOK /\ WatchedOnce(io.events)
  BY DEF Inv, TypeOK, Ios, ListedOnce
<1>3. i \in DOMAIN io.events
  <2>1. Active \subseteq DOMAIN io.events /\ DOMAIN io.events \subseteq Nat
    BY <1>2 DEF Active
  <2> QED
    BY <1>1, <2>1, FirstIs
<1> HIDE DEF i
<1>4. w \in WatchesOf(io.events) /\ w \in Watches /\ w \in Listed /\ w \in Handles
  BY <1>2, <1>3, KindsDiffer DEF Handles
<1>5. e \in Events /\ e.watch = io.events[i].watch /\ revents \in SUBSET Flags
  <2>1. io.events[i] \in Events
    BY <1>2, <1>3
  <2> QED
    BY <2>1 DEF Events
<1> HIDE DEF e, revents
<1>6. /\ t \in Seq(Events) /\ Len(t) = Len(io.events)
      /\ \A k \in 1 .. Len(io.events) : t[k].watch = io.events[k].watch
  BY <1>2, <1>3, <1>5
<1> HIDE DEF t, w
<1>7. WatchesOf(t) = WatchesOf(io.events) /\ WatchedOnce(t)
  BY <1>2, <1>6, ArrayOfSame
<1>8. /\ x \in Ios /\ x.pipe = io.pipe /\ x.timeouts = io.timeouts /\ x.events = t
      /\ x.dispatchs = io.dispatchs /\ x.disposed = io.disposed
  BY <1>2, <1>6 DEF Ios
<1> HIDE DEF x
<1>9. /\ TypeOK' /\ LoopExact' /\ NoLostWakeup' /\ loop'.current = w
      /\ io'.events = t /\ io'.timeouts = io.timeouts /\ io'.dispatchs = io.dispatchs
      /\ io'.disposed = io.disposed
  BY <1>1, <1>4, <1>5, <1>8, CallsDo
<1>10. Listed' = Listed
  BY <1>7, <1>9 DEF Listed, Watched, WatchesOf
<1>11. ListedOnce'
  BY <1>7, <1>9 DEF Inv, ListedOnce
<1>12. InOnePlace'
  BY <1>1, <1>4, <1>9, <1>10, CalledInPlace
<1> QED
  BY <1>1, <1>4, <1>9, <1>10, <1>11, <1>12 DEF Inv

\* The newest dispatch leaves the list and is called.
LEMMA CallDispatchDoes ==
  ASSUME StandaloneAssumption, Inv, CallDispatch
  PROVE  \E d \in Dispatches : /\ Inv' /\ loop'.current = d /\ d \in Listed /\ Listed' = Listed \ {d}
                              /\ io'.disposed = io.disposed /\ used' = used
<1> DEFINE left == Tail(io.dispatchs)
           d == io.dispatchs[1]
           x == [io EXCEPT !.dispatchs = left]
<1>1. /\ Calls(x, d, {}) /\ used' = used /\ program' = program /\ loop.at = "back"
      /\ io.dispatchs # <<>>
  BY DEF CallDispatch
<1>2. /\ io \in Ios /\ io.dispatchs \in Seq(Dispatches) /\ TypeOK /\ Distinct(io.dispatchs)
  BY DEF Inv, TypeOK, Ios, ListedOnce
<1>3. /\ left \in Seq(Dispatches) /\ Distinct(left) /\ ToSet(left) = ToSet(io.dispatchs) \ {d}
      /\ d \in ToSet(io.dispatchs)
  BY <1>1, <1>2, ListTail
<1>4. d \in Dispatches /\ d \in Listed /\ d \in Handles
  BY <1>2, <1>3, KindsDiffer DEF Handles
<1> HIDE DEF left, d
<1>5. /\ x \in Ios /\ x.pipe = io.pipe /\ x.timeouts = io.timeouts /\ x.events = io.events
      /\ x.dispatchs = left /\ x.disposed = io.disposed
  BY <1>2, <1>3 DEF Ios
<1> HIDE DEF x
<1>6. /\ TypeOK' /\ LoopExact' /\ NoLostWakeup' /\ loop'.current = d
      /\ io'.events = io.events /\ io'.timeouts = io.timeouts /\ io'.dispatchs = left
      /\ io'.disposed = io.disposed
  BY <1>1, <1>4, <1>5, CallsDo
<1>7. Listed' = Listed \ {d}
  <2>1. d \notin WatchesOf(io.events) \cup ToSet(io.timeouts)
    BY <1>2, <1>4, KindsDiffer DEF StandaloneAssumption
  <2>2. Listed' = WatchesOf(io.events) \cup ToSet(io.timeouts) \cup ToSet(left)
    BY <1>6 DEF Listed, Watched, WatchesOf
  <2>3. Listed = WatchesOf(io.events) \cup ToSet(io.timeouts) \cup ToSet(io.dispatchs)
    BY <1>2, KindsDiffer
  <2> QED
    BY <1>3, <2>1, <2>2, <2>3
<1>8. ListedOnce'
  BY <1>3, <1>6 DEF Inv, ListedOnce
<1>9. InOnePlace'
  <2>1. d \notin Watches
    BY <1>4 DEF StandaloneAssumption
  <2> QED
    BY <1>1, <1>4, <1>6, <1>7, <2>1, CalledInPlace
<1> QED
  BY <1>1, <1>4, <1>6, <1>7, <1>8, <1>9 DEF Inv

\* There was nothing to call.
LEMMA CallNothingDoes == ASSUME StandaloneAssumption, Inv, CallNothing PROVE Inv' /\ Unseen
<1>1. /\ Calls(io, None, {}) /\ used' = used /\ program' = program /\ loop.at = "back"
      /\ io \in Ios /\ loop.current = None
  BY NobodyCalled DEF CallNothing, Inv, TypeOK
<1>2. {} \in SUBSET Flags /\ None \in Handles \cup {None} /\ io.pipe = io.pipe
  OBVIOUS
<1>3. /\ TypeOK' /\ LoopExact' /\ NoLostWakeup' /\ loop'.current = None
      /\ io'.events = io.events /\ io'.timeouts = io.timeouts /\ io'.dispatchs = io.dispatchs
      /\ io'.disposed = io.disposed
  BY <1>1, <1>2, CallsDo
<1> QED
  BY <1>1, <1>3, LoopInPlace DEF Inv, Unseen

\* Everything but a watch that is still there is released now.
LEMMA ReturnDoes ==
  ASSUME StandaloneAssumption, Inv, NEW h, h = loop.current, Return
  PROVE  /\ Inv' /\ h \in Handles /\ Listed' = Listed /\ loop'.current = None
         /\ io'.disposed = io.disposed \ {h} /\ used'.added = used.added
         /\ used'.released = IF h \notin Watches \/ h \in io.disposed THEN used.released \cup {h}
                             ELSE used.released
<1>1. /\ IF h \notin Watches \/ h \in io.disposed THEN Released({h}) ELSE used' = used
      /\ io' = [io EXCEPT !.disposed = io.disposed \ {h}]
      /\ loop' = [loop EXCEPT !.at = "top", !.current = None, !.events = {}]
      /\ program' = program /\ io \in Ios /\ loop \in Loops /\ used \in Histories
      /\ loop.at = "called"
  BY DEF Return, Inv, TypeOK
<1>2. h \in Handles
  BY <1>1 DEF Loops, Inv, LoopExact
<1>3. /\ used' \in Histories /\ used'.added = used.added
      /\ used'.released = IF h \notin Watches \/ h \in io.disposed THEN used.released \cup {h}
                          ELSE used.released
  BY <1>1, <1>2, ReleasedIs
<1>4. io.disposed \ {h} \in SUBSET Watches
  BY <1>1 DEF Ios
<1>5. io' \in Ios /\ loop' \in Loops
  <2>1. io' \in Ios
    BY <1>1, <1>4 DEF Ios
  <2>2. loop' \in Loops
    BY <1>1 DEF Loops
  <2> QED
    BY <2>1, <2>2
<1>6. /\ io'.events = io.events /\ io'.timeouts = io.timeouts /\ io'.dispatchs = io.dispatchs
      /\ io'.disposed = io.disposed \ {h} /\ io'.polling = io.polling
      /\ loop'.current = None /\ loop'.at = "top"
  BY <1>1 DEF Ios, Loops
<1>7. TypeOK' /\ LoopExact' /\ NoLostWakeup'
  BY <1>1, <1>3, <1>5, <1>6 DEF Inv, TypeOK, LoopExact, NoLostWakeup
<1>8. Listed' = Listed /\ ListedOnce'
  BY <1>6 DEF Inv, Listed, Watched, ListedOnce
<1>9. InOnePlace'
  <2>1. h # None
    BY <1>2 DEF StandaloneAssumption
  <2> QED
    BY <1>3, <1>6, <1>8, <2>1 DEF Inv, InOnePlace
<1> QED
  BY <1>2, <1>3, <1>6, <1>7, <1>8, <1>9 DEF Inv

\* All that is listed goes with the loop.
LEMMA FinalizeDoes ==
  ASSUME StandaloneAssumption, Inv, Finalize
  PROVE  /\ Inv' /\ Listed' = {} /\ loop.current = None /\ loop'.current = None
         /\ io.disposed = {} /\ io'.disposed = {}
         /\ used'.added = used.added /\ used'.released = used.released \cup Listed
<1>1. /\ Released(Listed) /\ io' = [io EXCEPT !.events = <<>>, !.timeouts = <<>>, !.dispatchs = <<>>]
      /\ loop' = [loop EXCEPT !.at = "disposed"]
      /\ program' = program /\ io \in Ios /\ loop \in Loops /\ loop.at = "top" /\ TypeOK
  BY DEF Finalize, Inv, TypeOK
<1>2. loop.current = None /\ io.disposed = {}
  BY <1>1, NobodyCalled
<1>3. Listed \in SUBSET Handles
  BY <1>1, KindsDiffer DEF Handles
<1>4. /\ used' \in Histories /\ used'.added = used.added /\ used'.released = used.released \cup Listed
  BY <1>1, <1>3, ReleasedIs
<1>5. io' \in Ios /\ loop' \in Loops
  <2>1. <<>> \in Seq(Events) /\ <<>> \in Seq(Timeouts) /\ <<>> \in Seq(Dispatches)
    OBVIOUS
  <2>2. io' \in Ios
    BY <1>1, <2>1 DEF Ios
  <2>3. loop' \in Loops
    BY <1>1 DEF Loops
  <2> QED
    BY <2>2, <2>3
<1>6. /\ io'.events = <<>> /\ io'.timeouts = <<>> /\ io'.dispatchs = <<>>
      /\ io'.disposed = {} /\ io'.polling = io.polling
      /\ loop'.current = None /\ loop'.at = "disposed"
  BY <1>1, <1>2 DEF Ios, Loops
<1>7. TypeOK' /\ LoopExact' /\ NoLostWakeup'
  BY <1>1, <1>4, <1>5, <1>6 DEF Inv, TypeOK, LoopExact, NoLostWakeup
<1>8. Listed' = {} /\ ListedOnce'
  <2>1. DOMAIN <<>> = {}
    OBVIOUS
  <2>2. ToSet(<<>>) = {} /\ WatchesOf(<<>>) = {}
    BY <2>1 DEF ToSet, WatchesOf
  <2> QED
    BY <1>6, <2>1, <2>2 DEF Listed, Watched, WatchesOf, ListedOnce, WatchedOnce, Distinct
<1>9. InOnePlace'
  BY <1>4, <1>6, <1>8 DEF Inv, InOnePlace
<1> QED
  BY <1>2, <1>4, <1>6, <1>7, <1>8, <1>9 DEF Inv

------------------------------------------------------------------------------
(* What holds always *)

StepsOfLoop == Start \/ Prepare \/ PollReturns \/ PollTimesOut \/ Interrupted \/ CallNothing
Outside == BecomesReady \/ Elapse \/ UNCHANGED ioVars

\* What the operating system does changes nothing that the loop keeps.
LEMMA OutsideDoes == ASSUME Inv, Outside PROVE Inv' /\ Unseen
<1>1. io' = io /\ loop' = loop /\ used' = used /\ program' = program
  BY DEF Outside, BecomesReady, Elapse, ioVars
<1>2. Listed' = Listed
  BY <1>1 DEF Listed, Watched
<1> QED
  BY <1>1, <1>2 DEF Unseen, Inv, TypeOK, ListedOnce, InOnePlace, LoopExact, NoLostWakeup, Alive

\* Steps of the loop that call nothing preserve the invariant and are not seen.
LEMMA LoopDoes == ASSUME StandaloneAssumption, Inv, StepsOfLoop PROVE Inv' /\ Unseen
BY StartDoes, PrepareDoes, PollReturnsDoes, PollTimesOutDoes, InterruptedDoes, CallNothingDoes
   DEF StepsOfLoop

Adds == \/ \E w \in Watches : AddWatch(w)
        \/ \E t \in Timeouts : AddTimeout(t)
        \/ \E d \in Dispatches : AddDispatch(d)
Removes == \/ \E i \in DOMAIN io.events : RemoveWatch(i)
           \/ \E i \in DOMAIN io.timeouts : RemoveTimeout(i)
           \/ \E i \in DOMAIN io.dispatchs : RemoveDispatch(i)
Changes == Quit \/ \E i \in DOMAIN io.events : UpdateWatch(i)
CallsBack == CallTimeout \/ CallWatch \/ CallDispatch

\* All kinds of steps.
LEMMA StepIs ==
  [Next]_ioVars => Adds \/ Removes \/ Changes \/ CallsBack \/ StepsOfLoop \/ Outside
                     \/ Return \/ Finalize
BY DEF Next, Iterates, Adds, Removes, Changes, CallsBack, StepsOfLoop, Outside

\* Every step preserves the inductive invariant.
LEMMA StepKeeps == ASSUME StandaloneAssumption, Inv, [Next]_ioVars PROVE Inv'
<1>1. CASE Adds
  BY <1>1, AddWatchDoes, AddTimeoutDoes, AddDispatchDoes DEF Adds
<1>2. CASE Removes
  BY <1>2, RemoveWatchDoes, RemoveTimeoutDoes, RemoveDispatchDoes DEF Removes
<1>3. CASE Changes
  BY <1>3, QuitDoes, UpdateWatchDoes DEF Changes
<1>4. CASE CallsBack
  BY <1>4, CallTimeoutDoes, CallWatchDoes, CallDispatchDoes DEF CallsBack
<1>5. CASE StepsOfLoop \/ Outside \/ Return \/ Finalize
  BY <1>5, LoopDoes, OutsideDoes, ReturnDoes, FinalizeDoes
<1> QED
  BY <1>1, <1>2, <1>3, <1>4, <1>5, StepIs

\* It holds at the start.
LEMMA StartsSo == ASSUME StandaloneAssumption, Init PROVE Inv
<1>1. /\ program.flags \subseteq SUBSET Flags /\ Inc \in Nat
      /\ <<>> \in Seq(Events) /\ <<>> \in Seq(Timeouts) /\ <<>> \in Seq(Dispatches)
  <2>1. program \in Programs
    BY DEF Init
  <2>2. program.flags \subseteq SUBSET Flags /\ Inc \in Nat
    BY <2>1 DEF StandaloneAssumption
  <2> QED
    BY <2>2
<1>2. io \in Ios
  BY <1>1 DEF Init, Ios
<1>3. loop \in Loops
  BY <1>1 DEF Init, Loops
<1>4. used \in Histories
  BY DEF Init, Histories
<1>5. DOMAIN <<>> = {}
  OBVIOUS
<1>6. /\ io.events = <<>> /\ io.timeouts = <<>> /\ io.dispatchs = <<>> /\ io.disposed = {}
      /\ io.polling = FALSE /\ loop.at = "start" /\ loop.current = None
      /\ used.added = {} /\ used.released = {}
  BY DEF Init
<1>7. Listed = {} /\ ListedOnce
  BY <1>5, <1>6 DEF Listed, Watched, ToSet, ListedOnce, WatchedOnce, Distinct
<1>8. TypeOK
  BY <1>1, <1>2, <1>3, <1>4 DEF TypeOK
<1>9. InOnePlace /\ LoopExact /\ NoLostWakeup
  BY <1>6, <1>7 DEF InOnePlace, LoopExact, NoLostWakeup
<1> QED
  BY <1>7, <1>8, <1>9 DEF Inv

\* The inductive invariant holds, whatever callbacks and other threads do (inf-standalone-io.c).
THEOREM Invariance == ASSUME StandaloneAssumption PROVE Spec => []Inv
<1>1. Init => Inv
  BY StartsSo
<1>2. Inv /\ [Next]_ioVars => Inv'
  BY StepKeeps
<1> QED
  BY <1>1, <1>2, PTL DEF Spec

\* A loop that sleeps in poll() knows of everything that was added, changed, dispatched or
\* quit: whoever does so while it polls writes to its pipe (inf_standalone_io_wakeup).
THEOREM NoLostWakeupAlways == ASSUME StandaloneAssumption PROVE Spec => []NoLostWakeup
<1>1. Inv => NoLostWakeup
  BY DEF Inv
<1> QED
  BY <1>1, Invariance, PTL

------------------------------------------------------------------------------
(* Refinement of InfIo *)

\* What a handle looks like from outside.
Looks ==
  \A h \in Handles :
    /\ h \notin used.added => HandleState(h) = "new"
    /\ h \in used.released => HandleState(h) = "gone"
    /\ h \in Listed /\ loop.current # h => HandleState(h) = "there"
    /\ loop.current = h /\ h \notin io.disposed => HandleState(h) = "called"
    /\ loop.current = h /\ h \in io.disposed => HandleState(h) = "leaving"

\* The invariant tells how each handle looks.
LEMMA LooksSo == ASSUME StandaloneAssumption PROVE Inv => Looks
<1> SUFFICES ASSUME Inv, NEW h \in Handles PROVE Looks!(h)
  BY DEF Looks
<1>1. h \in used.released \cup Listed => h \in used.added
  BY DEF Inv, InOnePlace
<1>2. h \in Listed => h \notin used.released
  BY DEF Inv, InOnePlace
<1>3. loop.current = h => h \in used.added /\ h \notin used.released
  BY DEF Inv, InOnePlace, StandaloneAssumption
<1> QED
  BY <1>1, <1>2, <1>3 DEF HandleState

\* So it does after a step.
LEMMA LooksSoAfter == ASSUME StandaloneAssumption PROVE Inv' => Looks'
BY LooksSo, PTL

\* One handle looks different, and all others as before.
LEMMA GoesTo ==
  ASSUME NEW h \in Handles, NEW from, NEW to, HandleState(h) = from, HandleState(h)' = to,
         \A k \in Handles \ {h} : HandleState(k)' = HandleState(k)
  PROVE  Abstract!Goes(h, from, to)
BY DEF Abstract!Goes

\* A handle that nothing happens to.
LEMMA Untouched ==
  ASSUME NEW k \in Handles,
         k \in used'.added <=> k \in used.added, k \in used'.released <=> k \in used.released,
         k \in Listed' <=> k \in Listed, k \in io'.disposed <=> k \in io.disposed,
         (loop.current = k)' <=> loop.current = k
  PROVE  HandleState(k)' = HandleState(k)
BY DEF HandleState

\* What is not seen leaves every handle as it looks.
LEMMA UnseenRefines == ASSUME Unseen PROVE \A k \in Handles : HandleState(k)' = HandleState(k)
BY Untouched DEF Unseen

\* Adding is what InfIo calls so.
LEMMA AddRefines ==
  ASSUME StandaloneAssumption, Inv, Inv', NEW h \in Handles, Listed' = Listed \cup {h}, loop' = loop,
         io'.disposed = io.disposed, h \notin used.added, used'.added = used.added \cup {h},
         used'.released = used.released
  PROVE  Abstract!Add(h)
<1>1. \A k \in Handles \ {h} : HandleState(k)' = HandleState(k)
  BY Untouched
<1>2. h # loop.current
  BY DEF Inv, InOnePlace, StandaloneAssumption
<1>3. HandleState(h) = "new" /\ HandleState(h)' = "there"
  BY <1>2, LooksSo, LooksSoAfter DEF Looks
<1> QED
  BY <1>1, <1>3, GoesTo DEF Abstract!Add

\* What is not called is gone when it is removed.
LEMMA RemoveRefines ==
  ASSUME StandaloneAssumption, Inv, Inv', NEW h \in Handles, h \in Listed, Listed' = Listed \ {h},
         loop' = loop, h # loop.current, io'.disposed = io.disposed, used'.added = used.added,
         used'.released = used.released \cup {h}
  PROVE  Abstract!Remove(h)
<1>1. \A k \in Handles \ {h} : HandleState(k)' = HandleState(k)
  BY Untouched
<1>2. HandleState(h) = "there" /\ HandleState(h)' = "gone"
  BY LooksSo, LooksSoAfter DEF Looks
<1> QED
  BY <1>1, <1>2, GoesTo DEF Abstract!Remove

\* A watch that removes itself is leaving until its callback returns.
LEMMA RemoveWatchRefines ==
  ASSUME StandaloneAssumption, Inv, NEW i \in DOMAIN io.events, NEW w, w = io.events[i].watch,
         RemoveWatch(i)
  PROVE  w \in Handles /\ Abstract!Remove(w)
<1>1. /\ Inv' /\ w \in Watches /\ w \in Listed /\ Listed' = Listed \ {w} /\ loop' = loop
      /\ io'.disposed = IF loop.current = w THEN io.disposed \cup {w} ELSE io.disposed
      /\ used'.added = used.added
      /\ used'.released = IF loop.current = w THEN used.released ELSE used.released \cup {w}
  BY RemoveWatchDoes
<1>2. w \in Handles
  BY <1>1 DEF Handles
<1>3. CASE loop.current # w
  BY <1>1, <1>2, <1>3, RemoveRefines
<1>4. CASE loop.current = w
  <2>1. \A k \in Handles \ {w} : HandleState(k)' = HandleState(k)
    BY <1>1, <1>4, Untouched
  <2>2. w \notin io.disposed
    BY <1>1 DEF Inv, InOnePlace
  <2>3. HandleState(w) = "called" /\ HandleState(w)' = "leaving"
    BY <1>1, <1>2, <1>4, <2>2, LooksSo, LooksSoAfter DEF Looks
  <2> QED
    BY <1>1, <1>2, <2>1, <2>3, GoesTo DEF Abstract!Remove
<1> QED
  BY <1>2, <1>3, <1>4

\* Nothing else is called.
LEMMA CallRefines ==
  ASSUME StandaloneAssumption, Inv, Inv', NEW h \in Handles, h \in Listed, loop.at = "back",
         loop'.current = h, Listed' = Listed \/ Listed' = Listed \ {h}, io'.disposed = io.disposed,
         used' = used
  PROVE  Abstract!Call(h)
<1>1. loop.current = None /\ io.disposed = {} /\ None \notin Handles
  BY NobodyCalled DEF StandaloneAssumption
<1>2. \A k \in Handles \ {h} : HandleState(k)' = HandleState(k)
  BY <1>1, Untouched
<1>3. HandleState(h) = "there" /\ HandleState(h)' = "called"
  BY <1>1, LooksSo, LooksSoAfter DEF Looks
<1>4. Abstract!Goes(h, "there", "called")
  BY <1>2, <1>3, GoesTo
<1>5. \A k \in Handles : HandleState(k) \notin {"called", "leaving"}
  BY <1>1 DEF HandleState
<1> QED
  BY <1>4, <1>5 DEF Abstract!Call, Abstract!Handles, Handles

\* One callback runs, of what is there.
LEMMA CallsBackRefines ==
  ASSUME StandaloneAssumption, Inv, CallsBack PROVE \E h \in Handles : Abstract!Call(h)
<1>1. loop.at = "back"
  BY DEF CallsBack, CallTimeout, CallWatch, CallDispatch
<1>2. \E h \in Handles : /\ Inv' /\ h \in Listed /\ loop'.current = h
                         /\ Listed' = Listed \/ Listed' = Listed \ {h}
                         /\ io'.disposed = io.disposed /\ used' = used
  BY CallTimeoutDoes, CallWatchDoes, CallDispatchDoes DEF CallsBack, Handles
<1> QED
  BY <1>1, <1>2, CallRefines

\* A watch is there again, unless it was removed; anything else is gone.
LEMMA ReturnRefines ==
  ASSUME StandaloneAssumption, Inv, NEW h, h = loop.current, Return
  PROVE  h \in Handles /\ Abstract!Return(h)
<1>1. /\ Inv' /\ h \in Handles /\ Listed' = Listed /\ loop'.current = None
      /\ io'.disposed = io.disposed \ {h} /\ used'.added = used.added
      /\ used'.released = IF h \notin Watches \/ h \in io.disposed THEN used.released \cup {h}
                          ELSE used.released
  BY ReturnDoes
<1>2. None \notin Handles
  BY DEF StandaloneAssumption
<1>3. \A k \in Handles \ {h} : HandleState(k)' = HandleState(k)
  BY <1>1, <1>2, Untouched
<1>4. Looks /\ Looks'
  BY <1>1, LooksSo, LooksSoAfter
<1>5. CASE h \in io.disposed
  <2>1. HandleState(h) = "leaving" /\ HandleState(h)' = "gone"
    BY <1>1, <1>4, <1>5 DEF Looks
  <2> QED
    BY <1>1, <1>3, <2>1, GoesTo DEF Abstract!Return
<1>6. CASE h \notin io.disposed /\ h \in Watches
  <2>1. h \in Listed /\ h # None
    BY <1>1, <1>2, <1>6 DEF Inv, InOnePlace
  <2>2. HandleState(h) = "called" /\ HandleState(h)' = "there"
    BY <1>1, <1>4, <1>6, <2>1 DEF Looks
  <2> QED
    BY <1>1, <1>3, <1>6, <2>2, GoesTo DEF Abstract!Return
<1>7. CASE h \notin io.disposed /\ h \notin Watches
  <2>1. HandleState(h) = "called" /\ HandleState(h)' = "gone"
    BY <1>1, <1>4, <1>7 DEF Looks
  <2> QED
    BY <1>1, <1>3, <1>7, <2>1, GoesTo DEF Abstract!Return
<1> QED
  BY <1>1, <1>5, <1>6, <1>7

\* Everything that is still there goes with the loop.
LEMMA FinalizeRefines == ASSUME StandaloneAssumption, Inv, Finalize PROVE Abstract!Finalize
<1>1. /\ Inv' /\ Listed' = {} /\ loop.current = None /\ loop'.current = None
      /\ io.disposed = {} /\ io'.disposed = {}
      /\ used'.added = used.added /\ used'.released = used.released \cup Listed
  BY FinalizeDoes
<1>2. None \notin Handles
  BY DEF StandaloneAssumption
<1>3. \A k \in Handles : HandleState(k)' = IF HandleState(k) = "there" THEN "gone" ELSE HandleState(k)
  <2> SUFFICES ASSUME NEW k \in Handles
               PROVE  HandleState(k)' = IF HandleState(k) = "there" THEN "gone" ELSE HandleState(k)
    OBVIOUS
  <2>1. CASE k \in Listed
    BY <1>1, <1>2, <2>1, LooksSo, LooksSoAfter DEF Looks
  <2>2. CASE k \notin Listed
    <3>1. HandleState(k)' = HandleState(k)
      BY <1>1, <2>2, Untouched
    <3>2. HandleState(k) # "there"
      BY <2>2 DEF HandleState
    <3> QED
      BY <3>1, <3>2
  <2> QED
    BY <2>1, <2>2
<1>4. \A k \in Handles : HandleState(k) \notin {"called", "leaving"}
  BY <1>1, <1>2 DEF HandleState
<1> QED
  BY <1>3, <1>4 DEF Abstract!Finalize, Abstract!Handles, Handles

\* InfStandaloneIo does what InfIo promises: callbacks run one at a time, none after its
\* removal has returned, and data is released once, when no callback uses it
\* (inf_standalone_io_iteration_impl and what adds, changes and removes).
THEOREM Implements == ASSUME StandaloneAssumption PROVE Spec => ImplementsInfIo
<1> DEFINE Mapped == [h \in Handles |-> HandleState(h)]
<1>1. Init => Abstract!Init
  <2>1. Init => \A h \in Handles : HandleState(h) = "new"
    BY DEF Init, HandleState
  <2> QED
    BY <2>1 DEF Abstract!Init, Abstract!Handles, Handles
<1>2. Inv /\ [Next]_ioVars => [Abstract!Next]_Mapped
  <2> SUFFICES ASSUME Inv, [Next]_ioVars PROVE Abstract!Next \/ Mapped' = Mapped
    OBVIOUS
  <2>1. (\A k \in Handles : HandleState(k)' = HandleState(k)) => Mapped' = Mapped
    OBVIOUS
  <2>2. CASE Adds
    <3>1. \E h \in Handles : Abstract!Add(h)
      BY <2>2, AddWatchDoes, AddTimeoutDoes, AddDispatchDoes, AddRefines DEF Adds, Handles
    <3> QED
      BY <3>1 DEF Abstract!Next, Abstract!Handles, Handles
  <2>3. CASE Removes
    <3>1. (\E i \in DOMAIN io.events : RemoveWatch(i)) => \E h \in Handles : Abstract!Remove(h)
      BY RemoveWatchRefines
    <3>2. (\E i \in DOMAIN io.timeouts : RemoveTimeout(i)) => \E h \in Handles : Abstract!Remove(h)
      BY RemoveTimeoutDoes, RemoveRefines DEF Handles
    <3>3. (\E i \in DOMAIN io.dispatchs : RemoveDispatch(i)) => \E h \in Handles : Abstract!Remove(h)
      BY RemoveDispatchDoes, RemoveRefines DEF Handles
    <3> QED
      BY <2>3, <3>1, <3>2, <3>3 DEF Removes, Abstract!Next, Abstract!Handles, Handles
  <2>4. CASE Changes \/ StepsOfLoop \/ Outside
    <3>1. Unseen
      BY <2>4, QuitDoes, UpdateWatchDoes, LoopDoes, OutsideDoes DEF Changes, Unseen
    <3> QED
      BY <2>1, <3>1, UnseenRefines
  <2>5. CASE CallsBack
    BY <2>5, CallsBackRefines DEF Abstract!Next, Abstract!Handles, Handles
  <2>6. CASE Return \/ Finalize
    BY <2>6, ReturnRefines, FinalizeRefines DEF Abstract!Next, Abstract!Handles, Handles
  <2> QED
    BY <2>2, <2>3, <2>4, <2>5, <2>6, StepIs
<1> QED
  BY <1>1, <1>2, Invariance, PTL DEF Spec, ImplementsInfIo, Abstract!Spec
===============================================================================
