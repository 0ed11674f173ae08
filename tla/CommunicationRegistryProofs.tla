--------------------- MODULE CommunicationRegistryProofs ---------------------
(***************************************************************************)
(* For any groups, bounds and size of a bunch: the counters of the         *)
(* registry agree with what is on its way and in the queues, so that the   *)
(* assertions hold and messages are reported to the registration that sent *)
(* them; the messages of a group leave in order, once, and none is lost.   *)
(***************************************************************************)
EXTENDS CommunicationRegistry, FiniteSetTheorems, SequenceTheorems, WellFoundedInduction,
        TLAPS

(* The inductive invariant *)

\* activation_count covers all of what an unregistered group left, and never
\* reaches beyond what there is, unless that was cancelled.
Balanced(g) ==
  /\ ~entry[g].registered =>
       entry[g].activation_count = entry[g].inner_count + Len(entry[g].queue)
  /\ forgotten[g] \/ entry[g].activation_count <= entry[g].inner_count + Len(entry[g].queue)

NotAfter(p, messages) == \A i \in DOMAIN messages : messages[i].period <= p

\* No message is of a registration still to come.
Past(g) ==
  /\ \A k \in DOMAIN wire : wire[k].group = g => NotAfter(period[g], wire[k].messages)
  /\ sending.group = g => NotAfter(period[g], sending.messages)
  /\ NotAfter(period[g], entry[g].queue)

\* While a bunch is reported nothing else of the group is on its way, even if
\* the entry is on the point of being removed.
Alone(g) == sending.group = g =>
  /\ entry[g].inner_count = Len(sending.messages)
  /\ \A k \in DOMAIN wire : wire[k].group # g

GroupInv(g) == /\ Balanced(g) /\ Past(g) /\ Alone(g)
               /\ status = "open" => InnerCountOf(g) /\ ReportsOf(g)

ConnectionInv ==
  /\ status = "open" => registrations = Cardinality(Registered) /\ Permanent \subseteq Registered
  /\ status = "closed" => wire = <<>> /\ sending = Idle /\ Registered = {}
  /\ sending.group = NoGroup => sending = Idle
  /\ calling => sending.messages # <<>>
  /\ \A k \in DOMAIN wire : wire[k].group \in Groups /\ wire[k].messages # <<>>

IInv == /\ TypeOK /\ ~failed /\ ConnectionInv
        /\ \A g \in Groups : GroupInv(g)

------------------------------------------------------------------------------
(* What the operators do to an entry *)

\* A bunch is not empty; together with what it leaves it is the queue.
LEMMA BunchFacts ==
  ASSUME NEW g \in Groups, NEW e \in Entries, e.queue # <<>>
  PROVE  /\ BunchSize(e) \in 1 .. Len(e.queue)
         /\ Bunch(g, e) \in Bunches /\ Bunch(g, e).group = g
         /\ Len(Bunch(g, e).messages) = BunchSize(e) /\ Bunch(g, e).messages # <<>>
         /\ \A i \in 1 .. BunchSize(e) : Bunch(g, e).messages[i] = e.queue[i]
         /\ AfterBunch(e) \in Entries
         /\ AfterBunch(e).registered = e.registered
         /\ AfterBunch(e).activation_count = e.activation_count
         /\ AfterBunch(e).inner_count = e.inner_count + BunchSize(e)
         /\ Len(AfterBunch(e).queue) = Len(e.queue) - BunchSize(e)
         /\ \A i \in 1 .. Len(e.queue) - BunchSize(e) :
              AfterBunch(e).queue[i] = e.queue[BunchSize(e) + i]
<1> DEFINE n == BunchSize(e)
<1>1. e.queue \in Seq(Messages) /\ Len(e.queue) \in Nat \ {0} /\ e.inner_count \in Nat
  BY DEF Entries
<1>2. n \in 1 .. Len(e.queue)
  BY <1>1, RegistryAssumption DEF BunchSize
<1>3. \A i \in 1 .. Len(e.queue) : e.queue[i] \in Messages
  BY <1>1
<1> HIDE DEF n
<1>4. /\ SubSeq(e.queue, 1, n) \in Seq(Messages) /\ Len(SubSeq(e.queue, 1, n)) = n
      /\ \A i \in 1 .. n : SubSeq(e.queue, 1, n)[i] = e.queue[i]
  <2>1. \A i \in 1 .. n : e.queue[i] \in Messages
    BY <1>1, <1>2, <1>3
  <2>2. 1 \in Int /\ n \in Int
    BY <1>1, <1>2
  <2>3. /\ SubSeq(e.queue, 1, n) \in Seq(Messages)
        /\ Len(SubSeq(e.queue, 1, n)) = IF 1 <= n THEN n - 1 + 1 ELSE 0
        /\ \A i \in 1 .. n - 1 + 1 : SubSeq(e.queue, 1, n)[i] = e.queue[1 + i - 1]
    BY <2>1, <2>2, SubSeqProperties
  <2> QED BY <1>1, <1>2, <2>3
<1>5. /\ SubSeq(e.queue, n + 1, Len(e.queue)) \in Seq(Messages)
      /\ Len(SubSeq(e.queue, n + 1, Len(e.queue))) = Len(e.queue) - n
      /\ \A i \in 1 .. Len(e.queue) - n :
           SubSeq(e.queue, n + 1, Len(e.queue))[i] = e.queue[n + i]
  <2> DEFINE m == n + 1
             l == Len(e.queue)
  <2>1. m \in Int /\ l \in Int /\ \A i \in m .. l : e.queue[i] \in Messages
    BY <1>1, <1>2, <1>3
  <2> HIDE DEF m, l
  <2>2. /\ SubSeq(e.queue, m, l) \in Seq(Messages)
        /\ Len(SubSeq(e.queue, m, l)) = IF m <= l THEN l - m + 1 ELSE 0
        /\ \A i \in 1 .. l - m + 1 : SubSeq(e.queue, m, l)[i] = e.queue[m + i - 1]
    BY <2>1, SubSeqProperties
  <2>3. /\ l - m + 1 = l - n /\ (~(m <= l) => l - n = 0)
        /\ \A i \in 1 .. l - n : m + i - 1 = n + i
    BY <1>1, <1>2 DEF m, l
  <2>4. Len(SubSeq(e.queue, m, l)) = l - n
    BY <2>1, <2>2, <2>3
  <2> QED BY <2>2, <2>3, <2>4 DEF m, l
<1>6. Bunch(g, e) = [group |-> g, messages |-> SubSeq(e.queue, 1, n)]
  BY DEF Bunch, n
<1>7. AfterBunch(e) = [e EXCEPT !.queue = SubSeq(@, n + 1, Len(@)), !.inner_count = @ + n]
  BY DEF AfterBunch, n
<1>8. /\ AfterBunch(e) \in Entries
      /\ AfterBunch(e).registered = e.registered
      /\ AfterBunch(e).activation_count = e.activation_count
      /\ AfterBunch(e).inner_count = e.inner_count + n
      /\ AfterBunch(e).queue = SubSeq(e.queue, n + 1, Len(e.queue))
  <2> DEFINE rest == SubSeq(e.queue, n + 1, Len(e.queue))
             count == e.inner_count + n
  <2>1. rest \in Seq(Messages) /\ count \in Nat
    BY <1>1, <1>2, <1>5
  <2>2. AfterBunch(e) = [e EXCEPT !.queue = rest, !.inner_count = count]
    BY <1>7
  <2> HIDE DEF rest, count
  <2>3. AfterBunch(e) \in Entries /\ AfterBunch(e).queue = rest /\ AfterBunch(e).inner_count = count
    BY <2>1, <2>2 DEF Entries
  <2>4. /\ AfterBunch(e).registered = e.registered
        /\ AfterBunch(e).activation_count = e.activation_count
    BY <2>2 DEF Entries
  <2> QED BY <2>3, <2>4 DEF rest, count
<1>9. Bunch(g, e) \in Bunches /\ Bunch(g, e).messages # <<>>
  BY <1>2, <1>4, <1>6 DEF Bunches
<1> QED BY <1>2, <1>4, <1>5, <1>6, <1>8, <1>9 DEF n

------------------------------------------------------------------------------
(* What a step of one group leaves of the others *)

\* The bunches of group h on the wire are those of before.
SameOnWire(h) ==
  /\ \A k \in DOMAIN wire' : wire'[k].group = h => k \in DOMAIN wire /\ wire'[k] = wire[k]
  /\ \A k \in DOMAIN wire : wire[k].group = h => k \in DOMAIN wire' /\ wire'[k] = wire[k]

LEMMA AppendOther ==
  ASSUME NEW h \in Groups, wire \in Seq(Bunches), NEW b \in Bunches, b.group # h,
         wire' = Append(wire, b)
  PROVE  SameOnWire(h)
<1>1. DOMAIN wire' = 1 .. Len(wire) + 1 /\ DOMAIN wire = 1 .. Len(wire) /\ Len(wire) \in Nat
  OBVIOUS
<1>2. \A k \in 1 .. Len(wire) : wire'[k] = wire[k]
  OBVIOUS
<1>3. wire'[Len(wire) + 1] = b
  OBVIOUS
<1>4. \A k \in DOMAIN wire' : k \in 1 .. Len(wire) \/ k = Len(wire) + 1
  BY <1>1
<1> QED BY <1>1, <1>2, <1>3, <1>4 DEF SameOnWire

\* Nothing that concerns group h has changed.
LEMMA Frame ==
  ASSUME NEW h \in Groups, GroupInv(h), SameOnWire(h),
         entry'[h] = entry[h], period'[h] = period[h], forgotten'[h] = forgotten[h],
         status' = status,
         sending' = sending \/ (sending.group # h /\ sending'.group # h)
  PROVE  GroupInv(h)'
<1>1. Balanced(h)'
  BY DEF GroupInv, Balanced
<1>2. Past(h)'
  BY DEF GroupInv, Past, NotAfter, SameOnWire
<1>3. Alone(h)'
  BY DEF GroupInv, Alone, SameOnWire
<1>4. ASSUME status' = "open" PROVE InnerCountOf(h)'
  BY <1>4 DEF GroupInv, InnerCountOf, SameOnWire, Pending
<1>5. ASSUME status' = "open" PROVE ReportsOf(h)'
  BY <1>5 DEF GroupInv, ReportsOf, AllRightly, ReportedRightly, SameOnWire
<1> QED BY <1>1, <1>2, <1>3, <1>4, <1>5 DEF GroupInv

------------------------------------------------------------------------------
(* A bunch goes out *)

\* Entry e, of which nothing is on its way, hands a bunch to the connection.
LEMMA BunchGoes ==
  ASSUME NEW g \in Groups, NEW e \in Entries, e.inner_count = 0, e.queue # <<>>,
         TypeOK, ConnectionInv, Past(g),
         \A k \in DOMAIN wire : wire[k].group # g,
         entry' = [entry EXCEPT ![g] = AfterBunch(e)],
         wire' = Append(wire, Bunch(g, e)),
         sending'.group # g,
         period' = period, forgotten' = forgotten,
         ~e.registered => e.activation_count = Len(e.queue),
         forgotten[g] \/ e.activation_count <= Len(e.queue),
         NotAfter(period[g], e.queue),
         status' = "open" => \A i \in DOMAIN e.queue :
           LET present == e.registered /\ e.queue[i].period = period[g]
           IN  /\ i > e.activation_count => present
               /\ i <= e.activation_count => ~present \/ forgotten[g]
  PROVE  GroupInv(g)'
<1> DEFINE b == Bunch(g, e)
           n == BunchSize(e)
           a == AfterBunch(e)
<1>1. /\ n \in 1 .. Len(e.queue) /\ b \in Bunches /\ b.group = g
      /\ Len(b.messages) = n /\ b.messages # <<>>
      /\ \A i \in 1 .. n : b.messages[i] = e.queue[i]
      /\ a \in Entries /\ a.registered = e.registered
      /\ a.activation_count = e.activation_count /\ a.inner_count = n
      /\ Len(a.queue) = Len(e.queue) - n
      /\ \A i \in 1 .. Len(e.queue) - n : a.queue[i] = e.queue[n + i]
  BY BunchFacts DEF Entries
<1>2. /\ Len(e.queue) \in Nat /\ n \in Nat /\ e.activation_count \in Nat
      /\ DOMAIN e.queue = 1 .. Len(e.queue) /\ DOMAIN a.queue = 1 .. Len(e.queue) - n
      /\ DOMAIN b.messages = 1 .. n
  BY <1>1 DEF Entries, Bunches
<1> HIDE DEF b, n, a
<1>3. entry'[g] = a /\ wire' = Append(wire, b)
  BY DEF TypeOK, a, b
<1>4. /\ wire \in Seq(Bunches) /\ DOMAIN wire' = 1 .. Len(wire) + 1 /\ Len(wire) \in Nat
      /\ \A k \in 1 .. Len(wire) : wire'[k] = wire[k] /\ wire'[k].group # g
      /\ wire'[Len(wire) + 1] = b
  BY <1>1, <1>3 DEF TypeOK
<1>5. /\ \A k \in DOMAIN wire' : wire'[k].group = g => wire'[k] = b /\ k = Len(wire) + 1
      /\ Len(wire) + 1 \in DOMAIN wire'
  BY <1>4
<1>6. Balanced(g)'
  BY <1>1, <1>2, <1>3 DEF Balanced
<1>7. \A i \in DOMAIN a.queue :
         a.queue[i] = e.queue[n + i] /\ n + i \in DOMAIN e.queue /\ i \in Nat
  BY <1>1, <1>2
<1>8. \A i \in DOMAIN b.messages : b.messages[i] = e.queue[i] /\ i \in DOMAIN e.queue
  BY <1>1, <1>2
<1>9. Past(g)'
  <2>1. NotAfter(period[g], entry[g].queue)'
    BY <1>3, <1>7 DEF NotAfter
  <2>2. NotAfter(period[g], b.messages)'
    BY <1>8 DEF NotAfter
  <2> QED BY <1>5, <2>1, <2>2 DEF Past
<1>10. Alone(g)'
  BY DEF Alone
<1>11. InnerCountOf(g)'
  BY <1>1, <1>3, <1>4, <1>5 DEF InnerCountOf
<1>12. ASSUME status' = "open" PROVE ReportsOf(g)'
  <2>1. AllRightly(g, 0, b.messages)'
    <3>1. SUFFICES ASSUME NEW i \in DOMAIN b.messages
                   PROVE  ReportedRightly(g, 0 + i, b.messages[i])'
      BY <1>3 DEF AllRightly
    <3>2. i \in DOMAIN e.queue /\ b.messages[i] = e.queue[i] /\ 0 + i = i
      BY <1>2, <1>8
    <3> QED BY <1>1, <1>3, <1>12, <3>2 DEF ReportedRightly
  <2>2. AllRightly(g, entry[g].inner_count, entry[g].queue)'
    <3>1. SUFFICES ASSUME NEW i \in DOMAIN a.queue
                   PROVE  ReportedRightly(g, n + i, a.queue[i])'
      BY <1>1, <1>3 DEF AllRightly
    <3>2. n + i \in DOMAIN e.queue /\ a.queue[i] = e.queue[n + i] /\ n + i \in Nat
      BY <1>2, <1>7
    <3> QED BY <1>1, <1>3, <1>12, <3>2 DEF ReportedRightly
  <2> QED BY <1>5, <2>1, <2>2 DEF ReportsOf
<1> QED BY <1>6, <1>9, <1>10, <1>11, <1>12 DEF GroupInv

------------------------------------------------------------------------------
(* The steps *)

\* What the type and the connection's invariant say of one group.
LEMMA OfGroup ==
  ASSUME IInv, NEW g \in Groups
  PROVE  /\ entry[g] \in Entries /\ entry[g].registered \in BOOLEAN
         /\ entry[g].inner_count \in Nat /\ entry[g].activation_count \in Nat
         /\ entry[g].queue \in Seq(Messages) /\ Len(entry[g].queue) \in Nat
         /\ sending \in Bunches /\ sending.messages \in Seq(Messages)
         /\ period[g] \in Nat /\ forgotten[g] \in BOOLEAN /\ g # NoGroup
         /\ GroupInv(g)
<1>1. TypeOK /\ GroupInv(g)
  BY DEF IInv
<1>2. entry[g] \in Entries /\ sending \in Bunches /\ period[g] \in Nat /\ forgotten[g] \in BOOLEAN
  BY <1>1 DEF TypeOK
<1>3. sending.messages \in Seq(Messages)
  BY <1>2 DEF Bunches
<1>4. /\ entry[g].registered \in BOOLEAN
      /\ entry[g].inner_count \in Nat /\ entry[g].activation_count \in Nat
      /\ entry[g].queue \in Seq(Messages) /\ Len(entry[g].queue) \in Nat
  BY <1>2 DEF Entries
<1> QED BY <1>1, <1>2, <1>3, <1>4, RegistryAssumption

LEMMA MessageTypes ==
  ASSUME NEW messages \in Seq(Messages), NEW i \in DOMAIN messages
  PROVE  i \in Nat /\ i <= Len(messages) /\ Len(messages) \in Nat
         /\ messages[i] \in Messages /\ messages[i].period \in Nat
<1>1. i \in 1 .. Len(messages) /\ messages[i] \in Messages /\ Len(messages) \in Nat
  OBVIOUS
<1>2. messages[i].period \in Nat
  BY <1>1 DEF Messages
<1> QED BY <1>1, <1>2

LEMMA WireTypes ==
  ASSUME wire \in Seq(Bunches), NEW k \in DOMAIN wire
  PROVE  wire[k] \in Bunches /\ wire[k].messages \in Seq(Messages)
<1>1. wire[k] \in Bunches
  OBVIOUS
<1> QED BY <1>1 DEF Bunches

\* While the registry may be called, a group of which a bunch is on its way
\* has an entry that counts it.
LEMMA OnItsWay ==
  ASSUME IInv, MayCall, status = "open", NEW g \in Groups, entry[g].inner_count = 0
  PROVE  /\ sending.group # g
         /\ entry[g] # NoEntry => /\ \A k \in DOMAIN wire : wire[k].group # g
                                  /\ entry[g].queue = <<>>
<1>1. GroupInv(g) /\ sending.messages \in Seq(Messages) /\ g # NoGroup
  BY OfGroup
<1>2. sending.group # g
  <2>1. CASE sending = Idle
    BY <1>1, <2>1 DEF Idle
  <2>2. CASE calling
    <3>1. sending.messages # <<>>
      BY <2>2 DEF IInv, ConnectionInv
    <3>2. Len(sending.messages) # 0
      BY <1>1, <3>1
    <3> QED BY <1>1, <3>2 DEF GroupInv, Alone
  <2> QED BY <2>1, <2>2 DEF MayCall
<1>3. ASSUME entry[g] # NoEntry, NEW k \in DOMAIN wire PROVE wire[k].group # g
  <2>1. wire[k] \in Bunches /\ wire[k].messages # <<>>
    BY <1>3 DEF IInv, TypeOK, ConnectionInv
  <2>2. Len(wire[k].messages) # 0
    BY <2>1 DEF Bunches
  <2> QED BY <1>1, <1>3, <2>2 DEF GroupInv, InnerCountOf
<1>4. ASSUME entry[g] # NoEntry PROVE entry[g].queue = <<>>
  BY <1>1, <1>2, <1>3, <1>4 DEF GroupInv, InnerCountOf, Pending
<1> QED BY <1>2, <1>3, <1>4

LEMMA Emptied ==
  ASSUME NEW x \in Entries, NEW e, e = [x EXCEPT !.queue = <<>>]
  PROVE  /\ e \in Entries /\ e.queue = <<>> /\ e.registered = x.registered
         /\ e.inner_count = x.inner_count
         /\ e.activation_count = x.activation_count
<1>1. <<>> \in Seq(Messages)
  OBVIOUS
<1> QED BY <1>1 DEF Entries

LEMMA CancelStep ==
  ASSUME IInv, NEW g \in Groups, CancelMessages(g)
  PROVE  IInv'
<1> DEFINE e == [entry[g] EXCEPT !.queue = <<>>]
<1>1. /\ entry[g] \in Entries /\ entry[g].inner_count \in Nat
      /\ entry[g].activation_count \in Nat /\ GroupInv(g) /\ entry[g].registered
      /\ forgotten[g] \in BOOLEAN
  BY OfGroup DEF CancelMessages
<1>2. /\ e \in Entries /\ e.queue = <<>> /\ e.registered
      /\ e.inner_count = entry[g].inner_count
      /\ e.activation_count = entry[g].activation_count
  BY <1>1, Emptied
<1> HIDE DEF e
<1>3. /\ entry' = [entry EXCEPT ![g] = e] /\ entry \in [Groups -> Entries]
      /\ forgotten \in [Groups -> BOOLEAN]
  BY DEF CancelMessages, IInv, TypeOK, e
<1>4. TypeOK'
  BY <1>2, <1>3 DEF IInv, TypeOK, CancelMessages
<1>5. Registered' = Registered
  BY <1>1, <1>2, <1>3 DEF Registered
<1>6. ConnectionInv'
  BY <1>5 DEF IInv, ConnectionInv, CancelMessages
<1>7. GroupInv(g)'
  <2>1. entry'[g] = e /\ e # NoEntry /\ entry[g] # NoEntry
    BY <1>1, <1>2, <1>3 DEF NoEntry
  <2>2. forgotten'[g] = (forgotten[g] \/ entry[g].activation_count > entry[g].inner_count)
    BY <1>3 DEF CancelMessages
  <2>3. Balanced(g)'
    <3>1. Len(e.queue) = 0 /\ e.inner_count + Len(e.queue) = entry[g].inner_count
      BY <1>1, <1>2
    <3>2. \/ e.activation_count <= e.inner_count + Len(e.queue)
          \/ entry[g].activation_count > entry[g].inner_count
      BY <1>1, <1>2, <3>1
    <3> QED BY <1>2, <2>1, <2>2, <3>2 DEF Balanced
  <2>4. Past(g)'
    BY <1>1, <1>2, <2>1 DEF GroupInv, Past, NotAfter, CancelMessages
  <2>5. Alone(g)'
    BY <1>1, <1>2, <2>1 DEF GroupInv, Alone, CancelMessages
  <2>6. ASSUME status' = "open" PROVE InnerCountOf(g)'
    BY <1>1, <1>2, <2>1, <2>6 DEF GroupInv, InnerCountOf, Pending, CancelMessages
  <2>7. ASSUME status' = "open" PROVE ReportsOf(g)'
    BY <1>1, <1>2, <2>1, <2>2, <2>7
       DEF GroupInv, ReportsOf, AllRightly, ReportedRightly, CancelMessages
  <2> QED BY <2>3, <2>4, <2>5, <2>6, <2>7 DEF GroupInv
<1>8. ASSUME NEW h \in Groups, h # g PROVE GroupInv(h)'
  <2>1. SameOnWire(h) /\ GroupInv(h)
    BY DEF IInv, CancelMessages, SameOnWire
  <2>2. entry'[h] = entry[h] /\ forgotten'[h] = forgotten[h]
    BY <1>3, <1>8 DEF CancelMessages
  <2>3. period'[h] = period[h] /\ status' = status /\ sending' = sending
    BY DEF CancelMessages
  <2> QED BY <2>1, <2>2, <2>3, Frame
<1> QED BY <1>4, <1>6, <1>7, <1>8 DEF IInv, CancelMessages

\* The groups that are registered are finitely many, some while it is open.
LEMMA RegisteredFinite ==
  ASSUME IInv
  PROVE  /\ IsFiniteSet(Registered) /\ Cardinality(Registered) \in Nat
         /\ status = "open" => Registered # {} /\ Listening
<1>1. IsFiniteSet(Registered)
  BY RegistryAssumption, FS_Subset DEF Registered
<1>2. Cardinality(Registered) \in Nat
  BY <1>1, FS_CardinalityType
<1>3. ASSUME status = "open" PROVE Registered # {}
  BY <1>3, RegistryAssumption DEF IInv, ConnectionInv
<1>4. Cardinality(Registered) = 0 => Registered = {}
  BY <1>1, FS_EmptySet
<1>5. ASSUME status = "open" PROVE registrations > 0
  BY <1>2, <1>3, <1>4, <1>5 DEF IInv, ConnectionInv
<1> QED BY <1>1, <1>2, <1>3, <1>5 DEF Listening

LEMMA Activated ==
  ASSUME NEW x \in Entries, NEW e, e = [x EXCEPT !.registered = TRUE]
  PROVE  /\ e \in Entries /\ e.queue = x.queue /\ e.registered
         /\ e.inner_count = x.inner_count
         /\ e.activation_count = x.activation_count
BY DEF Entries

LEMMA RegisterStep ==
  ASSUME IInv, NEW g \in Groups, Register(g)
  PROVE  IInv'
<1> DEFINE e == [entry[g] EXCEPT !.registered = TRUE]
<1>1. /\ entry[g] \in Entries /\ entry[g].inner_count \in Nat
      /\ entry[g].activation_count \in Nat /\ GroupInv(g) /\ ~entry[g].registered
      /\ period[g] \in Nat /\ Len(entry[g].queue) \in Nat
      /\ sending.messages \in Seq(Messages)
      /\ MayCall /\ status = "open" /\ status' = "open" /\ wire' = wire /\ sending' = sending
  BY OfGroup DEF Register
<1>2. /\ e \in Entries /\ e.queue = entry[g].queue /\ e.registered
      /\ e.inner_count = entry[g].inner_count
      /\ e.activation_count = entry[g].activation_count
  BY <1>1, Activated
<1> HIDE DEF e
<1>3. /\ entry' = [entry EXCEPT ![g] = e] /\ entry \in [Groups -> Entries]
      /\ entry'[g] = e /\ period'[g] = period[g] + 1 /\ forgotten'[g] = FALSE
  BY DEF Register, IInv, TypeOK, e
<1>4. registrations' = Cardinality(Registered')
  <2>1. Registered' = Registered \cup {g} /\ g \notin Registered
    BY <1>1, <1>2, <1>3 DEF Registered
  <2>2. Cardinality(Registered \cup {g}) = Cardinality(Registered) + 1
    BY <2>1, RegisteredFinite, FS_AddElement
  <2> QED BY <1>1, <2>1, <2>2 DEF Register, IInv, ConnectionInv
<1>5. TypeOK'
  <2>1. registrations + 1 \in Nat /\ period[g] + 1 \in Nat
    BY <1>1 DEF IInv, TypeOK
  <2>2. first' \in Groups \cup {NoGroup}
    BY DEF Register, IInv, TypeOK
  <2>3. entry' \in [Groups -> Entries]
    BY <1>2, <1>3
  <2>4. period' \in [Groups -> Nat] /\ forgotten' \in [Groups -> BOOLEAN]
    BY <2>1 DEF Register, IInv, TypeOK
  <2> QED BY <2>1, <2>2, <2>3, <2>4 DEF IInv, TypeOK, Register
<1>6. ConnectionInv'
  <2>1. Registered \subseteq Registered'
    BY <1>1, <1>2, <1>3 DEF Registered
  <2> QED BY <1>1, <1>4, <2>1 DEF IInv, ConnectionInv, Register
<1>7. e # NoEntry
  BY <1>2 DEF NoEntry
<1>8. entry[g] = NoEntry => /\ \A k \in DOMAIN wire : wire[k].group # g
                           /\ sending.group # g
                           /\ ~Pending(entry[g])
  <2>1. ASSUME entry[g] = NoEntry PROVE \A k \in DOMAIN wire : wire[k].group # g
    BY <2>1 DEF Register, Settled
  <2>2. ASSUME entry[g] = NoEntry PROVE entry[g].inner_count = 0 /\ ~Pending(entry[g])
    BY <2>2 DEF NoEntry, Pending
  <2> QED BY <1>1, <2>1, <2>2, OnItsWay
<1>9. InnerCountOf(g)
  BY <1>1 DEF GroupInv
<1>10. Balanced(g)'
  BY <1>1, <1>2, <1>3 DEF GroupInv, Balanced
<1>11. Past(g)'
  <2>1. \A messages \in Seq(Messages) :
          NotAfter(period[g], messages) => NotAfter(period[g] + 1, messages)
    BY <1>1, MessageTypes DEF NotAfter
  <2>2. /\ \A k \in DOMAIN wire : wire[k].messages \in Seq(Messages)
        /\ entry[g].queue \in Seq(Messages)
    BY OfGroup, WireTypes DEF IInv, TypeOK
  <2> QED BY <1>1, <1>2, <1>3, <2>1, <2>2 DEF GroupInv, Past
<1>12. Alone(g)'
  BY <1>1, <1>2, <1>3 DEF GroupInv, Alone
<1>13. InnerCountOf(g)'
  <2>1. CASE entry[g] = NoEntry
    BY <1>1, <1>2, <1>3, <1>8, <2>1 DEF InnerCountOf, Pending
  <2>2. CASE entry[g] # NoEntry
    BY <1>1, <1>2, <1>3, <1>9, <2>2 DEF InnerCountOf, Pending
  <2> QED BY <2>1, <2>2
\* Whatever there is was sent before, and activation_count covers it.
<1>14. ReportsOf(g)'
  <2>1. ASSUME NEW before \in Nat, NEW messages \in Seq(Messages),
               NotAfter(period[g], messages),
               before + Len(messages) <= entry[g].inner_count + Len(entry[g].queue)
        PROVE  AllRightly(g, before, messages)'
    <3>1. SUFFICES ASSUME NEW i \in DOMAIN messages
                   PROVE  ReportedRightly(g, before + i, messages[i])'
      BY DEF AllRightly
    <3>2. i \in Nat /\ i <= Len(messages) /\ messages[i].period \in Nat
      BY MessageTypes
    <3>3. e.activation_count = entry[g].inner_count + Len(entry[g].queue)
      BY <1>1, <1>2 DEF GroupInv, Balanced
    <3>4. before + i <= e.activation_count /\ ~(before + i > e.activation_count)
      BY <1>1, <2>1, <3>2, <3>3, MessageTypes
    <3>5. messages[i].period # period'[g]
      BY <1>1, <1>3, <2>1, <3>2 DEF NotAfter
    <3> QED BY <1>3, <3>4, <3>5 DEF ReportedRightly
  <2>2. ASSUME NEW k \in DOMAIN wire, wire[k].group = g
        PROVE  AllRightly(g, 0, wire[k].messages)'
    <3>1. wire[k].messages \in Seq(Messages) /\ NotAfter(period[g], wire[k].messages)
      BY <1>1, <2>2, WireTypes DEF IInv, TypeOK, GroupInv, Past
    <3>2. Len(wire[k].messages) = entry[g].inner_count
      BY <1>8, <1>9, <2>2 DEF InnerCountOf
    <3>3. 0 \in Nat /\ 0 + Len(wire[k].messages) <= entry[g].inner_count + Len(entry[g].queue)
      BY <1>1, <3>2
    <3> QED BY <1>1, <2>1, <3>1, <3>3
  <2>3. ASSUME sending.group = g PROVE AllRightly(g, 0, sending.messages)'
    <3>1. NotAfter(period[g], sending.messages) /\ Len(sending.messages) = entry[g].inner_count
      BY <1>1, <2>3 DEF GroupInv, Past, Alone
    <3>2. 0 \in Nat /\ 0 + Len(sending.messages) <= entry[g].inner_count + Len(entry[g].queue)
      BY <1>1, <3>1
    <3> QED BY <1>1, <2>1, <3>1, <3>2
  <2>4. AllRightly(g, entry[g].inner_count, entry[g].queue)'
    <3>1. NotAfter(period[g], entry[g].queue) /\ entry[g].queue \in Seq(Messages)
      BY <1>1, OfGroup DEF GroupInv, Past
    <3>2. entry[g].inner_count + Len(entry[g].queue) <= entry[g].inner_count + Len(entry[g].queue)
      BY <1>1
    <3> QED BY <1>1, <1>2, <1>3, <2>1, <3>1, <3>2
  <2> QED BY <1>1, <2>2, <2>3, <2>4 DEF ReportsOf
<1>15. ASSUME NEW h \in Groups, h # g PROVE GroupInv(h)'
  <2>1. SameOnWire(h) /\ GroupInv(h)
    BY <1>1 DEF IInv, SameOnWire
  <2>2. /\ entry'[h] = entry[h] /\ forgotten'[h] = forgotten[h]
        /\ period'[h] = period[h] /\ status' = status
    BY <1>3, <1>15 DEF Register, IInv, TypeOK
  <2> QED BY <1>1, <2>1, <2>2, Frame
<1>16. GroupInv(g)'
  BY <1>10, <1>11, <1>12, <1>13, <1>14 DEF GroupInv
<1> QED BY <1>5, <1>6, <1>15, <1>16 DEF IInv, Register

LEMMA Deactivated ==
  ASSUME NEW x \in Entries, NEW e,
         e = [x EXCEPT !.registered = FALSE,
                       !.activation_count = x.inner_count + Len(x.queue)]
  PROVE  /\ e \in Entries /\ e.queue = x.queue /\ ~e.registered
         /\ e.inner_count = x.inner_count
         /\ e.activation_count = x.inner_count + Len(x.queue)
<1>1. x.inner_count + Len(x.queue) \in Nat
  BY DEF Entries
<1> QED BY <1>1 DEF Entries

LEMMA NoEntryType == NoEntry \in Entries
<1>1. <<>> \in Seq(Messages) /\ 0 \in Nat
  OBVIOUS
<1> QED BY <1>1 DEF NoEntry, Entries

LEMMA UnregisterStep ==
  ASSUME IInv, NEW g \in Groups, Unregister(g)
  PROVE  IInv'
<1> DEFINE x == entry[g]
           e == [x EXCEPT !.registered = FALSE,
                          !.activation_count = x.inner_count + Len(x.queue)]
           y == IF Pending(x) THEN e ELSE NoEntry
<1>1. /\ x \in Entries /\ x.inner_count \in Nat /\ x.queue \in Seq(Messages)
      /\ x.activation_count \in Nat /\ GroupInv(g) /\ x.registered
      /\ Len(x.queue) \in Nat /\ sending.messages \in Seq(Messages)
      /\ MayCall /\ status = "open" /\ status' = "open" /\ wire' = wire /\ sending' = sending
      /\ period' = period /\ forgotten' = forgotten
  BY OfGroup DEF Unregister
<1>2. /\ e \in Entries /\ e.queue = x.queue /\ ~e.registered
      /\ e.inner_count = x.inner_count
      /\ e.activation_count = x.inner_count + Len(x.queue)
  <2>1. e = [x EXCEPT !.registered = FALSE, !.activation_count = x.inner_count + Len(x.queue)]
    OBVIOUS
  <2> HIDE DEF e, x
  <2> QED BY <1>1, <2>1, Deactivated
<1>3. entry' = [entry EXCEPT ![g] = y] /\ entry \in [Groups -> Entries]
  BY DEF Unregister, IInv, TypeOK
<1> HIDE DEF e
<1>4. /\ y \in Entries /\ ~y.registered /\ y.queue = x.queue
      /\ y.inner_count = x.inner_count
      /\ y.activation_count = x.inner_count + Len(x.queue)
  <2>1. CASE Pending(x)
    BY <1>2, <2>1
  <2>2. CASE ~Pending(x)
    <3>1. x.queue = <<>> /\ x.inner_count = 0 /\ Len(x.queue) = 0
      BY <1>1, <2>2 DEF Pending
    <3> QED BY <2>2, <3>1, NoEntryType DEF NoEntry
  <2> QED BY <2>1, <2>2
<1> HIDE DEF y
<1>5. entry'[g] = y
  BY <1>3
<1>6. registrations' = Cardinality(Registered') /\ Cardinality(Registered') \in Nat
  <2>1. Registered' = Registered \ {g} /\ g \in Registered
    BY <1>1, <1>3, <1>4 DEF Registered
  <2>2. /\ Cardinality(Registered \ {g}) = Cardinality(Registered) - 1
        /\ IsFiniteSet(Registered \ {g})
    BY <2>1, RegisteredFinite, FS_RemoveElement
  <2>3. Cardinality(Registered \ {g}) \in Nat
    BY <2>2, FS_CardinalityType
  <2> QED BY <1>1, <2>1, <2>2, <2>3 DEF Unregister, IInv, ConnectionInv
<1>7. TypeOK'
  <2>1. entry' \in [Groups -> Entries]
    BY <1>3, <1>4
  <2>2. first' \in Groups \cup {NoGroup}
    BY DEF Unregister, IInv, TypeOK
  <2> QED BY <1>6, <2>1, <2>2 DEF IInv, TypeOK, Unregister
<1>8. ConnectionInv'
  <2>1. Permanent \subseteq Registered'
    <3>1. Permanent \subseteq Registered /\ g \notin Permanent
      BY <1>1 DEF IInv, ConnectionInv, Unregister
    <3> QED BY <1>3, <3>1 DEF Registered
  <2> QED BY <1>1, <1>6, <2>1 DEF IInv, ConnectionInv, Unregister
<1>9. x # NoEntry
  BY <1>1 DEF NoEntry
<1>10. Balanced(g)'
  BY <1>1, <1>4, <1>5 DEF Balanced
<1>11. Past(g)'
  BY <1>1, <1>4, <1>5 DEF GroupInv, Past
<1>12. Alone(g)'
  BY <1>1, <1>4, <1>5 DEF GroupInv, Alone
<1>13. InnerCountOf(g)'
  BY <1>1, <1>4, <1>5, <1>9 DEF GroupInv, InnerCountOf, Pending
\* activation_count covers all there is, and the group is not registered.
<1>14. ReportsOf(g)'
  <2>1. ASSUME NEW before \in Nat, NEW messages \in Seq(Messages),
               before + Len(messages) <= x.inner_count + Len(x.queue)
        PROVE  AllRightly(g, before, messages)'
    <3>1. SUFFICES ASSUME NEW i \in DOMAIN messages
                   PROVE  ReportedRightly(g, before + i, messages[i])'
      BY DEF AllRightly
    <3>2. ~(before + i > y.activation_count)
      BY <1>1, <1>4, <2>1, MessageTypes
    <3> QED BY <1>4, <1>5, <3>2 DEF ReportedRightly
  <2>2. ASSUME NEW k \in DOMAIN wire, wire[k].group = g
        PROVE  AllRightly(g, 0, wire[k].messages)'
    <3>1. wire[k].messages \in Seq(Messages)
      BY <2>2, WireTypes DEF IInv, TypeOK
    <3>2. Len(wire[k].messages) = x.inner_count
      BY <1>1, <1>9, <2>2 DEF GroupInv, InnerCountOf
    <3>3. 0 \in Nat /\ 0 + Len(wire[k].messages) <= x.inner_count + Len(x.queue)
      BY <1>1, <3>2
    <3> QED BY <1>1, <2>1, <3>1, <3>3
  <2>3. ASSUME sending.group = g PROVE AllRightly(g, 0, sending.messages)'
    <3>1. Len(sending.messages) = x.inner_count
      BY <1>1, <2>3 DEF GroupInv, Alone
    <3>2. 0 \in Nat /\ 0 + Len(sending.messages) <= x.inner_count + Len(x.queue)
      BY <1>1, <3>1
    <3> QED BY <1>1, <2>1, <3>2
  <2>4. AllRightly(g, entry[g].inner_count, entry[g].queue)'
    <3>1. x.inner_count + Len(x.queue) <= x.inner_count + Len(x.queue)
      BY <1>1
    <3> QED BY <1>1, <1>4, <1>5, <2>1, <3>1
  <2> QED BY <1>1, <2>2, <2>3, <2>4 DEF ReportsOf
<1>15. ASSUME NEW h \in Groups, h # g PROVE GroupInv(h)'
  <2>1. SameOnWire(h) /\ GroupInv(h)
    BY <1>1 DEF IInv, SameOnWire
  <2>2. entry'[h] = entry[h]
    BY <1>3, <1>15
  <2>3. status' = status /\ forgotten'[h] = forgotten[h] /\ period'[h] = period[h]
    BY <1>1
  <2> QED BY <1>1, <2>1, <2>2, <2>3, Frame
<1>16. GroupInv(g)'
  BY <1>10, <1>11, <1>12, <1>13, <1>14 DEF GroupInv
<1> QED BY <1>7, <1>8, <1>15, <1>16 DEF IInv, Unregister

LEMMA Lengthened ==
  ASSUME NEW x \in Entries, NEW xml \in Messages, NEW e,
         e = [x EXCEPT !.queue = Append(x.queue, xml)]
  PROVE  /\ e \in Entries /\ e.queue = Append(x.queue, xml)
         /\ e.registered = x.registered /\ e.inner_count = x.inner_count
         /\ e.activation_count = x.activation_count
         /\ Len(e.queue) = Len(x.queue) + 1 /\ e.queue # <<>>
         /\ \A i \in DOMAIN e.queue :
              \/ i \in DOMAIN x.queue /\ e.queue[i] = x.queue[i]
              \/ i = Len(x.queue) + 1 /\ e.queue[i] = xml
<1>1. x.queue \in Seq(Messages) /\ Append(x.queue, xml) \in Seq(Messages)
  BY DEF Entries
<1>2. /\ e \in Entries /\ e.queue = Append(x.queue, xml)
      /\ e.registered = x.registered /\ e.inner_count = x.inner_count
      /\ e.activation_count = x.activation_count
  BY <1>1 DEF Entries
<1>3. Len(e.queue) = Len(x.queue) + 1 /\ e.queue # <<>>
  <2>1. Len(Append(x.queue, xml)) = Len(x.queue) + 1 /\ Len(x.queue) \in Nat
    BY <1>1
  <2>2. Len(e.queue) # 0
    BY <1>2, <2>1
  <2> QED BY <1>2, <2>1, <2>2
<1>4. \A i \in DOMAIN e.queue :
        \/ i \in DOMAIN x.queue /\ e.queue[i] = x.queue[i]
        \/ i = Len(x.queue) + 1 /\ e.queue[i] = xml
  BY <1>1, <1>2
<1> QED BY <1>2, <1>3, <1>4

LEMMA WireAppended ==
  ASSUME TypeOK, ConnectionInv, NEW b \in Bunches, b.group \in Groups, b.messages # <<>>,
         wire' = Append(wire, b)
  PROVE  /\ wire' \in Seq(Bunches)
         /\ \A k \in DOMAIN wire' : wire'[k].group \in Groups /\ wire'[k].messages # <<>>
<1>1. /\ wire \in Seq(Bunches) /\ wire' \in Seq(Bunches) /\ Len(wire) \in Nat
      /\ DOMAIN wire' = 1 .. Len(wire) + 1 /\ wire'[Len(wire) + 1] = b
      /\ \A k \in 1 .. Len(wire) : wire'[k] = wire[k] /\ k \in DOMAIN wire
  BY DEF TypeOK
<1>2. \A k \in DOMAIN wire' : k \in 1 .. Len(wire) \/ k = Len(wire) + 1
  BY <1>1
<1> QED BY <1>1, <1>2 DEF ConnectionInv

LEMMA SendStep ==
  ASSUME IInv, NEW g \in Groups, Send(g)
  PROVE  IInv'
<1> DEFINE x == entry[g]
           xml == [number |-> scheduled[g] + 1, period |-> period[g]]
           e == [x EXCEPT !.queue = Append(x.queue, xml)]
<1>1. /\ x \in Entries /\ x.inner_count \in Nat /\ x.queue \in Seq(Messages)
      /\ x.activation_count \in Nat /\ GroupInv(g) /\ x.registered
      /\ Len(x.queue) \in Nat /\ MayCall /\ sending' = sending /\ status' = status
      /\ period[g] \in Nat /\ period' = period /\ forgotten' = forgotten
      /\ registrations' = registrations
      /\ scheduled[g] + 1 \in Nat /\ scheduled' = [scheduled EXCEPT ![g] = @ + 1]
  <2>1. scheduled[g] + 1 \in Nat
    BY DEF IInv, TypeOK
  <2> QED BY <2>1, OfGroup DEF Send
<1>2. status = "open"
  BY <1>1 DEF IInv, TypeOK, ConnectionInv, Registered
<1>3. xml \in Messages /\ xml.period = period[g]
  BY <1>1 DEF Messages
<1>4. /\ e \in Entries /\ e.registered /\ e.inner_count = x.inner_count
      /\ e.activation_count = x.activation_count
      /\ Len(e.queue) = Len(x.queue) + 1 /\ e.queue # <<>>
      /\ \A i \in DOMAIN e.queue :
           \/ i \in DOMAIN x.queue /\ e.queue[i] = x.queue[i]
           \/ i = Len(x.queue) + 1 /\ e.queue[i] = xml
  <2>1. e = [x EXCEPT !.queue = Append(x.queue, xml)]
    OBVIOUS
  <2> HIDE DEF x, xml, e
  <2> QED BY <1>1, <1>3, <2>1, Lengthened
<1>5. StoreAndSend(g, e)
  BY DEF Send
<1> HIDE DEF e, xml
<1>6. x # NoEntry
  BY <1>1 DEF NoEntry
<1>7. entry \in [Groups -> Entries] /\ TypeOK /\ ConnectionInv
  BY DEF IInv, TypeOK
<1>8. forgotten[g] \/ x.activation_count <= x.inner_count + Len(x.queue)
  BY <1>1 DEF GroupInv, Balanced
<1>9. NotAfter(period[g], e.queue)
  <2>1. NotAfter(period[g], x.queue)
    BY <1>1 DEF GroupInv, Past
  <2>2. SUFFICES ASSUME NEW i \in DOMAIN e.queue
                 PROVE  e.queue[i].period <= period[g]
    BY DEF NotAfter
  <2>3. CASE i \in DOMAIN x.queue /\ e.queue[i] = x.queue[i]
    BY <2>1, <2>3 DEF NotAfter
  <2>4. CASE i = Len(x.queue) + 1 /\ e.queue[i] = xml
    <3>1. e.queue[i].period = period[g]
      BY <1>3, <2>4
    <3> QED BY <1>1, <3>1
  <2> QED BY <1>4, <2>3, <2>4
\* The new message is beyond activation_count, and of this registration.
<1>10. ASSUME NEW i \in DOMAIN e.queue
       PROVE  LET present == e.registered /\ e.queue[i].period = period[g]
              IN  /\ x.inner_count + i > e.activation_count => present
                  /\ x.inner_count + i <= e.activation_count => ~present \/ forgotten[g]
  <2>1. CASE i \in DOMAIN x.queue /\ e.queue[i] = x.queue[i]
    <3>1. ReportedRightly(g, x.inner_count + i, x.queue[i])
      BY <1>1, <1>2, <1>6, <2>1 DEF GroupInv, ReportsOf, AllRightly
    <3> QED BY <1>1, <1>4, <2>1, <3>1 DEF ReportedRightly
  <2>2. CASE i = Len(x.queue) + 1 /\ e.queue[i] = xml
    <3>1. forgotten[g] \/ ~(x.inner_count + i <= e.activation_count)
      BY <1>1, <1>4, <1>8, <2>2
    <3> QED BY <1>3, <1>4, <2>2, <3>1
  <2> QED BY <1>4, <2>1, <2>2
<1>11. CASE x.inner_count = 0
  <2>1. /\ x.queue = <<>> /\ sending.group # g
        /\ \A k \in DOMAIN wire : wire[k].group # g
    BY <1>1, <1>2, <1>6, <1>11, OnItsWay
  <2>2. entry' = [entry EXCEPT ![g] = AfterBunch(e)] /\ wire' = Append(wire, Bunch(g, e))
    BY <1>4, <1>5, <1>11 DEF StoreAndSend
  <2>3. /\ Bunch(g, e) \in Bunches /\ Bunch(g, e).group = g /\ Bunch(g, e).messages # <<>>
        /\ AfterBunch(e) \in Entries /\ AfterBunch(e).registered
    BY <1>4, BunchFacts
  <2>4. Registered' = Registered
    BY <1>1, <1>7, <2>2, <2>3 DEF Registered
  <2>5. /\ wire' \in Seq(Bunches)
        /\ \A k \in DOMAIN wire' : wire'[k].group \in Groups /\ wire'[k].messages # <<>>
    BY <1>7, <2>2, <2>3, WireAppended
  <2>6. TypeOK'
    BY <1>1, <1>7, <2>2, <2>3, <2>5 DEF TypeOK, Send
  <2>7. ConnectionInv'
    BY <1>1, <1>2, <1>7, <2>4, <2>5 DEF ConnectionInv, Send
  <2>8. GroupInv(g)'
    <3>1. /\ e.inner_count = 0 /\ sending'.group # g
          /\ forgotten[g] \/ e.activation_count <= Len(e.queue)
      BY <1>1, <1>4, <1>8, <1>11, <2>1
    <3>2. \A i \in DOMAIN e.queue :
           LET present == e.registered /\ e.queue[i].period = period[g]
           IN  /\ i > e.activation_count => present
               /\ i <= e.activation_count => ~present \/ forgotten[g]
      <4>1. \A i \in DOMAIN e.queue : x.inner_count + i = i
        BY <1>4, <1>11 DEF Entries
      <4> QED BY <1>10, <4>1
    <3>3. Past(g)
      BY <1>1 DEF GroupInv
    <3> QED BY <1>1, <1>4, <1>7, <1>9, <2>1, <2>2, <3>1, <3>2, <3>3, BunchGoes
  <2>9. ASSUME NEW h \in Groups, h # g PROVE GroupInv(h)'
    <3>1. SameOnWire(h)
      BY <1>7, <2>2, <2>3, <2>9, AppendOther DEF TypeOK
    <3>2. entry'[h] = entry[h]
      BY <1>7, <2>2, <2>9
    <3>3. GroupInv(h) /\ forgotten'[h] = forgotten[h] /\ period'[h] = period[h]
      BY <1>1 DEF IInv
    <3> QED BY <1>1, <3>1, <3>2, <3>3, Frame
  <2> QED BY <2>6, <2>7, <2>8, <2>9 DEF IInv, Send
<1>12. CASE x.inner_count # 0
  <2>1. entry' = [entry EXCEPT ![g] = e] /\ wire' = wire /\ entry'[g] = e
    BY <1>4, <1>5, <1>7, <1>12 DEF StoreAndSend
  <2>2. Registered' = Registered
    BY <1>1, <1>4, <1>7, <2>1 DEF Registered
  <2>3. TypeOK'
    BY <1>1, <1>4, <1>7, <2>1 DEF TypeOK, Send
  <2>4. ConnectionInv'
    BY <1>1, <1>2, <1>7, <2>1, <2>2 DEF ConnectionInv, Send
  <2>5. Balanced(g)'
    <3>1. forgotten[g] \/ e.activation_count <= e.inner_count + Len(e.queue)
      BY <1>1, <1>4, <1>8
    <3> QED BY <1>1, <1>4, <2>1, <3>1 DEF Balanced
  <2>6. Past(g)'
    BY <1>1, <1>9, <2>1 DEF GroupInv, Past
  <2>7. Alone(g)'
    BY <1>1, <1>4, <2>1 DEF GroupInv, Alone
  <2>8. InnerCountOf(g)'
    <3>1. Pending(x)
      BY <1>1, <1>12 DEF Pending
    <3> QED BY <1>1, <1>2, <1>4, <1>6, <2>1, <3>1 DEF GroupInv, InnerCountOf
  <2>9. ReportsOf(g)'
    <3>1. AllRightly(g, entry[g].inner_count, entry[g].queue)'
      BY <1>1, <1>4, <1>10, <2>1 DEF AllRightly, ReportedRightly
    <3>2. /\ \A k \in DOMAIN wire : wire[k].group = g => AllRightly(g, 0, wire[k].messages)
          /\ sending.group = g => AllRightly(g, 0, sending.messages)
      BY <1>1, <1>2, <1>6 DEF GroupInv, ReportsOf
    <3>3. /\ \A k \in DOMAIN wire : wire[k].group = g => AllRightly(g, 0, wire[k].messages)'
          /\ sending.group = g => AllRightly(g, 0, sending.messages)'
      <4>1. ASSUME NEW k \in DOMAIN wire, wire[k].group = g
            PROVE  AllRightly(g, 0, wire[k].messages)'
        BY <1>1, <1>4, <2>1, <3>2, <4>1 DEF AllRightly, ReportedRightly
      <4>2. ASSUME sending.group = g PROVE AllRightly(g, 0, sending.messages)'
        BY <1>1, <1>4, <2>1, <3>2, <4>2 DEF AllRightly, ReportedRightly
      <4> QED BY <4>1, <4>2
    <3> QED BY <1>1, <2>1, <3>1, <3>3 DEF ReportsOf
  <2>10. ASSUME NEW h \in Groups, h # g PROVE GroupInv(h)'
    <3>1. GroupInv(h) /\ SameOnWire(h)
      BY <2>1 DEF IInv, SameOnWire
    <3>2. entry'[h] = entry[h] /\ forgotten'[h] = forgotten[h] /\ period'[h] = period[h]
      BY <1>1, <1>7, <2>1, <2>10
    <3> QED BY <1>1, <3>1, <3>2, Frame
  <2>11. GroupInv(g)'
    BY <2>5, <2>6, <2>7, <2>8, <2>9 DEF GroupInv
  <2> QED BY <2>3, <2>4, <2>10, <2>11 DEF IInv, Send
<1> QED BY <1>11, <1>12
\* The method is called only while the group is registered, and its message is
\* one that inner_count counts.
LEMMA CallSentStep ==
  ASSUME IInv, NEW g \in Groups, CallSent(g)
  PROVE  IInv'
<1>1. /\ sending.messages \in Seq(Messages) /\ sending.messages # <<>> /\ sending.group = g
      /\ GroupInv(g) /\ entry[g].activation_count = 0 /\ entry[g].registered \in BOOLEAN
      /\ Len(entry[g].queue) \in Nat /\ entry[g].inner_count \in Nat
  BY OfGroup DEF CallSent, Reporting
<1>2. entry[g].inner_count # 0
  <2>1. Len(sending.messages) # 0
    BY <1>1
  <2> QED BY <1>1, <2>1 DEF GroupInv, Alone
<1>3. entry[g].registered
  BY <1>1, <1>2 DEF GroupInv, Balanced
<1>4. ~failed' /\ failed' \in BOOLEAN
  BY <1>2, <1>3 DEF CallSent
<1>5. TypeOK'
  BY <1>4 DEF IInv, TypeOK, CallSent
<1>6. ConnectionInv'
  BY <1>1 DEF IInv, ConnectionInv, CallSent, Registered
<1>7. ASSUME NEW h \in Groups PROVE GroupInv(h)'
  <2>1. SameOnWire(h) /\ GroupInv(h)
    BY DEF IInv, SameOnWire, CallSent
  <2>2. /\ entry'[h] = entry[h] /\ period'[h] = period[h] /\ forgotten'[h] = forgotten[h]
        /\ status' = status /\ sending' = sending
    BY DEF CallSent
  <2> QED BY <2>1, <2>2, Frame
<1> QED BY <1>4, <1>5, <1>6, <1>7 DEF IInv

LEMMA CountedFacts ==
  ASSUME NEW x \in Entries, x.inner_count # 0, NEW e, e = Counted(x)
  PROVE  /\ e \in Entries /\ e.queue = x.queue /\ e.registered = x.registered
         /\ e.inner_count = x.inner_count - 1
         /\ e.activation_count = IF x.activation_count > 0 THEN x.activation_count - 1 ELSE 0
<1> DEFINE i == x.inner_count - 1
           a == IF x.activation_count > 0 THEN x.activation_count - 1 ELSE 0
<1>1. i \in Nat /\ a \in Nat
  BY DEF Entries
<1>2. e = [x EXCEPT !.inner_count = i, !.activation_count = a]
  BY DEF Counted
<1> HIDE DEF i, a
<1>3. /\ e \in Entries /\ e.queue = x.queue /\ e.registered = x.registered
      /\ e.inner_count = i /\ e.activation_count = a
  BY <1>1, <1>2 DEF Entries
<1> QED BY <1>3 DEF i, a

LEMMA Shifted ==
  ASSUME NEW inner \in Nat \ {0}, NEW active \in Nat, NEW queued \in Nat,
         NEW a, a = IF active > 0 THEN active - 1 ELSE 0
  PROVE  /\ active = inner + queued => a = (inner - 1) + queued
         /\ active <= inner + queued => a <= (inner - 1) + queued
<1>1. CASE active > 0
  BY <1>1
<1>2. CASE active = 0
  BY <1>2
<1> QED BY <1>1, <1>2

LEMMA TailFacts ==
  ASSUME NEW messages \in Seq(Messages), messages # <<>>
  PROVE  /\ Tail(messages) \in Seq(Messages) /\ Len(messages) \in Nat \ {0}
         /\ Len(Tail(messages)) = Len(messages) - 1
         /\ \A i \in DOMAIN Tail(messages) :
              /\ i \in Nat \ {0} /\ i + 1 \in DOMAIN messages
              /\ Tail(messages)[i] = messages[i + 1]
  OBVIOUS

\* What comes after the first message that is on its way moves up by one, and
\* activation_count with it.
LEMMA NextMessageStep ==
  ASSUME IInv, NEW g \in Groups, sending.group = g, sending.messages # <<>>,
         NextMessage(g), ~failed', failed' \in BOOLEAN, ~calling', calling' \in BOOLEAN,
         UNCHANGED <<status, registrations, first, wire, period, scheduled, forgotten>>
  PROVE  IInv'
<1>0. PICK x, e, rest : x = entry[g] /\ e = Counted(x) /\ rest = Tail(sending.messages)
  OBVIOUS
<1>1. /\ x \in Entries /\ x.inner_count \in Nat /\ x.activation_count \in Nat
      /\ x.queue \in Seq(Messages) /\ Len(x.queue) \in Nat /\ x.registered \in BOOLEAN
      /\ sending \in Bunches /\ sending.messages \in Seq(Messages)
      /\ GroupInv(g) /\ g # NoGroup
  BY <1>0, OfGroup
<1>2. /\ rest \in Seq(Messages) /\ Len(sending.messages) \in Nat \ {0}
      /\ Len(rest) = Len(sending.messages) - 1
      /\ \A i \in DOMAIN rest : /\ i \in Nat \ {0} /\ i + 1 \in DOMAIN sending.messages
                                /\ rest[i] = sending.messages[i + 1]
  BY <1>0, <1>1, TailFacts
<1>3. /\ x.inner_count = Len(sending.messages) /\ x.inner_count # 0
      /\ \A k \in DOMAIN wire : wire[k].group # g
  BY <1>0, <1>1, <1>2 DEF GroupInv, Alone
<1>4. /\ e \in Entries /\ e.queue = x.queue /\ e.registered = x.registered
      /\ e.inner_count = x.inner_count - 1
      /\ e.activation_count = IF x.activation_count > 0 THEN x.activation_count - 1 ELSE 0
  BY <1>0, <1>1, <1>3, CountedFacts
<1>5. /\ entry' = [entry EXCEPT ![g] = e] /\ entry \in [Groups -> Entries]
      /\ sending' = [sending EXCEPT !.messages = rest]
  BY <1>0 DEF NextMessage, IInv, TypeOK
<1>6. /\ entry'[g] = e /\ sending'.group = g /\ sending'.messages = rest
      /\ sending' \in Bunches
  BY <1>1, <1>2, <1>5 DEF Bunches
<1>7. Registered' = Registered
  BY <1>0, <1>4, <1>5 DEF Registered
<1>8. TypeOK'
  BY <1>4, <1>5, <1>6 DEF IInv, TypeOK
<1>9. ConnectionInv'
  <2>1. status = "open"
    BY <1>1 DEF IInv, ConnectionInv, TypeOK, Idle
  <2> QED BY <1>1, <1>6, <1>7, <2>1 DEF IInv, ConnectionInv
<1>10. Balanced(g)'
  <2>1. /\ ~x.registered => x.activation_count = x.inner_count + Len(x.queue)
        /\ forgotten[g] \/ x.activation_count <= x.inner_count + Len(x.queue)
    BY <1>0, <1>1 DEF GroupInv, Balanced
  <2>2. /\ x.activation_count = x.inner_count + Len(x.queue)
             => e.activation_count = e.inner_count + Len(e.queue)
        /\ x.activation_count <= x.inner_count + Len(x.queue)
             => e.activation_count <= e.inner_count + Len(e.queue)
    <3>1. x.inner_count \in Nat \ {0} /\ Len(e.queue) = Len(x.queue)
      BY <1>1, <1>3, <1>4
    <3>2. /\ x.activation_count = x.inner_count + Len(x.queue)
               => e.activation_count = (x.inner_count - 1) + Len(x.queue)
          /\ x.activation_count <= x.inner_count + Len(x.queue)
               => e.activation_count <= (x.inner_count - 1) + Len(x.queue)
      BY <1>1, <1>4, <3>1, Shifted
    <3>3. e.inner_count + Len(e.queue) = (x.inner_count - 1) + Len(x.queue)
      BY <1>4, <3>1
    <3> QED BY <3>2, <3>3
  <2> QED BY <1>4, <1>6, <2>1, <2>2 DEF Balanced
<1>11. Past(g)'
  <2>1. NotAfter(period[g], rest)
    BY <1>1, <1>2 DEF GroupInv, Past, NotAfter
  <2>2. NotAfter(period[g], x.queue)
    BY <1>0, <1>1 DEF GroupInv, Past
  <2> QED BY <1>3, <1>4, <1>6, <2>1, <2>2 DEF Past, NotAfter
<1>12. Alone(g)'
  BY <1>2, <1>3, <1>4, <1>6 DEF Alone
<1>13. InnerCountOf(g)'
  BY <1>2, <1>3, <1>4, <1>6 DEF InnerCountOf
<1>14. ASSUME status = "open" PROVE ReportsOf(g)'
  <2>1. x # NoEntry
    BY <1>3 DEF NoEntry
  <2>2. /\ AllRightly(g, 0, sending.messages)
        /\ AllRightly(g, x.inner_count, x.queue)
    BY <1>0, <1>1, <1>14, <2>1 DEF GroupInv, ReportsOf
  <2>3. ASSUME NEW i \in Nat, i > 0, NEW xml, ReportedRightly(g, i + 1, xml)
        PROVE  ReportedRightly(g, i, xml)'
    <3>1. /\ i > e.activation_count => i + 1 > x.activation_count
          /\ i <= e.activation_count => i + 1 <= x.activation_count
      BY <1>1, <1>4, <2>3
    <3> QED BY <1>0, <1>4, <1>6, <2>3, <3>1 DEF ReportedRightly
  <2>4. AllRightly(g, 0, rest)'
    <3>1. SUFFICES ASSUME NEW i \in DOMAIN rest
                   PROVE  ReportedRightly(g, 0 + i, rest[i])'
      BY DEF AllRightly
    <3>2. ReportedRightly(g, 0 + (i + 1), sending.messages[i + 1])
      BY <1>2, <2>2 DEF AllRightly
    <3>3. i \in Nat /\ i > 0 /\ 0 + (i + 1) = i + 1 /\ 0 + i = i
      BY <1>2
    <3>4. ReportedRightly(g, i + 1, rest[i])
      BY <1>2, <3>2, <3>3
    <3> QED BY <2>3, <3>3, <3>4
  <2>5. AllRightly(g, e.inner_count, e.queue)'
    <3>1. SUFFICES ASSUME NEW i \in DOMAIN x.queue
                   PROVE  ReportedRightly(g, e.inner_count + i, x.queue[i])'
      BY <1>4 DEF AllRightly
    <3>2. ReportedRightly(g, x.inner_count + i, x.queue[i])
      BY <2>2 DEF AllRightly
    <3>3. i \in Nat /\ i > 0
      BY <1>1
    <3>4. /\ e.inner_count + i \in Nat /\ e.inner_count + i > 0
          /\ (e.inner_count + i) + 1 = x.inner_count + i
      BY <1>1, <1>3, <1>4, <3>3
    <3>5. ReportedRightly(g, (e.inner_count + i) + 1, x.queue[i])
      BY <3>2, <3>4
    <3> QED BY <2>3, <3>4, <3>5
  <2> QED BY <1>3, <1>6, <2>4, <2>5 DEF ReportsOf
<1>15. ASSUME NEW h \in Groups, h # g PROVE GroupInv(h)'
  <2>1. SameOnWire(h) /\ GroupInv(h)
    BY DEF IInv, SameOnWire
  <2>2. entry'[h] = entry[h] /\ sending.group # h /\ sending'.group # h
    BY <1>5, <1>6, <1>15
  <2> QED BY <2>1, <2>2, Frame
<1>16. GroupInv(g)'
  BY <1>10, <1>11, <1>12, <1>13, <1>14 DEF GroupInv
<1> QED BY <1>8, <1>9, <1>15, <1>16 DEF IInv

LEMMA SkipMessageStep ==
  ASSUME IInv, NEW g \in Groups, SkipMessage(g)
  PROVE  IInv'
<1>1. /\ sending.messages \in Seq(Messages) /\ sending.messages # <<>> /\ sending.group = g
      /\ GroupInv(g) /\ ~calling /\ calling' = calling
  BY OfGroup DEF SkipMessage, Reporting
<1>2. entry[g].inner_count # 0
  <2>1. Len(sending.messages) # 0
    BY <1>1
  <2> QED BY <1>1, <2>1 DEF GroupInv, Alone
<1>3. ~failed' /\ failed' \in BOOLEAN /\ ~calling' /\ calling' \in BOOLEAN
  BY <1>1, <1>2 DEF SkipMessage, IInv, TypeOK
<1> QED BY <1>1, <1>3, NextMessageStep DEF SkipMessage

LEMMA SentReturnsStep ==
  ASSUME IInv, NEW g \in Groups, SentReturns(g)
  PROVE  IInv'
<1>1. /\ sending.messages # <<>> /\ sending.group = g
      /\ ~failed' /\ failed' \in BOOLEAN /\ ~calling' /\ calling' \in BOOLEAN
  BY DEF SentReturns, IInv, TypeOK, ConnectionInv
<1> QED BY <1>1, NextMessageStep DEF SentReturns
\* The last message of a bunch has been reported.
LEMMA AllReportedStep ==
  ASSUME IInv, NEW g \in Groups, AllReported(g)
  PROVE  IInv'
<1>0. PICK x : x = entry[g]
  OBVIOUS
<1>1. /\ x \in Entries /\ x.inner_count \in Nat /\ x.activation_count \in Nat
      /\ x.queue \in Seq(Messages) /\ Len(x.queue) \in Nat /\ x.registered \in BOOLEAN
      /\ GroupInv(g) /\ g # NoGroup
  BY <1>0, OfGroup
<1>2. /\ sending.group = g /\ sending.messages = <<>> /\ sending' = Idle
      /\ ~failed /\ failed' = failed /\ calling' = calling /\ status' = status
      /\ registrations' = registrations /\ first' = first
      /\ period' = period /\ scheduled' = scheduled /\ forgotten' = forgotten
  BY DEF AllReported
<1>3. status = "open" /\ ~calling
  BY <1>1, <1>2 DEF IInv, ConnectionInv, TypeOK, Idle
<1>4. x.inner_count = 0 /\ \A k \in DOMAIN wire : wire[k].group # g
  BY <1>0, <1>1, <1>2 DEF GroupInv, Alone
<1>5. TypeOK /\ ConnectionInv /\ entry \in [Groups -> Entries]
  BY DEF IInv, TypeOK
<1>6. Idle \in Bunches /\ Idle.group = NoGroup /\ Idle.messages = <<>>
  BY DEF Idle, Bunches
<1>7. /\ ~x.registered => x.activation_count = x.inner_count + Len(x.queue)
      /\ forgotten[g] \/ x.activation_count <= x.inner_count + Len(x.queue)
      /\ Past(g) /\ NotAfter(period[g], x.queue)
  BY <1>0, <1>1 DEF GroupInv, Balanced, Past
\* It is enough to look at the group and at what the connection is told.
<1>8. SUFFICES /\ entry' \in [Groups -> Entries] /\ entry'[g].registered = x.registered
               /\ \A h \in Groups \ {g} : entry'[h] = entry[h] /\ SameOnWire(h)
               /\ wire' \in Seq(Bunches)
               /\ \A k \in DOMAIN wire' : wire'[k].group \in Groups /\ wire'[k].messages # <<>>
               /\ GroupInv(g)'
  <2>1. Registered' = Registered
    BY <1>0, <1>8 DEF Registered
  <2>2. TypeOK'
    BY <1>2, <1>5, <1>6, <1>8 DEF TypeOK
  <2>3. ConnectionInv'
    BY <1>2, <1>3, <1>5, <1>8, <2>1 DEF ConnectionInv
  <2>4. ASSUME NEW h \in Groups, h # g PROVE GroupInv(h)'
    <3>1. GroupInv(h) /\ SameOnWire(h) /\ entry'[h] = entry[h] /\ h # NoGroup
      BY <1>8, <2>4, OfGroup
    <3> QED BY <1>2, <1>6, <2>4, <3>1, Frame
  <2> QED BY <1>2, <1>8, <2>2, <2>3, <2>4 DEF IInv
<1>9. CASE ~x.registered /\ x.activation_count = 0
  <2>1. entry' = [entry EXCEPT ![g] = NoEntry] /\ wire' = wire
    BY <1>0, <1>9 DEF AllReported
  <2>2. /\ entry'[g] = NoEntry /\ NoEntry \in Entries
        /\ ~NoEntry.registered /\ NoEntry.queue = <<>>
        /\ NoEntry.activation_count = 0 /\ NoEntry.inner_count = 0
    BY <1>5, <2>1, NoEntryType DEF NoEntry
  <2>3. GroupInv(g)'
    <3>1. Balanced(g)'
      BY <2>2 DEF Balanced
    <3>2. Past(g)'
      BY <1>2, <1>4, <1>6, <1>1, <2>1, <2>2 DEF Past, NotAfter
    <3>3. Alone(g)'
      BY <1>1, <1>2, <1>6 DEF Alone
    <3> QED BY <2>2, <3>1, <3>2, <3>3 DEF GroupInv, InnerCountOf, ReportsOf
  <2>4. entry' \in [Groups -> Entries]
    BY <1>5, <2>1, <2>2
  <2>5. \A h \in Groups \ {g} : entry'[h] = entry[h] /\ SameOnWire(h)
    BY <1>5, <2>1 DEF SameOnWire
  <2>6. /\ wire' \in Seq(Bunches)
        /\ \A k \in DOMAIN wire' : wire'[k].group \in Groups /\ wire'[k].messages # <<>>
    BY <1>5, <2>1 DEF TypeOK, ConnectionInv
  <2>7. entry'[g].registered = x.registered
    <3>1. x.registered = FALSE
      BY <1>1, <1>9
    <3>2. NoEntry.registered = FALSE
      BY DEF NoEntry
    <3> QED BY <2>2, <3>1, <3>2
  <2> QED BY <2>3, <2>4, <2>5, <2>6, <2>7
<1>10. CASE ~(~x.registered /\ x.activation_count = 0) /\ x.queue # <<>>
  <2>1. entry' = [entry EXCEPT ![g] = AfterBunch(x)] /\ wire' = Append(wire, Bunch(g, x))
    BY <1>0, <1>4, <1>10 DEF AllReported, StoreAndSend
  <2>2. /\ Bunch(g, x) \in Bunches /\ Bunch(g, x).group = g /\ Bunch(g, x).messages # <<>>
        /\ AfterBunch(x) \in Entries /\ AfterBunch(x).registered = x.registered
    BY <1>1, <1>10, BunchFacts
  <2>3. /\ wire' \in Seq(Bunches)
        /\ \A k \in DOMAIN wire' : wire'[k].group \in Groups /\ wire'[k].messages # <<>>
    BY <1>5, <2>1, <2>2, WireAppended
  <2>4. \A h \in Groups \ {g} : entry'[h] = entry[h] /\ SameOnWire(h)
    BY <1>5, <2>1, <2>2, AppendOther DEF TypeOK
  <2>5. /\ ~x.registered => x.activation_count = Len(x.queue)
        /\ forgotten[g] \/ x.activation_count <= Len(x.queue)
    BY <1>1, <1>4, <1>7
  <2>6. \A i \in DOMAIN x.queue :
           LET present == x.registered /\ x.queue[i].period = period[g]
           IN  /\ i > x.activation_count => present
               /\ i <= x.activation_count => ~present \/ forgotten[g]
    <3>1. AllRightly(g, 0, x.queue)
      BY <1>0, <1>1, <1>3, <1>4, <1>10 DEF GroupInv, ReportsOf, NoEntry
    <3>2. \A i \in DOMAIN x.queue : 0 + i = i
      BY <1>1
    <3>3. \A i \in DOMAIN x.queue : ReportedRightly(g, i, x.queue[i])
      BY <3>1, <3>2 DEF AllRightly
    <3> QED BY <1>0, <3>3 DEF ReportedRightly
  <2>7. sending'.group # g
    BY <1>1, <1>2, <1>6
  <2>8. GroupInv(g)'
    BY <1>1, <1>2, <1>4, <1>5, <1>7, <1>10, <2>1, <2>5, <2>6, <2>7, BunchGoes
  <2> QED BY <1>5, <2>1, <2>2, <2>3, <2>4, <2>8
<1>11. CASE ~(~x.registered /\ x.activation_count = 0) /\ x.queue = <<>>
  <2>1. entry' = entry /\ wire' = wire
    BY <1>0, <1>5, <1>11 DEF AllReported, StoreAndSend
  <2>2. GroupInv(g)'
    <3>1. Balanced(g)'
      BY <1>0, <1>2, <1>7, <2>1 DEF Balanced
    <3>2. Past(g)'
      BY <1>0, <1>1, <1>2, <1>6, <1>7, <2>1 DEF Past
    <3>3. Alone(g)'
      BY <1>1, <1>2, <1>6 DEF Alone
    <3>4. InnerCountOf(g)'
      <4>1. ~Pending(x)
        BY <1>4, <1>11 DEF Pending
      <4> QED BY <1>0, <1>1, <1>2, <1>4, <1>6, <2>1, <4>1 DEF InnerCountOf
    <3>5. ReportsOf(g)'
      BY <1>0, <1>1, <1>2, <1>4, <1>6, <1>11, <2>1 DEF ReportsOf, AllRightly
    <3> QED BY <3>1, <3>2, <3>3, <3>4, <3>5 DEF GroupInv
  <2> QED BY <1>0, <1>5, <2>1, <2>2 DEF TypeOK, ConnectionInv, SameOnWire
<1> QED BY <1>9, <1>10, <1>11

LEMMA ConnectionSentStep ==
  ASSUME IInv, ConnectionSent
  PROVE  IInv'
<1>0. PICK b : b = Head(wire)
  OBVIOUS
<1>1. /\ wire # <<>> /\ wire' = Tail(wire) /\ sending = Idle /\ ~failed
      /\ failed' = failed /\ calling' = calling /\ status' = status /\ entry' = entry
      /\ registrations' = registrations /\ first' = first
      /\ period' = period /\ scheduled' = scheduled /\ forgotten' = forgotten
  BY DEF ConnectionSent
<1>2. TypeOK /\ ConnectionInv /\ wire \in Seq(Bunches)
  BY DEF IInv, TypeOK
<1>3. status = "open"
  BY <1>1, <1>2 DEF TypeOK, ConnectionInv
<1>4. sending' = IF entry[b.group] # NoEntry THEN b ELSE Idle
  BY <1>0, <1>3, RegisteredFinite DEF ConnectionSent
<1>5. /\ 1 \in DOMAIN wire /\ b = wire[1] /\ b \in Bunches
      /\ Tail(wire) \in Seq(Bunches)
      /\ \A k \in DOMAIN Tail(wire) :
           k + 1 \in DOMAIN wire /\ k + 1 # 1 /\ Tail(wire)[k] = wire[k + 1] /\ k \in Nat
  BY <1>0, <1>1, <1>2
<1>6. b.group \in Groups /\ b.messages # <<>> /\ b.group # NoGroup
  BY <1>2, <1>5, RegistryAssumption DEF ConnectionInv
<1>7. Idle \in Bunches /\ Idle.group = NoGroup /\ Idle.messages = <<>>
  BY DEF Idle, Bunches
<1>8. TypeOK'
  BY <1>1, <1>2, <1>4, <1>5, <1>7 DEF TypeOK
<1>9. ConnectionInv'
  <2>1. ~calling
    BY <1>1, <1>2, <1>7 DEF ConnectionInv
  <2>2. \A k \in DOMAIN wire' : wire'[k].group \in Groups /\ wire'[k].messages # <<>>
    BY <1>1, <1>2, <1>5 DEF ConnectionInv
  <2>3. Registered' = Registered
    BY <1>1 DEF Registered
  <2> QED BY <1>1, <1>2, <1>3, <1>4, <1>6, <1>7, <2>1, <2>2, <2>3 DEF ConnectionInv
<1>10. ASSUME NEW h \in Groups PROVE GroupInv(h)'
  <2>1. GroupInv(h) /\ h # NoGroup /\ sending.group # h
    BY <1>1, <1>7, OfGroup
  <2>2. /\ Balanced(h) /\ Past(h) /\ InnerCountOf(h) /\ ReportsOf(h)
    BY <1>3, <2>1 DEF GroupInv
  <2>3. /\ b.group = h /\ entry[h] # NoEntry <=> sending'.group = h
        /\ sending'.group = h => sending' = b
    BY <1>4, <1>6, <1>7, <2>1
  <2>4. \A k \in DOMAIN wire' :
           k + 1 \in DOMAIN wire /\ k + 1 # 1 /\ wire'[k] = wire[k + 1] /\ k \in Nat
    BY <1>1, <1>5
  <2>5. Balanced(h)'
    BY <1>1, <2>2 DEF Balanced
  <2>6. Past(h)'
    <3>1. \A k \in DOMAIN wire' : wire'[k].group = h => NotAfter(period[h], wire'[k].messages)
      BY <2>2, <2>4 DEF Past
    <3>2. sending'.group = h => NotAfter(period[h], sending'.messages)
      BY <1>5, <2>2, <2>3 DEF Past
    <3>3. NotAfter(period[h], entry[h].queue)
      BY <2>2 DEF Past
    <3> QED BY <1>1, <3>1, <3>2, <3>3 DEF Past, NotAfter
  <2>7. entry[h] # NoEntry => \A k \in DOMAIN wire :
           wire[k].group = h => entry[h].inner_count = Len(wire[k].messages)
    BY <2>2 DEF InnerCountOf
  <2>8. entry[h] # NoEntry => \A i, j \in DOMAIN wire :
           wire[i].group = h /\ wire[j].group = h => i = j
    BY <2>2 DEF InnerCountOf
  <2>9. \A k \in DOMAIN wire' : wire'[k].group = h /\ entry[h] # NoEntry => b.group # h
    <3>1. ASSUME NEW k \in DOMAIN wire', wire'[k].group = h, entry[h] # NoEntry, b.group = h
          PROVE  FALSE
      <4>1. wire[1].group = h /\ wire[k + 1].group = h /\ k + 1 \in DOMAIN wire /\ k + 1 # 1
        BY <1>5, <2>4, <3>1
      <4> QED BY <1>5, <2>8, <3>1, <4>1
    <3> QED BY <3>1
  <2>10. Alone(h)'
    BY <1>1, <1>5, <2>3, <2>7, <2>9 DEF Alone
  <2>11. InnerCountOf(h)'
    <3>1. ASSUME entry[h] # NoEntry
          PROVE  /\ \A i, j \in DOMAIN wire' : wire'[i].group = h /\ wire'[j].group = h => i = j
                 /\ \A i \in DOMAIN wire' : wire'[i].group = h =>
                      sending'.group # h /\ entry[h].inner_count = Len(wire'[i].messages)
                 /\ sending'.group = h => entry[h].inner_count = Len(sending'.messages)
      <4>1. ASSUME NEW i \in DOMAIN wire', NEW j \in DOMAIN wire',
                   wire'[i].group = h, wire'[j].group = h
            PROVE  i = j
        <5>1. /\ i + 1 \in DOMAIN wire /\ j + 1 \in DOMAIN wire /\ i \in Nat /\ j \in Nat
              /\ wire[i + 1].group = h /\ wire[j + 1].group = h
          BY <2>4, <4>1
        <5>2. i + 1 = j + 1
          BY <2>8, <3>1, <5>1
        <5> QED BY <5>1, <5>2
      <4>2. ASSUME NEW i \in DOMAIN wire', wire'[i].group = h
            PROVE  sending'.group # h /\ entry[h].inner_count = Len(wire'[i].messages)
        BY <2>3, <2>4, <2>7, <2>9, <3>1, <4>2
      <4>3. ASSUME sending'.group = h PROVE entry[h].inner_count = Len(sending'.messages)
        BY <1>5, <2>3, <2>7, <3>1, <4>3
      <4> QED BY <4>1, <4>2, <4>3
    <3>2. ASSUME entry[h] # NoEntry, sending'.group # h,
                 \A i \in DOMAIN wire' : wire'[i].group # h
          PROVE  ~Pending(entry[h])
      <4>1. ASSUME NEW i \in DOMAIN wire PROVE wire[i].group # h
        <5>1. CASE i = 1
          BY <1>5, <2>3, <3>2, <5>1
        <5>2. CASE i # 1
          <6>1. i - 1 \in DOMAIN wire' /\ wire'[i - 1] = wire[i]
            BY <1>1, <1>2, <5>2
          <6> QED BY <3>2, <6>1
        <5> QED BY <5>1, <5>2
      <4> QED BY <2>1, <2>2, <3>2, <4>1 DEF InnerCountOf
    <3> QED BY <1>1, <3>1, <3>2 DEF InnerCountOf, Pending
  <2>12. ReportsOf(h)'
    <3>1. ASSUME NEW before, NEW messages, AllRightly(h, before, messages)
          PROVE  AllRightly(h, before, messages)'
      BY <1>1, <3>1 DEF AllRightly, ReportedRightly
    <3>2. ASSUME entry[h] # NoEntry
          PROVE  /\ \A k \in DOMAIN wire' : wire'[k].group = h => AllRightly(h, 0, wire'[k].messages)
                 /\ sending'.group = h => AllRightly(h, 0, sending'.messages)
                 /\ AllRightly(h, entry[h].inner_count, entry[h].queue)
      BY <1>5, <2>2, <2>3, <2>4, <3>2 DEF ReportsOf
    <3> QED BY <1>1, <3>2 DEF ReportsOf, AllRightly, ReportedRightly
  <2> QED BY <2>5, <2>6, <2>10, <2>11, <2>12 DEF GroupInv
<1> QED BY <1>1, <1>8, <1>9, <1>10 DEF IInv
\* The connection is closed: nothing is on its way, and nobody is registered.
LEMMA CloseStep ==
  ASSUME IInv, Close
  PROVE  IInv'
<1>1. /\ status' = "closed" /\ wire' = <<>> /\ sending = Idle /\ sending' = sending
      /\ ~failed /\ failed' = failed /\ calling' = calling
      /\ registrations' = 0 /\ first' = NoGroup
      /\ period' = period /\ scheduled' = scheduled /\ forgotten' = forgotten
  BY DEF Close
<1>2. entry' = [g \in Groups |->
         IF entry[g].registered \/ RegistryIsTold THEN NoEntry ELSE entry[g]]
  BY DEF Close
<1>3. /\ NoEntry \in Entries /\ ~NoEntry.registered /\ NoEntry.queue = <<>>
      /\ NoEntry.activation_count = 0 /\ NoEntry.inner_count = 0
  BY NoEntryType DEF NoEntry
<1>4. TypeOK /\ ConnectionInv
  BY DEF IInv
<1>5. \A g \in Groups : /\ entry'[g] \in Entries /\ ~entry'[g].registered
                        /\ entry'[g] = NoEntry \/ entry'[g] = entry[g]
  BY <1>2, <1>3, <1>4 DEF TypeOK, Entries
<1>6. entry' \in [Groups -> Entries]
  <2>1. \A g \in Groups :
           (IF entry[g].registered \/ RegistryIsTold THEN NoEntry ELSE entry[g]) \in Entries
    BY <1>3, <1>4 DEF TypeOK
  <2> QED BY <1>2, <2>1
<1>7. TypeOK'
  BY <1>1, <1>4, <1>6 DEF TypeOK
<1>8. ConnectionInv'
  <2>1. Registered' = {}
    BY <1>5 DEF Registered
  <2> QED BY <1>1, <1>4, <2>1 DEF ConnectionInv
<1>9. ASSUME NEW g \in Groups PROVE GroupInv(g)'
  <2>1. Balanced(g) /\ Past(g) /\ g # NoGroup
    BY OfGroup DEF GroupInv
  <2>2. Balanced(g)'
    BY <1>1, <1>3, <1>5, <2>1 DEF Balanced
  <2>3. Past(g)'
    BY <1>1, <1>3, <1>5, <2>1 DEF Past, NotAfter, Idle
  <2>4. Alone(g)'
    BY <1>1, <2>1 DEF Alone, Idle
  <2> QED BY <1>1, <2>2, <2>3, <2>4 DEF GroupInv
<1> QED BY <1>1, <1>7, <1>8, <1>9 DEF IInv

\* The group goes, and what its entry still had follows what was sent before.
LEMMA GroupUnrefedStep ==
  ASSUME IInv, NEW g \in Groups, GroupUnrefed(g)
  PROVE  IInv'
<1>0. PICK x : x = entry[g]
  OBVIOUS
<1>1. /\ x \in Entries /\ ~x.registered /\ x.queue \in Seq(Messages)
      /\ GroupInv(g) /\ sending.group # g /\ sending' = sending
      /\ ~failed /\ failed' = failed /\ calling' = calling /\ status' = status
      /\ registrations' = registrations /\ first' = first
      /\ period' = period /\ scheduled' = scheduled /\ forgotten' = forgotten
      /\ entry' = [entry EXCEPT ![g] = NoEntry]
  BY <1>0, OfGroup DEF GroupUnrefed, MayCall
<1>2. PICK b : b = [group |-> g, messages |-> x.queue]
  OBVIOUS
<1>3. b \in Bunches /\ b.group = g /\ b.messages = x.queue
  BY <1>1, <1>2 DEF Bunches
<1>4. \/ wire' = wire
      \/ wire' = Append(wire, b) /\ status = "open" /\ x.queue # <<>>
  BY <1>0, <1>2 DEF GroupUnrefed
<1>5. TypeOK /\ ConnectionInv /\ entry \in [Groups -> Entries] /\ wire \in Seq(Bunches)
  BY DEF IInv, TypeOK
<1>6. /\ NoEntry \in Entries /\ ~NoEntry.registered /\ NoEntry.queue = <<>>
      /\ NoEntry.activation_count = 0 /\ NoEntry.inner_count = 0
  BY NoEntryType DEF NoEntry
<1>7. /\ entry' \in [Groups -> Entries] /\ entry'[g] = NoEntry
      /\ \A h \in Groups \ {g} : entry'[h] = entry[h]
  BY <1>1, <1>5, <1>6
<1>8. /\ wire' \in Seq(Bunches)
      /\ \A k \in DOMAIN wire' : wire'[k].group \in Groups /\ wire'[k].messages # <<>>
      /\ status = "closed" => wire' = <<>>
  BY <1>3, <1>4, <1>5, WireAppended DEF ConnectionInv
<1>9. TypeOK'
  BY <1>1, <1>5, <1>7, <1>8 DEF TypeOK
<1>10. ConnectionInv'
  <2>1. Registered' = Registered
    BY <1>0, <1>1, <1>6, <1>7 DEF Registered
  <2> QED BY <1>1, <1>5, <1>8, <2>1 DEF ConnectionInv
<1>11. Past(g)'
  <2>1. /\ \A k \in DOMAIN wire : wire[k].group = g => NotAfter(period[g], wire[k].messages)
        /\ NotAfter(period[g], x.queue)
    BY <1>0, <1>1 DEF GroupInv, Past
  <2>2. \A k \in DOMAIN wire' : wire'[k] = b \/ (k \in DOMAIN wire /\ wire'[k] = wire[k])
    <3>1. CASE wire' = wire
      BY <3>1
    <3>2. CASE wire' = Append(wire, b)
      BY <1>3, <1>5, <3>2
    <3> QED BY <1>4, <3>1, <3>2
  <2>3. \A k \in DOMAIN wire' : wire'[k].group = g => NotAfter(period[g], wire'[k].messages)
    BY <1>3, <2>1, <2>2
  <2> QED BY <1>1, <1>6, <1>7, <2>3 DEF Past, NotAfter
<1>12. GroupInv(g)'
  BY <1>1, <1>6, <1>7, <1>11
     DEF GroupInv, Balanced, Alone, InnerCountOf, ReportsOf
<1>13. ASSUME NEW h \in Groups, h # g PROVE GroupInv(h)'
  <2>1. GroupInv(h) /\ entry'[h] = entry[h]
    BY <1>7, <1>13, OfGroup
  <2>2. SameOnWire(h)
    <3>1. CASE wire' = wire
      BY <3>1 DEF SameOnWire
    <3>2. CASE wire' = Append(wire, b)
      BY <1>3, <1>5, <1>13, <3>2, AppendOther
    <3> QED BY <1>4, <3>1, <3>2
  <2> QED BY <1>1, <2>1, <2>2, Frame
<1> QED BY <1>1, <1>9, <1>10, <1>12, <1>13 DEF IInv

------------------------------------------------------------------------------
(* The invariant of the specification *)

LEMMA InitInv == Init => IInv
<1> SUFFICES ASSUME Init PROVE IInv
  OBVIOUS
<1>1. /\ NewEntry \in Entries /\ NewEntry.registered /\ NewEntry.queue = <<>>
      /\ NewEntry.activation_count = 0 /\ NewEntry.inner_count = 0
      /\ NoEntry \in Entries /\ ~NoEntry.registered /\ NoEntry.queue = <<>>
      /\ NoEntry.activation_count = 0 /\ NoEntry.inner_count = 0
  BY NoEntryType DEF NoEntry, NewEntry, Entries
<1>2. \A g \in Groups : /\ entry[g] = NewEntry \/ entry[g] = NoEntry
                        /\ entry[g].registered <=> g \in Permanent
  BY <1>1 DEF Init
<1>3. Registered = Permanent
  BY <1>2, RegistryAssumption DEF Registered
<1>4. Cardinality(Permanent) \in Nat
  BY RegistryAssumption, FS_Subset, FS_CardinalityType
<1>5. Idle \in Bunches /\ Idle.group = NoGroup /\ Idle.messages = <<>>
  BY DEF Idle, Bunches
<1>6. TypeOK
  <2>1. entry \in [Groups -> Entries]
    BY <1>1 DEF Init
  <2>2. wire \in Seq(Bunches) /\ sending \in Bunches
    BY <1>5 DEF Init
  <2>3. /\ period \in [Groups -> Nat] /\ scheduled \in [Groups -> Nat]
        /\ forgotten \in [Groups -> BOOLEAN]
    BY DEF Init
  <2> QED BY <1>4, <2>1, <2>2, <2>3, RegistryAssumption DEF Init, TypeOK
<1>7. ConnectionInv
  BY <1>3, <1>5 DEF Init, ConnectionInv
<1>8. ASSUME NEW g \in Groups PROVE GroupInv(g)
  <2>1. /\ entry[g].queue = <<>> /\ entry[g].activation_count = 0 /\ entry[g].inner_count = 0
        /\ wire = <<>> /\ sending.group # g
    BY <1>1, <1>2, <1>5, RegistryAssumption DEF Init
  <2>2. Balanced(g) /\ Past(g) /\ Alone(g)
    BY <2>1 DEF Balanced, Past, NotAfter, Alone
  <2>3. InnerCountOf(g) /\ ReportsOf(g)
    BY <2>1 DEF InnerCountOf, Pending, ReportsOf, AllRightly
  <2> QED BY <2>2, <2>3 DEF GroupInv
<1> QED BY <1>6, <1>7, <1>8 DEF Init, IInv

\* IInv holds initially, every call and every report keeps it, and so it holds
\* throughout.
THEOREM Invariance == Spec => []IInv
<1>1. IInv /\ [Next]_vars => IInv'
  <2> SUFFICES ASSUME IInv, [Next]_vars PROVE IInv'
    OBVIOUS
  <2>1. ASSUME NEW g \in Groups, Send(g) \/ CancelMessages(g) \/ Register(g) \/ Unregister(g)
        PROVE  IInv'
    BY <2>1, SendStep, CancelStep, RegisterStep, UnregisterStep
  <2>2. ASSUME NEW g \in Groups, Report(g) PROVE IInv'
    BY <2>2, SkipMessageStep, CallSentStep, SentReturnsStep, AllReportedStep DEF Report
  <2>3. ASSUME NEW g \in Groups, GroupUnrefed(g) PROVE IInv'
    BY <2>3, GroupUnrefedStep
  <2>4. CASE ConnectionSent
    BY <2>4, ConnectionSentStep
  <2>5. CASE Close
    BY <2>5, CloseStep
  <2>6. CASE UNCHANGED vars
    <3>1. /\ TypeOK' /\ ~failed' /\ ConnectionInv'
      BY <2>6 DEF vars, IInv, TypeOK, ConnectionInv, Registered
    <3>2. ASSUME NEW h \in Groups PROVE GroupInv(h)'
      <4>1. GroupInv(h) /\ SameOnWire(h)
        BY <2>6 DEF vars, IInv, SameOnWire
      <4> QED BY <2>6, <4>1, Frame DEF vars
    <3> QED BY <3>1, <3>2 DEF IInv
  <2> QED BY <2>5, <2>6, <2>1, <2>2, <2>3, <2>4 DEF Next
<1> QED BY <1>1, InitInv, PTL DEF Spec

\* The counters of an entry never fall below zero, and the queue, the wire and
\* what is reported hold messages.
THEOREM TypeCorrect == Spec => []TypeOK
<1>1. IInv => TypeOK
  BY DEF IInv
<1> QED BY <1>1, Invariance, PTL

\* No assertion of sent_cb fails, whatever the groups do from their methods.
THEOREM AssertionsHold == Spec => []NoAssertionFails
<1>1. IInv => NoAssertionFails
  BY DEF IInv, NoAssertionFails
<1> QED BY <1>1, Invariance, PTL

\* inner_count is what is left of the only bunch on its way.
THEOREM InnerCountAlways == Spec => []InnerCountExact
<1>1. IInv => InnerCountExact
  BY DEF IInv, GroupInv, InnerCountExact
<1> QED BY <1>1, Invariance, PTL

\* Messages are reported to the registration that sent them, and to no other.
THEOREM ReportsAlways == Spec => []ReportsMatchRegistration
<1>1. IInv => ReportsMatchRegistration
  BY DEF IInv, GroupInv, ReportsMatchRegistration
<1> QED BY <1>1, Invariance, PTL

------------------------------------------------------------------------------
(* The order of a group's messages *)

\* What a group still has to send, in parts: what is being reported, the bunches
\* on the wire, and last its queue.
Of(g, b) == IF b.group = g THEN b.messages ELSE <<>>

Part(g, b, w, q, k) ==
  IF k = 0 THEN Of(g, b) ELSE IF k \in DOMAIN w THEN Of(g, w[k]) ELSE q

Before(ms, ns) ==
  \A i \in DOMAIN ms, j \in DOMAIN ns : ms[i].number < ns[j].number

UpTo(n, ms) == \A i \in DOMAIN ms : ms[i].number <= n

\* Every part is in order, and each lies before the later ones.
Ordered(g, b, w, q, n) ==
  \A j, k \in 0 .. Len(w) + 1 :
    /\ Increasing(Part(g, b, w, q, j)) /\ UpTo(n, Part(g, b, w, q, j))
    /\ j < k => Before(Part(g, b, w, q, j), Part(g, b, w, q, k))

OrderInv ==
  \A g \in Groups : Ordered(g, sending, wire, entry[g].queue, scheduled[g])

\* The parts of a list of bunches.
LEMMA Parts ==
  ASSUME NEW w \in Seq(Bunches)
  PROVE  /\ Len(w) \in Nat /\ DOMAIN w = 1 .. Len(w)
         /\ \A k \in 0 .. Len(w) + 1 : k = 0 \/ k \in 1 .. Len(w) \/ k = Len(w) + 1
         /\ \A k \in 1 .. Len(w) : k # 0 /\ k # Len(w) + 1 /\ k \in Nat
                                   /\ k \in 0 .. Len(w) + 1
         /\ \A g, b, q : /\ Part(g, b, w, q, 0) = Of(g, b)
                         /\ Part(g, b, w, q, Len(w) + 1) = q
                         /\ \A k \in 1 .. Len(w) : Part(g, b, w, q, k) = Of(g, w[k])
         /\ 0 \in 0 .. Len(w) + 1 /\ Len(w) + 1 \in 0 .. Len(w) + 1
  BY DEF Part

LEMMA PartTypes ==
  ASSUME NEW b \in Bunches, NEW w \in Seq(Bunches), NEW q \in Seq(Messages),
         NEW g, NEW k \in 0 .. Len(w) + 1
  PROVE  Part(g, b, w, q, k) \in Seq(Messages)
<1>1. \A c \in Bunches : Of(g, c) \in Seq(Messages)
  <2>1. <<>> \in Seq(Messages)
    OBVIOUS
  <2> QED BY <2>1 DEF Of, Bunches
<1>2. \A i \in 1 .. Len(w) : w[i] \in Bunches
  OBVIOUS
<1>3. CASE k = 0
  <2>1. Part(g, b, w, q, k) = Of(g, b)
    BY <1>3 DEF Part
  <2> QED BY <1>1, <2>1
<1>4. CASE k \in 1 .. Len(w)
  <2>1. k # 0 /\ k \in DOMAIN w
    BY <1>4
  <2>2. Part(g, b, w, q, k) = Of(g, w[k])
    BY <2>1 DEF Part
  <2> QED BY <1>1, <1>2, <1>4, <2>2
<1>5. CASE k = Len(w) + 1
  <2>1. k # 0 /\ k \notin DOMAIN w
    BY <1>5
  <2>2. Part(g, b, w, q, k) = q
    BY <2>1 DEF Part
  <2> QED BY <2>2
<1> QED BY <1>3, <1>4, <1>5, Parts

LEMMA NumberTypes ==
  ASSUME NEW ms \in Seq(Messages), NEW i \in DOMAIN ms
  PROVE  ms[i].number \in Nat
<1>1. ms[i] \in Messages
  OBVIOUS
<1> QED BY <1>1 DEF Messages

LEMMA EmptyIsOrdered ==
  /\ Increasing(<<>>) /\ \A n : UpTo(n, <<>>)
  /\ \A ms : Before(ms, <<>>) /\ Before(<<>>, ms)
BY DEF Increasing, UpTo, Before

\* Every part that has messages is, by f, a part of before, in the same order.
FromParts(f, g, b, w, q, c, v, r) ==
  /\ f \in [0 .. Len(v) + 1 -> 0 .. Len(w) + 1]
  /\ \A j, k \in 0 .. Len(v) + 1 :
       j < k => \/ f[j] < f[k]
                \/ Part(g, c, v, r, j) = <<>> \/ Part(g, c, v, r, k) = <<>>
  /\ \A k \in 0 .. Len(v) + 1 :
       Part(g, c, v, r, k) \in {Part(g, b, w, q, f[k]), <<>>}

\* Then the order is kept.
LEMMA OrderKept ==
  ASSUME NEW g, NEW b, NEW w, NEW q, NEW n, NEW c, NEW v, NEW r,
         Ordered(g, b, w, q, n), NEW f, FromParts(f, g, b, w, q, c, v, r)
  PROVE  Ordered(g, c, v, r, n)
<1> SUFFICES ASSUME NEW j \in 0 .. Len(v) + 1, NEW k \in 0 .. Len(v) + 1
             PROVE  /\ Increasing(Part(g, c, v, r, j)) /\ UpTo(n, Part(g, c, v, r, j))
                    /\ j < k => Before(Part(g, c, v, r, j), Part(g, c, v, r, k))
  BY DEF Ordered
<1>1. f[j] \in 0 .. Len(w) + 1 /\ f[k] \in 0 .. Len(w) + 1
  BY DEF FromParts
<1>2. /\ Increasing(Part(g, b, w, q, f[j])) /\ UpTo(n, Part(g, b, w, q, f[j]))
      /\ f[j] < f[k] => Before(Part(g, b, w, q, f[j]), Part(g, b, w, q, f[k]))
  BY <1>1 DEF Ordered
<1> QED BY <1>2, EmptyIsOrdered DEF FromParts

\* The queue is longer by a message with the next number.
LEMMA OrderedAppend ==
  ASSUME NEW g, NEW b \in Bunches, NEW w \in Seq(Bunches), NEW q \in Seq(Messages),
         NEW n \in Nat, Ordered(g, b, w, q, n),
         NEW xml \in Messages, xml.number = n + 1
  PROVE  Ordered(g, b, w, Append(q, xml), n + 1)
<1> DEFINE p == Append(q, xml)
           last == Len(w) + 1
           Old(k) == Part(g, b, w, q, k)
           New(k) == Part(g, b, w, p, k)
<1>1. /\ p \in Seq(Messages) /\ Len(p) = Len(q) + 1 /\ Len(q) \in Nat
      /\ p[Len(q) + 1] = xml /\ \A i \in 1 .. Len(q) : p[i] = q[i]
      /\ DOMAIN p = 1 .. Len(q) + 1 /\ DOMAIN q = 1 .. Len(q)
      /\ \A i \in 1 .. Len(q) + 1 : i \in 1 .. Len(q) \/ i = Len(q) + 1
  OBVIOUS
<1>2. \A ms \in Seq(Messages) : \A i : i \in DOMAIN ms => ms[i].number \in Nat
  BY NumberTypes
<1>3. \A k \in 0 .. last : Old(k) \in Seq(Messages)
  BY PartTypes
<1>4. \A k \in 0 .. last : k # last => New(k) = Old(k)
  BY DEF Part
<1>5. New(last) = p /\ Old(last) = q /\ last \in 0 .. last /\ last \in Nat
  <2>1. last \in 0 .. last /\ last \in Nat /\ last # 0 /\ last \notin DOMAIN w
    BY Parts
  <2> QED BY <2>1 DEF Part
<1>6. \A j, k \in 0 .. last : /\ Increasing(Old(j)) /\ UpTo(n, Old(j))
                              /\ j < k => Before(Old(j), Old(k))
  BY DEF Ordered
<1> HIDE DEF p, Old, New, last
<1>7. \A k \in 0 .. last : UpTo(n + 1, Old(k))
  BY <1>2, <1>3, <1>6 DEF UpTo
<1>8. Increasing(p) /\ UpTo(n + 1, p)
  <2>1. Increasing(q) /\ UpTo(n, q)
    BY <1>5, <1>6
  <2>2. ASSUME NEW i \in DOMAIN p, NEW j \in DOMAIN p, i < j
        PROVE  p[i].number < p[j].number
    <3>1. CASE j \in 1 .. Len(q)
      <4>1. i \in 1 .. Len(q)
        BY <1>1, <2>2, <3>1
      <4> QED BY <1>1, <2>1, <2>2, <3>1, <4>1 DEF Increasing
    <3>2. CASE j = Len(q) + 1
      <4>1. i \in 1 .. Len(q)
        BY <1>1, <2>2, <3>2
      <4>2. q[i].number \in Nat /\ q[i].number <= n
        BY <1>1, <1>2, <2>1, <4>1 DEF UpTo
      <4> QED BY <1>1, <3>2, <4>1, <4>2
    <3> QED BY <1>1, <3>1, <3>2
  <2>3. ASSUME NEW i \in DOMAIN p PROVE p[i].number <= n + 1
    <3>1. CASE i \in 1 .. Len(q)
      <4>1. q[i].number \in Nat /\ q[i].number <= n
        BY <1>1, <1>2, <2>1, <3>1 DEF UpTo
      <4> QED BY <1>1, <3>1, <4>1
    <3>2. CASE i = Len(q) + 1
      BY <1>1, <3>2
    <3> QED BY <1>1, <3>1, <3>2
  <2> QED BY <2>2, <2>3 DEF Increasing, UpTo
<1>9. ASSUME NEW k \in 0 .. last, k < last PROVE Before(Old(k), p)
  <2>1. Before(Old(k), q) /\ UpTo(n, Old(k))
    BY <1>5, <1>6, <1>9
  <2>2. ASSUME NEW i \in DOMAIN Old(k), NEW j \in DOMAIN p
        PROVE  Old(k)[i].number < p[j].number
    <3>1. CASE j \in 1 .. Len(q)
      BY <1>1, <2>1, <3>1 DEF Before
    <3>2. CASE j = Len(q) + 1
      <4>1. Old(k)[i].number \in Nat /\ Old(k)[i].number <= n
        BY <1>2, <1>3, <2>1 DEF UpTo
      <4> QED BY <1>1, <3>2, <4>1
    <3> QED BY <1>1, <3>1, <3>2
  <2> QED BY <2>2 DEF Before
<1>10. ASSUME NEW j \in 0 .. last, NEW k \in 0 .. last
       PROVE  /\ Increasing(New(j)) /\ UpTo(n + 1, New(j))
              /\ j < k => Before(New(j), New(k))
  <2>1. Increasing(New(j)) /\ UpTo(n + 1, New(j))
    BY <1>4, <1>5, <1>6, <1>7, <1>8
  <2>2. ASSUME j < k PROVE Before(New(j), New(k))
    <3>1. j # last /\ j < last
      BY <1>5, <2>2
    <3>2. CASE k = last
      BY <1>4, <1>5, <1>9, <3>1, <3>2
    <3>3. CASE k # last
      BY <1>4, <1>6, <2>2, <3>1, <3>3
    <3> QED BY <3>2, <3>3
  <2> QED BY <2>1, <2>2
<1> QED BY <1>10 DEF Ordered, New, last, p

\* The first n messages of the queue become a bunch of their own.
LEMMA OrderedBunch ==
  ASSUME NEW g, NEW b \in Bunches, NEW w \in Seq(Bunches), NEW q \in Seq(Messages),
         NEW n \in Nat, Ordered(g, b, w, q, n),
         NEW x \in Bunches, x.group = g, NEW r \in Seq(Messages), NEW m \in 0 .. Len(q),
         Len(x.messages) = m, Len(r) = Len(q) - m,
         \A i \in 1 .. m : x.messages[i] = q[i],
         \A i \in 1 .. Len(q) - m : r[i] = q[m + i]
  PROVE  Ordered(g, b, Append(w, x), r, n)
<1> DEFINE v == Append(w, x)
           p == x.messages
           last == Len(w) + 1
           Old(k) == Part(g, b, w, q, k)
           New(k) == Part(g, b, v, r, k)
<1>1. /\ v \in Seq(Bunches) /\ Len(v) = last /\ Len(w) \in Nat /\ last \in Nat
      /\ v[last] = x /\ \A k \in 1 .. Len(w) : v[k] = w[k]
      /\ last \in DOMAIN v /\ last + 1 \notin DOMAIN v /\ last + 1 # 0 /\ last # 0
      /\ \A k \in 0 .. last + 1 : k \in 0 .. Len(w) \/ k = last \/ k = last + 1
      /\ \A k \in 0 .. Len(w) : k < last /\ k \in Nat /\ k \in 0 .. last
                                /\ (k # 0 => k \in 1 .. Len(w))
      /\ last \in 0 .. last
  OBVIOUS
<1>2. \A k \in 0 .. Len(w) : New(k) = Old(k)
  <2> SUFFICES ASSUME NEW k \in 0 .. Len(w) PROVE New(k) = Old(k)
    OBVIOUS
  <2>1. CASE k = 0
    BY <2>1 DEF Part
  <2>2. CASE k # 0
    <3>1. k \in DOMAIN w /\ k \in DOMAIN v /\ v[k] = w[k]
      BY <1>1, <2>2
    <3> QED BY <3>1, <2>2 DEF Part
  <2> QED BY <2>1, <2>2
<1>3. New(last) = p /\ New(last + 1) = r
  BY <1>1 DEF Part, Of
<1>4. Old(last) = q
  <2>1. last # 0 /\ last \notin DOMAIN w
    BY <1>1
  <2> QED BY <2>1 DEF Part
<1>5. \A j, k \in 0 .. last : /\ Increasing(Old(j)) /\ UpTo(n, Old(j))
                              /\ j < k => Before(Old(j), Old(k))
  BY DEF Ordered
<1>6. Increasing(q) /\ UpTo(n, q)
  BY <1>1, <1>4, <1>5
<1>7. /\ DOMAIN p = 1 .. m /\ DOMAIN r = 1 .. Len(q) - m /\ DOMAIN q = 1 .. Len(q)
      /\ Len(q) \in Nat /\ m \in Nat /\ p \in Seq(Messages)
  BY DEF Bunches
<1>8. \A i \in DOMAIN p : i \in DOMAIN q /\ p[i] = q[i] /\ i \in Nat /\ i <= m
  BY <1>7
<1>9. \A i \in DOMAIN r : m + i \in DOMAIN q /\ r[i] = q[m + i] /\ i \in Nat /\ i > 0
  BY <1>7
<1>10. /\ Increasing(p) /\ UpTo(n, p) /\ Increasing(r) /\ UpTo(n, r) /\ Before(p, r)
  <2>1. Increasing(p) /\ UpTo(n, p)
    BY <1>6, <1>8 DEF Increasing, UpTo
  <2>2. UpTo(n, r)
    BY <1>6, <1>9 DEF UpTo
  <2>3. ASSUME NEW i \in DOMAIN r, NEW j \in DOMAIN r, i < j
        PROVE  r[i].number < r[j].number
    <3>1. m + i < m + j
      BY <1>7, <1>9, <2>3
    <3> QED BY <1>6, <1>9, <3>1 DEF Increasing
  <2>4. ASSUME NEW i \in DOMAIN p, NEW j \in DOMAIN r
        PROVE  p[i].number < r[j].number
    <3>1. i < m + j
      BY <1>7, <1>8, <1>9
    <3> QED BY <1>6, <1>8, <1>9, <3>1 DEF Increasing
  <2> QED BY <2>1, <2>2, <2>3, <2>4 DEF Increasing, Before
<1>11. \A k \in 0 .. Len(w) : Before(Old(k), p) /\ Before(Old(k), r)
  <2> SUFFICES ASSUME NEW k \in 0 .. Len(w)
               PROVE  Before(Old(k), p) /\ Before(Old(k), r)
    OBVIOUS
  <2>1. Before(Old(k), q)
    BY <1>1, <1>4, <1>5
  <2> QED BY <2>1, <1>8, <1>9 DEF Before
<1> HIDE DEF v, p, last, Old, New
<1>12. ASSUME NEW j \in 0 .. last + 1, NEW k \in 0 .. last + 1
       PROVE  /\ Increasing(New(j)) /\ UpTo(n, New(j))
              /\ j < k => Before(New(j), New(k))
  <2>1. Increasing(New(j)) /\ UpTo(n, New(j))
    BY <1>1, <1>2, <1>3, <1>5, <1>10
  <2>2. ASSUME j < k PROVE Before(New(j), New(k))
    <3>1. CASE k \in 0 .. Len(w)
      <4>1. j \in 0 .. Len(w)
        BY <1>1, <2>2, <3>1
      <4> QED BY <1>1, <1>2, <1>5, <2>2, <3>1, <4>1
    <3>2. CASE k = last
      <4>1. j \in 0 .. Len(w)
        BY <1>1, <2>2, <3>2
      <4> QED BY <1>2, <1>3, <1>11, <3>2, <4>1
    <3>3. CASE k = last + 1
      <4>1. j \in 0 .. Len(w) \/ j = last
        BY <1>1, <2>2, <3>3
      <4> QED BY <1>2, <1>3, <1>10, <1>11, <3>3, <4>1
    <3> QED BY <1>1, <3>1, <3>2, <3>3
  <2> QED BY <2>1, <2>2
<1> QED BY <1>1, <1>12 DEF Ordered, New, v

\* Another group's bunch is put on the wire.
LEMMA OrderedOther ==
  ASSUME NEW g, NEW b, NEW w \in Seq(Bunches), NEW q \in Seq(Messages),
         NEW n, Ordered(g, b, w, q, n), NEW x \in Bunches, x.group # g
  PROVE  Ordered(g, b, Append(w, x), q, n)
<1> DEFINE v == Append(w, x)
           last == Len(w) + 1
           f == [k \in 0 .. last + 1 |-> IF k = last + 1 THEN last ELSE k]
<1>1. /\ v \in Seq(Bunches) /\ Len(v) = last /\ Len(w) \in Nat /\ last \in Nat
      /\ v[last] = x /\ \A k \in 1 .. Len(w) : v[k] = w[k]
      /\ last \in DOMAIN v /\ last + 1 \notin DOMAIN v /\ last + 1 # 0 /\ last # 0
      /\ last \notin DOMAIN w
  OBVIOUS
<1>2. f \in [0 .. last + 1 -> 0 .. last]
  BY <1>1
<1>3. ASSUME NEW k \in 0 .. last + 1
      PROVE  \/ Part(g, b, v, q, k) = Part(g, b, w, q, f[k]) /\ k # last
             \/ Part(g, b, v, q, k) = <<>> /\ k = last
  <2>1. CASE k = last
    BY <1>1, <2>1 DEF Part, Of
  <2>2. CASE k = last + 1
    <3>1. f[k] = last /\ k # 0 /\ k \notin DOMAIN v
      BY <1>1, <2>2
    <3> QED BY <1>1, <2>2, <3>1 DEF Part
  <2>3. CASE k = 0
    <3>1. f[k] = 0
      BY <1>1, <2>3
    <3> QED BY <1>1, <2>3, <3>1 DEF Part
  <2>4. CASE k \in 1 .. Len(w)
    <3>1. f[k] = k /\ k # 0 /\ k \in DOMAIN w /\ k \in DOMAIN v /\ v[k] = w[k] /\ k # last
      BY <1>1, <2>4
    <3> QED BY <3>1 DEF Part
  <2> QED BY <1>1, <2>1, <2>2, <2>3, <2>4
<1>4. ASSUME NEW j \in 0 .. last + 1, NEW k \in 0 .. last + 1, j < k
      PROVE  \/ f[j] < f[k]
             \/ Part(g, b, v, q, j) = <<>> \/ Part(g, b, v, q, k) = <<>>
  <2>1. CASE j = last \/ k = last
    BY <1>1, <1>3, <2>1
  <2>2. CASE j # last /\ k # last
    BY <1>1, <1>4, <2>2
  <2> QED BY <2>1, <2>2
<1> HIDE DEF v, last, f
<1>5. Ordered(g, b, v, q, n)
  <2>1. FromParts(f, g, b, w, q, b, v, q)
    BY <1>1, <1>2, <1>3, <1>4 DEF FromParts, last
  <2> QED BY <2>1, OrderKept
<1> QED BY <1>5 DEF v

\* What was being reported, or the queue, is gone or unchanged.
LEMMA OrderedFewer ==
  ASSUME NEW g, NEW b, NEW w \in Seq(Bunches), NEW q, NEW n, Ordered(g, b, w, q, n),
         NEW c, Of(g, c) \in {Of(g, b), <<>>}, NEW r \in {q, <<>>}
  PROVE  Ordered(g, c, w, r, n)
<1> DEFINE f == [k \in 0 .. Len(w) + 1 |-> k]
<1>1. f \in [0 .. Len(w) + 1 -> 0 .. Len(w) + 1]
  OBVIOUS
<1>2. \A k \in 0 .. Len(w) + 1 :
         Part(g, c, w, r, k) \in {Part(g, b, w, q, f[k]), <<>>}
  BY DEF Part
<1>3. FromParts(f, g, b, w, q, c, w, r)
  BY <1>1, <1>2 DEF FromParts
<1> HIDE DEF f
<1> QED BY <1>3, OrderKept

\* The first bunch on the wire is reported next, or to nobody.
LEMMA OrderedSent ==
  ASSUME NEW g, NEW b, NEW w \in Seq(Bunches), w # <<>>, NEW q, NEW n,
         Ordered(g, b, w, q, n), NEW c, Of(g, c) \in {Of(g, Head(w)), <<>>}
  PROVE  Ordered(g, c, Tail(w), q, n)
<1> DEFINE v == Tail(w)
           last == Len(v) + 1
           f == [k \in 0 .. last |-> k + 1]
<1>1. /\ v \in Seq(Bunches) /\ Len(v) \in Nat /\ Len(w) = last /\ Head(w) = w[1]
      /\ last \in Nat /\ 1 \in DOMAIN w /\ last # 0
      /\ \A k \in 1 .. Len(v) : v[k] = w[k + 1] /\ k + 1 \in DOMAIN w /\ k + 1 # 0 /\ k # 0
      /\ DOMAIN v = 1 .. Len(v) /\ last + 1 \notin DOMAIN w /\ last + 1 # 0
      /\ last \notin DOMAIN v
      /\ \A k \in 0 .. last : k = 0 \/ k \in 1 .. Len(v) \/ k = last
  OBVIOUS
<1>2. f \in [0 .. last -> 0 .. last + 1] /\ \A k \in 0 .. last : f[k] = k + 1
  <2>1. last \in Nat
    BY <1>1
  <2> HIDE DEF last
  <2>2. \A k \in 0 .. last : k + 1 \in 0 .. last + 1
    BY <2>1
  <2> QED BY <2>2
<1>3. ASSUME NEW k \in 0 .. last
      PROVE  Part(g, c, v, q, k) \in {Part(g, b, w, q, k + 1), <<>>}
  <2>1. CASE k = 0
    <3>1. Part(g, c, v, q, k) = Of(g, c) /\ k + 1 = 1
      BY <2>1 DEF Part
    <3>2. Part(g, b, w, q, 1) = Of(g, w[1])
      <4>1. 1 \in DOMAIN w
        BY <1>1
      <4>2. 1 # 0
        OBVIOUS
      <4> QED BY <4>1, <4>2 DEF Part
    <3> QED BY <1>1, <3>1, <3>2
  <2>2. CASE k \in 1 .. Len(v)
    BY <1>1, <2>2 DEF Part
  <2>3. CASE k = last
    BY <1>1, <2>3 DEF Part
  <2> QED BY <1>1, <2>1, <2>2, <2>3
<1> HIDE DEF v, last, f
<1>4. \A j, k \in 0 .. last : j < k => f[j] < f[k]
  <2>1. \A k \in 0 .. last : k \in Int /\ f[k] = k + 1
    BY <1>1, <1>2
  <2> QED BY <2>1
<1>5. FromParts(f, g, b, w, q, c, v, q)
  BY <1>1, <1>2, <1>3, <1>4 DEF FromParts, last
<1> QED BY <1>5, OrderKept DEF v

\* Nothing is on its way.
LEMMA OrderedNothing ==
  ASSUME NEW g, NEW b, Of(g, b) = <<>>, NEW n
  PROVE  Ordered(g, b, <<>>, <<>>, n)
<1>1. \A k : Part(g, b, <<>>, <<>>, k) = <<>>
  BY DEF Part
<1> QED BY <1>1, EmptyIsOrdered DEF Ordered

\* The first message of what is being reported is done with.
LEMMA OrderedTail ==
  ASSUME NEW g, NEW b \in Bunches, b.messages # <<>>,
         NEW w \in Seq(Bunches), NEW q, NEW n, Ordered(g, b, w, q, n),
         NEW c, c.group = b.group, c.messages = Tail(b.messages)
  PROVE  Ordered(g, c, w, q, n)
<1>1. CASE b.group # g
  <2>1. Of(g, c) \in {Of(g, b), <<>>} /\ q \in {q, <<>>}
    BY <1>1 DEF Of
  <2> QED BY <2>1, OrderedFewer
<1>2. CASE b.group = g
  <2> DEFINE ms == b.messages
             Old(k) == Part(g, b, w, q, k)
             New(k) == Part(g, c, w, q, k)
  <2>1. /\ Len(ms) \in Nat \ {0} /\ Len(Tail(ms)) = Len(ms) - 1
        /\ \A i \in DOMAIN Tail(ms) :
             /\ i \in Nat \ {0} /\ i + 1 \in DOMAIN ms
             /\ Tail(ms)[i] = ms[i + 1]
    BY TailFacts DEF Bunches
  <2>2. Old(0) = ms /\ New(0) = Tail(ms)
    BY <1>2 DEF Part, Of
  <2>3. \A k \in 0 .. Len(w) + 1 : k # 0 => New(k) = Old(k)
    BY DEF Part
  <2>4. \A j, k \in 0 .. Len(w) + 1 : /\ Increasing(Old(j)) /\ UpTo(n, Old(j))
                                      /\ j < k => Before(Old(j), Old(k))
    BY DEF Ordered
  <2>5. 0 \in 0 .. Len(w) + 1 /\ \A k \in 0 .. Len(w) + 1 : ~(k < 0)
    BY Parts
  <2>6. Increasing(ms) /\ UpTo(n, ms)
    BY <2>2, <2>4, <2>5
  <2> HIDE DEF ms, Old, New
  <2>7. Increasing(Tail(ms))
    <3>1. ASSUME NEW i \in DOMAIN Tail(ms), NEW j \in DOMAIN Tail(ms), i < j
          PROVE  Tail(ms)[i].number < Tail(ms)[j].number
      <4>1. i + 1 < j + 1
        BY <2>1, <3>1
      <4> QED BY <2>1, <2>6, <4>1 DEF Increasing
    <3> QED BY <3>1 DEF Increasing
  <2>8. UpTo(n, Tail(ms))
    BY <2>1, <2>6 DEF UpTo
  <2>9. ASSUME NEW k \in 0 .. Len(w) + 1, 0 < k PROVE Before(Tail(ms), Old(k))
    <3>1. Before(ms, Old(k))
      BY <2>2, <2>4, <2>5, <2>9
    <3> QED BY <2>1, <3>1 DEF Before
  <2>10. \A j, k \in 0 .. Len(w) + 1 : /\ Increasing(New(j)) /\ UpTo(n, New(j))
                                       /\ j < k => Before(New(j), New(k))
    <3> SUFFICES ASSUME NEW j \in 0 .. Len(w) + 1, NEW k \in 0 .. Len(w) + 1
                 PROVE  /\ Increasing(New(j)) /\ UpTo(n, New(j))
                        /\ j < k => Before(New(j), New(k))
      OBVIOUS
    <3>1. Increasing(New(j)) /\ UpTo(n, New(j))
      BY <2>2, <2>3, <2>4, <2>7, <2>8
    <3>2. ASSUME j < k PROVE Before(New(j), New(k))
      <4>1. k # 0 /\ New(k) = Old(k)
        BY <2>3, <2>5, <3>2
      <4>2. CASE j = 0
        BY <2>2, <2>9, <3>2, <4>1, <4>2
      <4>3. CASE j # 0
        BY <2>3, <2>4, <3>2, <4>1, <4>3
      <4> QED BY <4>2, <4>3
    <3> QED BY <3>1, <3>2
  <2> QED BY <2>10 DEF Ordered, New
<1> QED BY <1>1, <1>2

------------------------------------------------------------------------------
(* All parts together *)

LEMMA JoinedOrder ==
  ASSUME NEW ms \in Seq(Messages), NEW ns \in Seq(Messages)
  PROVE  /\ ms \o ns \in Seq(Messages)
         /\ Increasing(ms) /\ Increasing(ns) /\ Before(ms, ns) => Increasing(ms \o ns)
         /\ \A xs : Before(ms, xs) /\ Before(ns, xs) => Before(ms \o ns, xs)
<1> DEFINE all == ms \o ns
<1>1. /\ all \in Seq(Messages) /\ Len(ms) \in Nat /\ Len(ns) \in Nat
      /\ DOMAIN ms = 1 .. Len(ms) /\ DOMAIN ns = 1 .. Len(ns)
      /\ Len(all) = Len(ms) + Len(ns) /\ DOMAIN all = 1 .. Len(ms) + Len(ns)
  OBVIOUS
<1>2. \A i \in DOMAIN all :
        \/ i \in DOMAIN ms /\ all[i] = ms[i] /\ i <= Len(ms)
        \/ i - Len(ms) \in DOMAIN ns /\ all[i] = ns[i - Len(ms)] /\ i > Len(ms)
  OBVIOUS
<1>3. \A i \in DOMAIN all : i \in Nat
  BY <1>1
<1> HIDE DEF all
<1>4. ASSUME Increasing(ms), Increasing(ns), Before(ms, ns),
             NEW i \in DOMAIN all, NEW j \in DOMAIN all, i < j
      PROVE  all[i].number < all[j].number
  <2>1. CASE j \in DOMAIN ms /\ all[j] = ms[j] /\ j <= Len(ms)
    <3>1. i \in DOMAIN ms /\ all[i] = ms[i]
      BY <1>1, <1>2, <1>3, <1>4, <2>1
    <3> QED BY <1>4, <2>1, <3>1 DEF Increasing
  <2>2. CASE j - Len(ms) \in DOMAIN ns /\ all[j] = ns[j - Len(ms)] /\ j > Len(ms)
    <3>1. CASE i \in DOMAIN ms /\ all[i] = ms[i]
      BY <1>4, <2>2, <3>1 DEF Before
    <3>2. CASE i - Len(ms) \in DOMAIN ns /\ all[i] = ns[i - Len(ms)]
      <4>1. i - Len(ms) < j - Len(ms)
        BY <1>1, <1>3, <1>4
      <4> QED BY <1>4, <2>2, <3>2, <4>1 DEF Increasing
    <3> QED BY <1>2, <3>1, <3>2
  <2> QED BY <1>2, <2>1, <2>2
<1>5. \A xs : Before(ms, xs) /\ Before(ns, xs) => Before(all, xs)
  BY <1>2 DEF Before
<1> QED BY <1>1, <1>4, <1>5 DEF Increasing, all

\* Every non-empty set of numbers has a least member.
LEMMA Least ==
  ASSUME NEW S, S \subseteq Nat, S # {}
  PROVE  \E x \in S : \A y \in S : x <= y
<1>1. \E x \in S : \A y \in S : ~(<<y, x>> \in OpToRel(<, Nat))
  BY NatLessThanWellFounded, WFMin
<1>2. PICK x \in S : \A y \in S : ~(<<y, x>> \in OpToRel(<, Nat))
  BY <1>1
<1>3. ASSUME NEW y \in S PROVE x <= y
  <2>1. x \in Nat /\ y \in Nat
    BY <1>3
  <2>2. ~(y < x)
    BY <1>2, <1>3, <2>1 DEF OpToRel
  <2> QED BY <2>1, <2>2
<1> QED BY <1>2, <1>3

\* f joins what is being reported with the bunches up to number n.
Joins(f, g, b, w, n) ==
  /\ f \in [0 .. n -> Seq(Messages)]
  /\ f[0] = Of(g, b)
  /\ \A k \in 1 .. n : f[k] = f[k - 1] \o Of(g, w[k])

\* There is such a function, for every n.
LEMMA JoinExists ==
  ASSUME NEW g, NEW b \in Bunches, NEW w \in Seq(Bunches)
  PROVE  \A n \in 0 .. Len(w) : \E f : Joins(f, g, b, w, n)
<1> DEFINE Missing == {n \in 0 .. Len(w) : ~\E f : Joins(f, g, b, w, n)}
<1>1. /\ \A k \in 1 .. Len(w) : Of(g, w[k]) \in Seq(Messages)
      /\ Of(g, b) \in Seq(Messages) /\ Len(w) \in Nat
  <2>1. \A c \in Bunches : Of(g, c) \in Seq(Messages)
    <3>1. <<>> \in Seq(Messages)
      OBVIOUS
    <3> QED BY <3>1 DEF Of, Bunches
  <2>2. \A i \in 1 .. Len(w) : w[i] \in Bunches
    OBVIOUS
  <2> QED BY <2>1, <2>2
<1>2. ASSUME Missing # {} PROVE FALSE
  <2>1. PICK m \in Missing : \A n \in Missing : m <= n
    <3>1. Missing \subseteq Nat
      OBVIOUS
    <3> HIDE DEF Missing
    <3> QED BY <1>2, <3>1, Least
  <2>2. m \in 0 .. Len(w) /\ ~\E f : Joins(f, g, b, w, m)
    BY <2>1
  <2>3. m # 0
    <3> DEFINE f == [k \in 0 .. 0 |-> Of(g, b)]
    <3>1. Joins(f, g, b, w, 0)
      BY <1>1 DEF Joins
    <3> QED BY <2>2, <3>1
  <2>4. m - 1 \in 0 .. Len(w) /\ m - 1 \notin Missing /\ m \in 1 .. Len(w)
    <3>1. m - 1 \in 0 .. Len(w) /\ m \in 1 .. Len(w) /\ ~(m <= m - 1)
      BY <1>1, <2>2, <2>3
    <3> HIDE DEF Missing
    <3> QED BY <2>1, <3>1
  <2>5. PICK f : Joins(f, g, b, w, m - 1)
    BY <2>4
  <2> DEFINE rest == Of(g, w[m])
             h == [k \in 0 .. m |-> IF k = m THEN f[m - 1] \o rest ELSE f[k]]
  <2>6. /\ f \in [0 .. m - 1 -> Seq(Messages)] /\ f[0] = Of(g, b)
        /\ \A k \in 1 .. m - 1 : f[k] = f[k - 1] \o Of(g, w[k])
        /\ m \in Nat /\ m - 1 \in 0 .. m - 1
        /\ \A k \in 0 .. m : k # m => k \in 0 .. m - 1
    <3>1. /\ f \in [0 .. m - 1 -> Seq(Messages)] /\ f[0] = Of(g, b)
          /\ \A k \in 1 .. m - 1 : f[k] = f[k - 1] \o Of(g, w[k])
      BY <2>5 DEF Joins
    <3>2. m \in Nat \ {0}
      BY <1>1, <2>2, <2>3
    <3>3. m \in Nat /\ m - 1 \in 0 .. m - 1
      BY <3>2
    <3>4. ASSUME NEW k \in 0 .. m, k # m PROVE k \in 0 .. m - 1
      BY <3>2, <3>4
    <3> QED BY <3>1, <3>3, <3>4
  <2>7. rest \in Seq(Messages)
    BY <1>1, <2>4
  <2>8. f[m - 1] \o rest \in Seq(Messages)
    <3>1. f[m - 1] \in Seq(Messages)
      BY <2>6
    <3> HIDE DEF rest
    <3> QED BY <2>7, <3>1
  <2>9. h \in [0 .. m -> Seq(Messages)]
    BY <2>6, <2>8
  <2>10. h[0] = Of(g, b)
    BY <2>3, <2>6
  <2>11. ASSUME NEW k \in 1 .. m PROVE h[k] = h[k - 1] \o Of(g, w[k])
    <3>1. CASE k = m
      <4>1. h[m] = f[m - 1] \o rest /\ h[m - 1] = f[m - 1]
        BY <2>6
      <4> QED BY <3>1, <4>1
    <3>2. CASE k # m
      <4>1. k \in 1 .. m - 1 /\ k - 1 \in 0 .. m /\ k - 1 # m /\ k \in 0 .. m
        BY <2>6, <3>2
      <4>2. h[k] = f[k] /\ h[k - 1] = f[k - 1]
        BY <3>2, <4>1
      <4> QED BY <2>6, <4>1, <4>2
    <3> QED BY <3>1, <3>2
  <2> HIDE DEF h
  <2>12. Joins(h, g, b, w, m)
    BY <2>9, <2>10, <2>11 DEF Joins
  <2> QED BY <2>2, <2>12
<1> QED BY <1>2

\* As SentInOrder joins them.
Join(g, b, w) ==
  LET Flat[n \in 0 .. Len(w)] == IF n = 0 THEN Of(g, b) ELSE Flat[n - 1] \o Of(g, w[n])
  IN  Flat

LEMMA JoinSteps ==
  ASSUME NEW g, NEW b \in Bunches, NEW w \in Seq(Bunches)
  PROVE  /\ Join(g, b, w)[0] = Of(g, b)
         /\ \A k \in 1 .. Len(w) : Join(g, b, w)[k] = Join(g, b, w)[k - 1] \o Of(g, w[k])
<1> DEFINE Round(f) == [k \in 0 .. Len(w) |->
                          IF k = 0 THEN Of(g, b) ELSE f[k - 1] \o Of(g, w[k])]
           J == CHOOSE f : f = Round(f)
<1>1. Join(g, b, w) = J
  BY DEF Join
<1>2. Len(w) \in Nat /\ Len(w) \in 0 .. Len(w)
  OBVIOUS
<1>3. \E f : f = Round(f)
  <2>1. PICK f : Joins(f, g, b, w, Len(w))
    BY <1>2, JoinExists
  <2>2. /\ f \in [0 .. Len(w) -> Seq(Messages)] /\ f[0] = Of(g, b)
        /\ \A k \in 1 .. Len(w) : f[k] = f[k - 1] \o Of(g, w[k])
    BY <2>1 DEF Joins
  <2>3. ASSUME NEW k \in 0 .. Len(w) PROVE f[k] = Round(f)[k]
    <3>1. Round(f)[k] = IF k = 0 THEN Of(g, b) ELSE f[k - 1] \o Of(g, w[k])
      OBVIOUS
    <3>2. k = 0 \/ k \in 1 .. Len(w)
      BY <1>2
    <3>3. CASE k = 0
      BY <2>2, <3>1, <3>3
    <3>4. CASE k \in 1 .. Len(w) /\ k # 0
      BY <2>2, <3>1, <3>4
    <3> QED BY <3>2, <3>3, <3>4
  <2>4. f = Round(f)
    BY <2>2, <2>3
  <2> QED BY <2>4
<1>4. J = Round(J)
  BY <1>3
<1> HIDE DEF J
<1>5. \A k \in 0 .. Len(w) : J[k] = Round(J)[k]
  BY <1>4
<1>6. J[0] = Of(g, b)
  BY <1>2, <1>5
<1>7. ASSUME NEW k \in 1 .. Len(w) PROVE J[k] = J[k - 1] \o Of(g, w[k])
  <2>1. k \in 0 .. Len(w) /\ k # 0
    BY <1>2
  <2>2. J[k] = Round(J)[k]
    BY <1>5, <2>1
  <2> QED BY <2>1, <2>2
<1> QED BY <1>1, <1>6, <1>7

\* Joined in order, the parts are in order.
LEMMA JoinInOrder ==
  ASSUME NEW g, NEW b \in Bunches, NEW w \in Seq(Bunches), NEW q \in Seq(Messages),
         NEW n, Ordered(g, b, w, q, n)
  PROVE  Increasing(Join(g, b, w)[Len(w)] \o q)
<1> DEFINE J == Join(g, b, w)
           P(k) == Part(g, b, w, q, k)
           Good(m) == /\ J[m] \in Seq(Messages) /\ Increasing(J[m])
                      /\ \A k \in 0 .. Len(w) + 1 : m < k => Before(J[m], P(k))
           Bad == {m \in 0 .. Len(w) : ~Good(m)}
<1>1. /\ Len(w) \in Nat /\ P(0) = Of(g, b) /\ P(Len(w) + 1) = q
      /\ \A k \in 1 .. Len(w) : P(k) = Of(g, w[k])
      /\ Len(w) + 1 \in 0 .. Len(w) + 1 /\ 0 \in 0 .. Len(w) + 1
  <2>1. Len(w) \in Nat /\ Len(w) + 1 \in 0 .. Len(w) + 1 /\ 0 \in 0 .. Len(w) + 1
    BY Parts
  <2>2. P(0) = Of(g, b)
    BY DEF Part
  <2>3. P(Len(w) + 1) = q
    <3>1. Len(w) + 1 # 0 /\ Len(w) + 1 \notin DOMAIN w
      BY <2>1
    <3> QED BY <3>1 DEF Part
  <2>4. ASSUME NEW k \in 1 .. Len(w) PROVE P(k) = Of(g, w[k])
    <3>1. k # 0 /\ k \in DOMAIN w
      BY <2>4
    <3> QED BY <3>1 DEF Part
  <2> QED BY <2>1, <2>2, <2>3, <2>4
<1>2. \A k \in 0 .. Len(w) + 1 : P(k) \in Seq(Messages)
  BY PartTypes
<1>3. \A j, k \in 0 .. Len(w) + 1 : Increasing(P(j)) /\ (j < k => Before(P(j), P(k)))
  BY DEF Ordered
<1>4. /\ J[0] = Of(g, b)
      /\ \A k \in 1 .. Len(w) : J[k] = J[k - 1] \o Of(g, w[k])
  BY JoinSteps
<1> HIDE DEF J, P
<1>5. ASSUME Bad # {} PROVE FALSE
  <2>1. PICK m \in Bad : \A k \in Bad : m <= k
    <3>1. Bad \subseteq Nat
      BY <1>1
    <3> HIDE DEF Bad
    <3> QED BY <1>5, <3>1, Least
  <2>2. m \in 0 .. Len(w) /\ ~Good(m)
    BY <2>1
  <2>3. m # 0
    BY <1>1, <1>2, <1>3, <1>4, <2>2
  <2>4. m - 1 \in 0 .. Len(w) /\ m - 1 \notin Bad /\ m \in 1 .. Len(w)
    <3>1. m - 1 \in 0 .. Len(w) /\ m \in 1 .. Len(w) /\ ~(m <= m - 1)
      BY <1>1, <2>2, <2>3
    <3> HIDE DEF Bad
    <3> QED BY <2>1, <3>1
  <2>5. Good(m - 1)
    BY <2>4
  <2> DEFINE ms == J[m - 1]
             ns == P(m)
  <2>6. /\ ms \in Seq(Messages) /\ Increasing(ms)
        /\ \A k \in 0 .. Len(w) + 1 : m - 1 < k => Before(ms, P(k))
    BY <2>5
  <2>7. m \in 0 .. Len(w) + 1 /\ m - 1 < m
    BY <1>1, <2>4
  <2>8. ns \in Seq(Messages) /\ Increasing(ns) /\ Before(ms, ns)
    BY <1>2, <1>3, <2>6, <2>7
  <2>9. J[m] = ms \o ns
    BY <1>1, <1>4, <2>4
  <2> HIDE DEF ms, ns
  <2>10. J[m] \in Seq(Messages) /\ Increasing(J[m])
    BY <2>6, <2>8, <2>9, JoinedOrder
  <2>11. ASSUME NEW k \in 0 .. Len(w) + 1, m < k PROVE Before(J[m], P(k))
    <3>1. m - 1 < k
      BY <2>4, <2>11, <1>1
    <3>2. Before(ms, P(k)) /\ Before(ns, P(k))
      BY <1>3, <2>6, <2>7, <2>11, <3>1 DEF ns
    <3> QED BY <2>6, <2>8, <2>9, <3>2, JoinedOrder
  <2> QED BY <2>2, <2>10, <2>11
<1>6. Good(Len(w))
  <2>1. Len(w) \in 0 .. Len(w) /\ Len(w) \notin Bad
    BY <1>1, <1>5
  <2> QED BY <2>1
<1>7. Before(J[Len(w)], q) /\ Increasing(q)
  <2>1. Len(w) < Len(w) + 1
    BY <1>1
  <2> QED BY <1>1, <1>3, <1>6, <2>1
<1> QED BY <1>6, <1>7, JoinedOrder DEF J

LEMMA OrderImplies ==
  ASSUME TypeOK, OrderInv PROVE SentInOrder
<1>1. ASSUME NEW g \in Groups
      PROVE  Increasing(Join(g, sending, wire)[Len(wire)] \o entry[g].queue)
  <2>1. entry[g].queue \in Seq(Messages) /\ sending \in Bunches /\ wire \in Seq(Bunches)
    BY DEF TypeOK, Entries
  <2> QED BY <2>1, JoinInOrder DEF OrderInv
<1> QED BY <1>1 DEF SentInOrder, Join, Of

------------------------------------------------------------------------------
(* The steps keep the order *)

\* What is to be sent of h once entry e of g is stored is in order if e's queue is.
LEMMA StoreKeepsOrder ==
  ASSUME TypeOK, NEW g \in Groups, NEW e \in Entries, StoreAndSend(g, e),
         NEW h \in Groups, NEW b \in Bunches, NEW n \in Nat,
         Ordered(h, b, wire, IF h = g THEN e.queue ELSE entry[h].queue, n)
  PROVE  Ordered(h, b, wire', entry'[h].queue, n)
<1>1. entry \in [Groups -> Entries] /\ wire \in Seq(Bunches) /\ e.queue \in Seq(Messages)
  BY DEF TypeOK, Entries
<1>2. CASE e.inner_count = 0 /\ e.queue # <<>>
  <2> DEFINE x == Bunch(g, e)
             a == AfterBunch(e)
             m == BunchSize(e)
  <2>1. entry' = [entry EXCEPT ![g] = a] /\ wire' = Append(wire, x)
    BY <1>2 DEF StoreAndSend
  <2>2. /\ m \in 1 .. Len(e.queue) /\ x \in Bunches /\ x.group = g /\ Len(x.messages) = m
        /\ \A i \in 1 .. m : x.messages[i] = e.queue[i]
        /\ a \in Entries /\ Len(a.queue) = Len(e.queue) - m
        /\ \A i \in 1 .. Len(e.queue) - m : a.queue[i] = e.queue[m + i]
    BY <1>2, BunchFacts
  <2> HIDE DEF x, a, m
  <2>3. CASE h = g
    <3>1. entry'[h].queue = a.queue /\ a.queue \in Seq(Messages)
      BY <1>1, <2>1, <2>2, <2>3 DEF Entries
    <3>2. Ordered(g, b, wire, e.queue, n) /\ m \in 0 .. Len(e.queue)
      BY <1>1, <2>2, <2>3
    <3>3. Ordered(g, b, Append(wire, x), a.queue, n)
      BY <1>1, <2>2, <3>1, <3>2, OrderedBunch
    <3> QED BY <2>1, <2>3, <3>1, <3>3
  <2>4. CASE h # g
    <3>1. entry'[h].queue = entry[h].queue /\ entry[h].queue \in Seq(Messages)
      BY <1>1, <2>1, <2>4 DEF Entries
    <3>2. Ordered(h, b, Append(wire, x), entry[h].queue, n)
      BY <1>1, <2>2, <2>4, <3>1, OrderedOther
    <3> QED BY <2>1, <3>1, <3>2
  <2> QED BY <2>3, <2>4
<1>3. CASE ~(e.inner_count = 0 /\ e.queue # <<>>)
  <2>1. entry' = [entry EXCEPT ![g] = e] /\ wire' = wire
    BY <1>3 DEF StoreAndSend
  <2> QED BY <1>1, <2>1
<1> QED BY <1>2, <1>3

OrderOf(g) == Ordered(g, sending, wire, entry[g].queue, scheduled[g])

LEMMA OrderTypes ==
  ASSUME TypeOK, NEW g \in Groups
  PROVE  /\ entry[g] \in Entries /\ entry[g].queue \in Seq(Messages)
         /\ wire \in Seq(Bunches) /\ sending \in Bunches /\ scheduled[g] \in Nat
         /\ entry \in [Groups -> Entries] /\ scheduled \in [Groups -> Nat]
<1>1. entry[g] \in Entries
  BY DEF TypeOK
<1> QED BY <1>1 DEF TypeOK, Entries

\* Nobody's bunch is reported while none is.
LEMMA IdleOf ==
  ASSUME NEW g \in Groups
  PROVE  Of(g, Idle) = <<>> /\ Idle \in Bunches
BY RegistryAssumption DEF Of, Idle, Bunches

LEMMA SendOrder ==
  ASSUME IInv, OrderInv, NEW g \in Groups, Send(g), NEW h \in Groups
  PROVE  OrderOf(h)'
<1> DEFINE xml == [number |-> scheduled[g] + 1, period |-> period[g]]
           e == [entry[g] EXCEPT !.queue = Append(@, xml)]
<1>1. TypeOK /\ OrderOf(h) /\ period[g] \in Nat
  BY OfGroup DEF IInv, OrderInv, OrderOf
<1>2. /\ entry[g] \in Entries /\ entry[g].queue \in Seq(Messages)
      /\ wire \in Seq(Bunches) /\ sending \in Bunches /\ scheduled[g] \in Nat
      /\ scheduled[h] \in Nat /\ scheduled \in [Groups -> Nat]
  BY <1>1, OrderTypes
<1>3. xml \in Messages /\ xml.number = scheduled[g] + 1
  BY <1>1, <1>2 DEF Messages
<1>4. StoreAndSend(g, e) /\ sending' = sending
  BY DEF Send
<1>5. scheduled' = [scheduled EXCEPT ![g] = @ + 1]
  BY DEF Send
<1> HIDE DEF xml
<1>6. e \in Entries /\ e.queue = Append(entry[g].queue, xml)
  <2>1. Append(entry[g].queue, xml) \in Seq(Messages)
    BY <1>2, <1>3
  <2> QED BY <1>2, <2>1 DEF Entries
<1>7. scheduled'[h] \in Nat
  BY <1>2, <1>5
<1> HIDE DEF e
<1>8. Ordered(h, sending, wire, IF h = g THEN e.queue ELSE entry[h].queue, scheduled'[h])
  <2>1. CASE h = g
    <3>1. Ordered(g, sending, wire, entry[g].queue, scheduled[g])
      BY <1>1, <2>1 DEF OrderOf
    <3>2. Ordered(g, sending, wire, Append(entry[g].queue, xml), scheduled[g] + 1)
      BY <1>2, <1>3, <3>1, OrderedAppend
    <3>3. scheduled'[h] = scheduled[g] + 1
      BY <1>2, <1>5, <2>1
    <3> QED BY <1>6, <2>1, <3>2, <3>3
  <2>2. CASE h # g
    <3>1. scheduled'[h] = scheduled[h]
      BY <1>2, <1>5, <2>2
    <3> QED BY <1>1, <2>2, <3>1 DEF OrderOf
  <2> QED BY <2>1, <2>2
<1>9. Ordered(h, sending, wire', entry'[h].queue, scheduled'[h])
  BY <1>1, <1>2, <1>4, <1>6, <1>7, <1>8, StoreKeepsOrder
<1> QED BY <1>4, <1>9 DEF OrderOf

\* Calls which put nothing on the wire leave every queue as it was, or empty.
LEMMA FewerOrder ==
  ASSUME IInv, OrderInv, NEW h \in Groups,
         wire' = wire, scheduled' = scheduled,
         Of(h, sending') \in {Of(h, sending), <<>>},
         entry'[h].queue \in {entry[h].queue, <<>>}
  PROVE  OrderOf(h)'
<1>1. TypeOK /\ Ordered(h, sending, wire, entry[h].queue, scheduled[h])
  BY DEF IInv, OrderInv
<1>2. wire \in Seq(Bunches)
  BY <1>1, OrderTypes
<1>3. Ordered(h, sending', wire, entry'[h].queue, scheduled[h])
  BY <1>1, <1>2, OrderedFewer
<1> QED BY <1>3 DEF OrderOf

LEMMA CallOrder ==
  ASSUME IInv, OrderInv, NEW g \in Groups,
         CancelMessages(g) \/ Register(g) \/ Unregister(g) \/ CallSent(g),
         NEW h \in Groups
  PROVE  OrderOf(h)'
<1>1. TypeOK
  BY DEF IInv
<1>2. entry[g] \in Entries /\ entry \in [Groups -> Entries] /\ entry[h] \in Entries
  BY <1>1, OrderTypes
<1>3. wire' = wire /\ scheduled' = scheduled /\ sending' = sending
  BY DEF CancelMessages, Register, Unregister, CallSent
<1>4. entry'[h].queue \in {entry[h].queue, <<>>}
  <2>1. CASE h # g
    <3>1. entry'[h] = entry[h]
      BY <1>2, <2>1 DEF CancelMessages, Register, Unregister, CallSent
    <3> QED BY <3>1
  <2>2. CASE h = g
    <3>1. CASE CancelMessages(g)
      <4>1. entry'[g] = [entry[g] EXCEPT !.queue = <<>>]
        BY <1>2, <3>1 DEF CancelMessages
      <4> QED BY <1>2, <2>2, <4>1 DEF Entries
    <3>2. CASE Register(g)
      <4>1. entry'[g] = [entry[g] EXCEPT !.registered = TRUE]
        BY <1>2, <3>2 DEF Register
      <4> QED BY <1>2, <2>2, <4>1 DEF Entries
    <3>3. CASE Unregister(g)
      <4>1. \/ entry'[g] = [entry[g] EXCEPT !.registered = FALSE,
                              !.activation_count = entry[g].inner_count + Len(entry[g].queue)]
            \/ entry'[g] = NoEntry
        BY <1>2, <3>3 DEF Unregister
      <4>2. entry'[g] = NoEntry => entry'[g].queue = <<>>
        BY DEF NoEntry
      <4>3. entry'[g] # NoEntry => entry'[g].queue = entry[g].queue
        BY <1>2, <4>1 DEF Entries
      <4> QED BY <2>2, <4>2, <4>3
    <3>4. CASE CallSent(g)
      BY <2>2, <3>4 DEF CallSent
    <3> QED BY <3>1, <3>2, <3>3, <3>4
  <2> QED BY <2>1, <2>2
<1> QED BY <1>3, <1>4, FewerOrder

\* What the connection has sent is what is reported next.
LEMMA ConnectionSentOrder ==
  ASSUME IInv, OrderInv, ConnectionSent, NEW h \in Groups
  PROVE  OrderOf(h)'
<1>1. TypeOK /\ Ordered(h, sending, wire, entry[h].queue, scheduled[h])
  BY DEF IInv, OrderInv
<1>2. wire \in Seq(Bunches)
  BY <1>1, OrderTypes
<1>3. /\ wire # <<>> /\ wire' = Tail(wire) /\ sending' \in {Head(wire), Idle}
      /\ entry' = entry /\ scheduled' = scheduled
  BY DEF ConnectionSent
<1>4. Of(h, sending') \in {Of(h, Head(wire)), <<>>}
  BY <1>3, IdleOf
<1>5. Ordered(h, sending', Tail(wire), entry[h].queue, scheduled[h])
  BY <1>1, <1>2, <1>3, <1>4, OrderedSent
<1> QED BY <1>3, <1>5 DEF OrderOf

\* The next message is done with.
LEMMA NextOrder ==
  ASSUME IInv, OrderInv, NEW g \in Groups, NextMessage(g),
         sending.group = g, sending.messages # <<>>,
         wire' = wire, scheduled' = scheduled, NEW h \in Groups
  PROVE  OrderOf(h)'
<1>1. TypeOK /\ Ordered(h, sending, wire, entry[h].queue, scheduled[h])
  BY DEF IInv, OrderInv
<1>2. /\ wire \in Seq(Bunches) /\ sending \in Bunches
      /\ entry \in [Groups -> Entries] /\ entry[h] \in Entries
  BY <1>1, OrderTypes
<1>3. sending'.group = sending.group /\ sending'.messages = Tail(sending.messages)
  BY <1>2 DEF NextMessage, Bunches
<1>4. entry'[h].queue = entry[h].queue
  <2>1. CASE h = g
    <3>1. entry'[h] = Counted(entry[h])
      BY <1>2, <2>1 DEF NextMessage
    <3> QED BY <1>2, <3>1 DEF Counted, Entries
  <2>2. CASE h # g
    BY <1>2, <2>2 DEF NextMessage
  <2> QED BY <2>1, <2>2
<1>5. Ordered(h, sending', wire, entry[h].queue, scheduled[h])
  BY <1>1, <1>2, <1>3, OrderedTail
<1> QED BY <1>4, <1>5 DEF OrderOf

LEMMA ReportOrder ==
  ASSUME IInv, OrderInv, NEW g \in Groups, Report(g), NEW h \in Groups
  PROVE  OrderOf(h)'
<1>1. CASE SkipMessage(g)
  BY <1>1, NextOrder DEF SkipMessage, Reporting
<1>2. CASE CallSent(g)
  BY <1>2, CallOrder
<1>3. CASE SentReturns(g)
  <2>1. sending.messages # <<>>
    BY <1>3 DEF SentReturns, IInv, ConnectionInv
  <2> QED BY <1>3, <2>1, NextOrder DEF SentReturns
<1>4. CASE AllReported(g)
  <2>1. TypeOK /\ Ordered(h, sending, wire, entry[h].queue, scheduled[h])
    BY DEF IInv, OrderInv
  <2>2. /\ wire \in Seq(Bunches) /\ entry \in [Groups -> Entries]
        /\ entry[g] \in Entries /\ scheduled[h] \in Nat
    BY <2>1, OrderTypes
  <2>3. sending' = Idle /\ scheduled' = scheduled
    BY <1>4 DEF AllReported
  <2>4. Of(h, sending') \in {Of(h, sending), <<>>} /\ Idle \in Bunches
    BY <2>3, IdleOf
  <2>5. CASE entry' = [entry EXCEPT ![g] = NoEntry] /\ wire' = wire
    <3>1. entry'[h].queue \in {entry[h].queue, <<>>}
      BY <2>2, <2>5 DEF NoEntry
    <3> QED BY <2>3, <2>4, <2>5, <3>1, FewerOrder
  <2>6. CASE StoreAndSend(g, entry[g])
    <3>1. Ordered(h, Idle, wire, entry[h].queue, scheduled[h])
      BY <2>1, <2>2, <2>3, <2>4, OrderedFewer
    <3>2. entry[h].queue = IF h = g THEN entry[g].queue ELSE entry[h].queue
      OBVIOUS
    <3>3. Ordered(h, Idle, wire', entry'[h].queue, scheduled[h])
      BY <2>1, <2>2, <2>4, <2>6, <3>1, <3>2, StoreKeepsOrder
    <3> QED BY <2>3, <3>3 DEF OrderOf
  <2> QED BY <1>4, <2>5, <2>6 DEF AllReported
<1> QED BY <1>1, <1>2, <1>3, <1>4 DEF Report

\* Only what some entries keep in their queues is left.
LEMMA OrderedQueue ==
  ASSUME NEW g, NEW b, NEW w \in Seq(Bunches), NEW q, NEW n, Ordered(g, b, w, q, n),
         NEW c, Of(g, c) = <<>>, NEW r \in {q, <<>>}
  PROVE  Ordered(g, c, <<>>, r, n)
<1> DEFINE f == [k \in 0 .. 1 |-> IF k = 0 THEN 0 ELSE Len(w) + 1]
<1>1. Len(<<>>) + 1 = 1 /\ Len(w) \in Nat
  OBVIOUS
<1>2. f \in [0 .. 1 -> 0 .. Len(w) + 1] /\ f[0] = 0 /\ f[1] = Len(w) + 1
  BY <1>1
<1>3. /\ Part(g, c, <<>>, r, 0) = <<>> /\ Part(g, c, <<>>, r, 1) = r
      /\ Part(g, b, w, q, Len(w) + 1) = q
  <2>1. Len(w) + 1 # 0 /\ Len(w) + 1 \notin DOMAIN w
    OBVIOUS
  <2>2. 1 # 0 /\ 1 \notin DOMAIN <<>>
    OBVIOUS
  <2> QED BY <2>1, <2>2 DEF Part
<1> HIDE DEF f
<1>4. \A k \in 0 .. 1 : k = 0 \/ k = 1
  OBVIOUS
<1>5. FromParts(f, g, b, w, q, c, <<>>, r)
  BY <1>1, <1>2, <1>3, <1>4 DEF FromParts
<1> QED BY <1>5, OrderKept

LEMMA CloseOrder ==
  ASSUME IInv, OrderInv, Close, NEW h \in Groups
  PROVE  OrderOf(h)'
<1>1. wire' = <<>> /\ sending' = Idle /\ scheduled' = scheduled
  BY DEF Close
<1>2. entry'[h].queue \in {entry[h].queue, <<>>}
  <2>1. entry'[h] = IF entry[h].registered \/ RegistryIsTold THEN NoEntry ELSE entry[h]
    BY DEF Close
  <2>2. NoEntry.queue = <<>>
    BY DEF NoEntry
  <2> QED BY <2>1, <2>2
<1>3. TypeOK /\ Ordered(h, sending, wire, entry[h].queue, scheduled[h])
  BY DEF IInv, OrderInv
<1>4. wire \in Seq(Bunches)
  BY <1>3, OrderTypes
<1>5. Ordered(h, Idle, <<>>, entry'[h].queue, scheduled[h])
  BY <1>2, <1>3, <1>4, IdleOf, OrderedQueue
<1> QED BY <1>1, <1>5 DEF OrderOf

\* The rest of a group's queue follows what was sent before.
LEMMA GroupUnrefedOrder ==
  ASSUME IInv, OrderInv, NEW g \in Groups, GroupUnrefed(g), NEW h \in Groups
  PROVE  OrderOf(h)'
<1>1. TypeOK /\ Ordered(h, sending, wire, entry[h].queue, scheduled[h])
  BY DEF IInv, OrderInv
<1>2. /\ wire \in Seq(Bunches) /\ entry \in [Groups -> Entries] /\ sending \in Bunches
      /\ entry[g] \in Entries /\ scheduled[h] \in Nat /\ entry[h].queue \in Seq(Messages)
      /\ entry[g].queue \in Seq(Messages)
  BY <1>1, OrderTypes
<1>3. /\ sending' = sending /\ scheduled' = scheduled
      /\ entry' = [entry EXCEPT ![g] = NoEntry]
  BY DEF GroupUnrefed
<1>4. entry'[h].queue = IF h = g THEN <<>> ELSE entry[h].queue
  BY <1>2, <1>3 DEF NoEntry
<1>5. CASE wire' = wire
  BY <1>3, <1>4, <1>5, FewerOrder
<1>6. CASE wire' = Append(wire, [group |-> g, messages |-> entry[g].queue])
  <2> DEFINE x == [group |-> g, messages |-> entry[g].queue]
  <2>1. x \in Bunches /\ x.group = g /\ x.messages = entry[g].queue
    BY <1>2 DEF Bunches
  <2>2. wire' = Append(wire, x)
    BY <1>6
  <2> HIDE DEF x
  <2>3. CASE h = g
    <3> DEFINE q == entry[g].queue
               m == Len(q)
    <3>1. /\ <<>> \in Seq(Messages) /\ m \in 0 .. Len(q) /\ Len(x.messages) = m
          /\ Len(<<>>) = Len(q) - m /\ q \in Seq(Messages)
          /\ \A i \in 1 .. m : x.messages[i] = q[i]
          /\ \A i \in 1 .. Len(q) - m : <<>>[i] = q[m + i]
      BY <1>2, <2>1
    <3>2. Ordered(g, sending, wire, q, scheduled[g]) /\ scheduled[g] \in Nat
      BY <1>1, <1>2, <2>3
    <3> HIDE DEF q, m
    <3>3. Ordered(g, sending, Append(wire, x), <<>>, scheduled[g])
      BY <1>2, <2>1, <3>1, <3>2, OrderedBunch
    <3> QED BY <1>3, <1>4, <2>2, <2>3, <3>3 DEF OrderOf
  <2>4. CASE h # g
    <3>1. Ordered(h, sending, Append(wire, x), entry[h].queue, scheduled[h])
      BY <1>1, <1>2, <2>1, <2>4, OrderedOther
    <3> QED BY <1>3, <1>4, <2>2, <2>4, <3>1 DEF OrderOf
  <2> QED BY <2>3, <2>4
<1> QED BY <1>5, <1>6 DEF GroupUnrefed

LEMMA InitOrder == Init => OrderInv
<1> SUFFICES ASSUME Init, NEW g \in Groups
             PROVE  Ordered(g, sending, wire, entry[g].queue, scheduled[g])
  BY DEF OrderInv
<1>1. sending = Idle /\ wire = <<>> /\ entry[g].queue = <<>>
  BY DEF Init, NewEntry, NoEntry
<1> QED BY <1>1, IdleOf, OrderedNothing

\* Messages of one group leave in the order in which they were sent, each once.
THEOREM OrderAlways == Spec => []SentInOrder
<1>1. IInv /\ OrderInv /\ [Next]_vars => OrderInv'
  <2> SUFFICES ASSUME IInv, OrderInv, [Next]_vars, NEW h \in Groups PROVE OrderOf(h)'
    BY DEF OrderInv, OrderOf
  <2>1. ASSUME NEW g \in Groups, Send(g) \/ CancelMessages(g) \/ Register(g) \/ Unregister(g)
        PROVE  OrderOf(h)'
    BY <2>1, SendOrder, CallOrder
  <2>2. ASSUME NEW g \in Groups, Report(g) \/ GroupUnrefed(g) PROVE OrderOf(h)'
    BY <2>2, ReportOrder, GroupUnrefedOrder
  <2>3. CASE ConnectionSent
    BY <2>3, ConnectionSentOrder
  <2>4. CASE Close
    BY <2>4, CloseOrder
  <2>5. CASE UNCHANGED vars
    BY <2>5 DEF vars, OrderInv, OrderOf
  <2> QED BY <2>4, <2>5, <2>1, <2>2, <2>3 DEF Next
<1>2. IInv /\ OrderInv => SentInOrder
  BY OrderImplies DEF IInv
<1> QED BY <1>1, <1>2, InitOrder, Invariance, PTL DEF Spec

------------------------------------------------------------------------------
(* No message is lost *)

Contains(ms, n) == \E i \in DOMAIN ms : ms[i].number = n

LEMMA QueuedContains ==
  /\ \A g, n : Queued(g, n) <=> Contains(entry[g].queue, n)
  /\ \A g, n : Queued(g, n)' <=> Contains(entry'[g].queue, n)
  /\ \A g, n : OnWire(g, n)' <=>
       \E k \in DOMAIN wire' : wire'[k].group = g /\ Contains(wire'[k].messages, n)
BY DEF Queued, OnWire, Contains

\* What entry e of g has queued is in its queue still once it is stored, or on
\* the wire.
LEMMA StoreKeepsMessages ==
  ASSUME TypeOK, NEW g \in Groups, NEW e \in Entries, StoreAndSend(g, e),
         NEW h \in Groups, NEW n,
         Contains(IF h = g THEN e.queue ELSE entry[h].queue, n)
  PROVE  Queued(h, n)' \/ OnWire(h, n)'
<1>1. entry \in [Groups -> Entries] /\ wire \in Seq(Bunches) /\ e.queue \in Seq(Messages)
  BY DEF TypeOK, Entries
<1>2. CASE h = g /\ e.inner_count = 0 /\ e.queue # <<>>
  <2> DEFINE x == Bunch(g, e)
             a == AfterBunch(e)
             m == BunchSize(e)
  <2>1. entry' = [entry EXCEPT ![g] = a] /\ wire' = Append(wire, x)
    BY <1>2 DEF StoreAndSend
  <2>2. /\ m \in 1 .. Len(e.queue) /\ x \in Bunches /\ x.group = g /\ Len(x.messages) = m
        /\ \A i \in 1 .. m : x.messages[i] = e.queue[i]
        /\ a \in Entries /\ Len(a.queue) = Len(e.queue) - m
        /\ \A i \in 1 .. Len(e.queue) - m : a.queue[i] = e.queue[m + i]
    BY <1>2, BunchFacts
  <2> HIDE DEF x, a, m
  <2>3. PICK i \in DOMAIN e.queue : e.queue[i].number = n
    BY <1>2 DEF Contains
  <2>4. /\ x.messages \in Seq(Messages) /\ DOMAIN x.messages = 1 .. m
        /\ a.queue \in Seq(Messages) /\ DOMAIN a.queue = 1 .. Len(e.queue) - m
        /\ m \in Nat /\ Len(e.queue) \in Nat /\ i \in 1 .. Len(e.queue)
    BY <1>1, <2>2, <2>3 DEF Bunches, Entries
  <2>5. CASE i \in 1 .. m
    <3>1. Contains(x.messages, n)
      BY <2>2, <2>3, <2>4, <2>5 DEF Contains
    <3>2. Len(wire) + 1 \in DOMAIN wire' /\ wire'[Len(wire) + 1] = x
      BY <1>1, <2>1, <2>2
    <3> QED BY <1>2, <2>2, <3>1, <3>2, QueuedContains
  <2>6. CASE i \notin 1 .. m
    <3>1. i - m \in 1 .. Len(e.queue) - m /\ m + (i - m) = i
      BY <2>4, <2>6
    <3>2. a.queue[i - m].number = n
      BY <2>2, <2>3, <3>1
    <3>3. Contains(a.queue, n)
      BY <2>4, <3>1, <3>2 DEF Contains
    <3>4. entry'[g] = a
      BY <1>1, <2>1
    <3> QED BY <1>2, <3>3, <3>4, QueuedContains
  <2> QED BY <2>5, <2>6
<1>3. CASE h = g /\ ~(e.inner_count = 0 /\ e.queue # <<>>)
  <2>1. entry'[g] = e
    BY <1>1, <1>3 DEF StoreAndSend
  <2> QED BY <1>3, <2>1, QueuedContains
<1>4. CASE h # g
  <2>1. entry'[h] = entry[h]
    BY <1>1, <1>4 DEF StoreAndSend
  <2> QED BY <1>4, <2>1, QueuedContains
<1> QED BY <1>2, <1>3, <1>4

\* The steps of NothingLost, for one message.
Kept(h, n) == Queued(h, n)' \/ OnWire(h, n)' \/ CancelMessages(h) \/ status' = "closed"

\* An entry has its queue still when it has not changed in it.
LEMMA SameQueueKept ==
  ASSUME NEW h, NEW n, Queued(h, n), entry'[h].queue = entry[h].queue
  PROVE  Kept(h, n)
BY QueuedContains DEF Kept

LEMMA SendKeeps ==
  ASSUME IInv, NEW g \in Groups, Send(g), NEW h \in Groups, NEW n, Queued(h, n)
  PROVE  Kept(h, n)
<1> DEFINE xml == [number |-> scheduled[g] + 1, period |-> period[g]]
           e == [entry[g] EXCEPT !.queue = Append(@, xml)]
<1>1. TypeOK /\ period[g] \in Nat /\ Contains(entry[h].queue, n)
  BY OfGroup, QueuedContains DEF IInv
<1>2. entry[g] \in Entries /\ entry[g].queue \in Seq(Messages) /\ scheduled[g] \in Nat
  BY <1>1, OrderTypes
<1>3. xml \in Messages
  BY <1>1, <1>2 DEF Messages
<1>4. StoreAndSend(g, e)
  BY DEF Send
<1> HIDE DEF xml
<1>5. e \in Entries /\ e.queue = Append(entry[g].queue, xml)
  <2>1. Append(entry[g].queue, xml) \in Seq(Messages)
    BY <1>2, <1>3
  <2> QED BY <1>2, <2>1 DEF Entries
<1> HIDE DEF e
<1>6. Contains(IF h = g THEN e.queue ELSE entry[h].queue, n)
  <2>1. CASE h = g
    <3>1. PICK i \in DOMAIN entry[g].queue : entry[g].queue[i].number = n
      BY <1>1, <2>1 DEF Contains
    <3>2. i \in DOMAIN e.queue /\ e.queue[i] = entry[g].queue[i]
      BY <1>2, <1>5, <3>1
    <3> QED BY <2>1, <3>1, <3>2 DEF Contains
  <2> QED BY <1>1, <2>1
<1> QED BY <1>1, <1>4, <1>5, <1>6, StoreKeepsMessages DEF Kept

LEMMA CallKeeps ==
  ASSUME IInv, NEW g \in Groups, CancelMessages(g) \/ Register(g) \/ Unregister(g),
         NEW h \in Groups, NEW n, Queued(h, n)
  PROVE  Kept(h, n)
<1>1. TypeOK
  BY DEF IInv
<1>2. entry[g] \in Entries /\ entry \in [Groups -> Entries]
  BY <1>1, OrderTypes
<1>3. CASE h # g
  <2>1. entry'[h] = entry[h]
    BY <1>2, <1>3 DEF CancelMessages, Register, Unregister
  <2> QED BY <2>1, SameQueueKept
<1>4. CASE h = g /\ CancelMessages(g)
  BY <1>4 DEF Kept
<1>5. CASE h = g /\ Register(g)
  <2>1. entry'[g] = [entry[g] EXCEPT !.registered = TRUE]
    BY <1>2, <1>5 DEF Register
  <2>2. entry'[g].queue = entry[g].queue
    BY <1>2, <2>1 DEF Entries
  <2> QED BY <1>5, <2>2, SameQueueKept
<1>6. CASE h = g /\ Unregister(g)
  <2>1. Pending(entry[g])
    BY <1>6 DEF Pending, Queued
  <2>2. entry'[g] = [entry[g] EXCEPT !.registered = FALSE,
                       !.activation_count = entry[g].inner_count + Len(entry[g].queue)]
    BY <1>2, <1>6, <2>1 DEF Unregister
  <2>3. entry'[g].queue = entry[g].queue
    BY <1>2, <2>2 DEF Entries
  <2> QED BY <1>6, <2>3, SameQueueKept
<1> QED BY <1>3, <1>4, <1>5, <1>6

LEMMA NextKeeps ==
  ASSUME IInv, NEW g \in Groups, NextMessage(g), NEW h \in Groups, NEW n, Queued(h, n)
  PROVE  Kept(h, n)
<1>1. TypeOK
  BY DEF IInv
<1>2. entry \in [Groups -> Entries] /\ entry[h] \in Entries
  BY <1>1, OrderTypes
<1>3. entry'[h].queue = entry[h].queue
  <2>1. CASE h = g
    <3>1. entry'[h] = Counted(entry[h])
      BY <1>2, <2>1 DEF NextMessage
    <3> QED BY <1>2, <3>1 DEF Counted, Entries
  <2>2. CASE h # g
    BY <1>2, <2>2 DEF NextMessage
  <2> QED BY <2>1, <2>2
<1> QED BY <1>3, SameQueueKept

\* An entry is removed only when activation_count, which covers its queue, is 0.
LEMMA AllReportedKeeps ==
  ASSUME IInv, NEW g \in Groups, AllReported(g), NEW h \in Groups, NEW n, Queued(h, n)
  PROVE  Kept(h, n)
<1>1. TypeOK /\ GroupInv(g)
  BY DEF IInv
<1>2. /\ entry[g] \in Entries /\ entry \in [Groups -> Entries]
      /\ entry[g].queue \in Seq(Messages)
  BY <1>1, OrderTypes
<1>3. CASE ~entry[g].registered /\ entry[g].activation_count = 0
  <2>1. entry' = [entry EXCEPT ![g] = NoEntry]
    BY <1>3 DEF AllReported
  <2>2. entry[g].inner_count \in Nat /\ Len(entry[g].queue) \in Nat
    BY <1>2 DEF Entries
  <2>3. Len(entry[g].queue) = 0
    BY <1>1, <1>3, <2>2 DEF GroupInv, Balanced
  <2>4. h # g
    BY <1>2, <2>3 DEF Queued
  <2>5. entry'[h] = entry[h]
    BY <1>2, <2>1, <2>4
  <2> QED BY <2>5, SameQueueKept
<1>4. CASE ~(~entry[g].registered /\ entry[g].activation_count = 0)
  <2>1. StoreAndSend(g, entry[g])
    BY <1>4 DEF AllReported
  <2>2. Contains(IF h = g THEN entry[g].queue ELSE entry[h].queue, n)
    BY QueuedContains
  <2> QED BY <1>1, <1>2, <2>1, <2>2, StoreKeepsMessages DEF Kept
<1> QED BY <1>3, <1>4

LEMMA GroupUnrefedKeeps ==
  ASSUME IInv, NEW g \in Groups, GroupUnrefed(g), NEW h \in Groups, NEW n, Queued(h, n)
  PROVE  Kept(h, n)
<1>1. TypeOK
  BY DEF IInv
<1>2. entry \in [Groups -> Entries] /\ wire \in Seq(Bunches) /\ entry[g].queue \in Seq(Messages)
      /\ status \in {"open", "closed"}
  BY <1>1, OrderTypes DEF TypeOK
<1>3. CASE h # g
  <2>1. entry'[h] = entry[h]
    BY <1>2, <1>3 DEF GroupUnrefed
  <2> QED BY <2>1, SameQueueKept
<1>4. CASE h = g
  <2>1. CASE status = "closed"
    BY <2>1 DEF GroupUnrefed, Kept
  <2>2. CASE status = "open"
    <3> DEFINE x == [group |-> g, messages |-> entry[g].queue]
    <3>1. Contains(entry[g].queue, n) /\ entry[g].queue # <<>>
      BY <1>4, QueuedContains DEF Contains
    <3>2. wire' = Append(wire, x)
      BY <2>2, <3>1 DEF GroupUnrefed
    <3>3. x \in Bunches /\ x.group = g /\ x.messages = entry[g].queue
      BY <1>2 DEF Bunches
    <3> HIDE DEF x
    <3>4. Len(wire) + 1 \in DOMAIN wire' /\ wire'[Len(wire) + 1] = x
      BY <1>2, <3>2, <3>3
    <3> QED BY <1>4, <3>1, <3>3, <3>4, QueuedContains DEF Kept
  <2> QED BY <1>2, <2>1, <2>2
<1> QED BY <1>3, <1>4

\* A message leaves the queue only to be handed to the connection, unless it is
\* cancelled or the connection is closed.
THEOREM NothingIsLost == Spec => NothingLost
<1>1. ASSUME IInv, Next, NEW h \in Groups, NEW n, Queued(h, n) PROVE Kept(h, n)
  <2>1. ASSUME NEW g \in Groups, Send(g) \/ CancelMessages(g) \/ Register(g) \/ Unregister(g)
        PROVE  Kept(h, n)
    BY <1>1, <2>1, SendKeeps, CallKeeps
  <2>2. ASSUME NEW g \in Groups, Report(g) PROVE Kept(h, n)
    <3>1. CASE SkipMessage(g)
      BY <1>1, <3>1, NextKeeps DEF SkipMessage
    <3>2. CASE CallSent(g)
      BY <1>1, <3>2, SameQueueKept DEF CallSent
    <3>3. CASE SentReturns(g)
      BY <1>1, <3>3, NextKeeps DEF SentReturns
    <3>4. CASE AllReported(g)
      BY <1>1, <3>4, AllReportedKeeps
    <3> QED BY <2>2, <3>1, <3>2, <3>3, <3>4 DEF Report
  <2>3. ASSUME NEW g \in Groups, GroupUnrefed(g) PROVE Kept(h, n)
    BY <1>1, <2>3, GroupUnrefedKeeps
  <2>4. CASE ConnectionSent
    BY <1>1, <2>4, SameQueueKept DEF ConnectionSent
  <2>5. CASE Close
    BY <2>5 DEF Close, Kept
  <2> QED BY <1>1, <2>4, <2>5, <2>1, <2>2, <2>3 DEF Next
<1>2. IInv /\ [Next]_vars =>
        [\A g \in Groups, n \in 1 .. MaxMessages : Queued(g, n) /\ ~Queued(g, n)' =>
           OnWire(g, n)' \/ CancelMessages(g) \/ status' = "closed"]_vars
  BY <1>1 DEF Kept
<1> QED BY <1>2, Invariance, PTL DEF Spec, NothingLost
==============================================================================
