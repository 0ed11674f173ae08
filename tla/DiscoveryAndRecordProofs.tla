--------------------------- MODULE DiscoveryAndRecordProofs ---------------------------
(***************************************************************************)
(* Proofs about two things around a session, which have no variable in     *)
(* common.  Discovery: connections are found at the address they have,     *)
(* what was resolved exists, and who resolves a service is answered once,  *)
(* for any services, addresses and connections.  SessionRecord: a replay   *)
(* has after every element of a record what the session had when it was    *)
(* written, for any users and however much is recorded.                    *)
(***************************************************************************)
EXTENDS Discovery, SessionRecord, TLAPS

------------------------------------------------------------------------------
(* DISCOVERY: the types *)

Statuses == {"none", "closed", "opening", "open", "closing"}
Infos == [known : BOOLEAN, resolver : BOOLEAN, resolved : Connections \cup {Nobody}, waiting : Seq(Nat)]
Conns == [status : Statuses, address : Addresses \cup {Nobody}, listed : BOOLEAN]
Worlds == [info : [Services -> Infos], conn : [Connections -> Conns],
           tree : [Addresses -> Connections \cup {Nobody}], answers : Seq(Nat)]

------------------------------------------------------------------------------
(* The invariant *)

\* The manager's tree and the connections' addresses agree; and what is listed exists.
Mapped(w) ==
  /\ \A a \in Addresses :
       w.tree[a] # Nobody => w.conn[w.tree[a]].listed /\ w.conn[w.tree[a]].address = a
  /\ \A c \in Connections : w.conn[c].listed => w.tree[w.conn[c].address] = c
  /\ \A c \in Connections : w.conn[c].listed => w.conn[c].status # "none"
  /\ \A c \in Connections : w.conn[c].status # "none" => w.conn[c].address \in Addresses

\* What was resolved exists, and a resolver is for a service that is known.
Remembered(w, browsing) ==
  \A s \in Services :
    /\ w.info[s].resolved # Nobody =>
         w.conn[w.info[s].resolved].status # "none" /\ ~w.info[s].resolver
    /\ w.info[s].resolver => w.info[s].known
    /\ w.info[s].known => browsing

\* Calls that wait are calls that were made; each waits for one service, and was not
\* answered; the others were, once.
Numbered(w) ==
  /\ \A s \in Services : Waiters(w, s) \subseteq DOMAIN w.answers
  /\ \A s, t \in Services : \A n \in Waiters(w, s) : n \in Waiters(w, t) => s = t
  /\ \A n \in DOMAIN w.answers :
       w.answers[n] = IF \E s \in Services : n \in Waiters(w, s) THEN 0 ELSE 1

Worked(w, services) == \A s \in services : w.info[s].waiting # <<>> => w.info[s].resolver

Sound(w, browsing) ==
  /\ w \in Worlds /\ Mapped(w) /\ Remembered(w, browsing)
  /\ retries \/ (Numbered(w) /\ Worked(w, Services))

\* As it is when the resolver of s has gone, and nobody was told.
Almost(w, s, browsing) ==
  /\ w \in Worlds /\ Mapped(w) /\ Remembered(w, browsing)
  /\ retries \/ (Numbered(w) /\ Worked(w, Services \ {s}))

IInv ==
  /\ Sound(World, browser)
  /\ failed \in {"no", "client is not running", "no resolver"}

------------------------------------------------------------------------------
(* Parts of the world *)

\* What waits for a service depends on the services alone.
LEMMA SameWaiting ==
  ASSUME NEW w \in Worlds, NEW v \in Worlds, v.info = w.info, v.answers = w.answers
  PROVE  /\ Numbered(w) => Numbered(v)
         /\ Worked(w, Services) => Worked(v, Services)
BY DEF Numbered, Worked, Waiters

\* Connections that become known to exist disturb nothing that was resolved.
LEMMA SameRemembered ==
  ASSUME NEW w \in Worlds, NEW v \in Worlds, NEW b, v.info = w.info, Remembered(w, b),
         \A c \in Connections : v.conn[c].status = "none" => w.conn[c].status = "none"
  PROVE  Remembered(v, b)
BY DEF Remembered, Worlds, Infos

------------------------------------------------------------------------------
(* The manager *)

\* A connection that is not listed, at an address that is free, can be added.
LEMMA AddedSound ==
  ASSUME DiscoveryAssumption, NEW w \in Worlds, NEW c \in Connections, Mapped(w),
         w.conn[c].status # "none", ~w.conn[c].listed, w.tree[w.conn[c].address] = Nobody
  PROVE  /\ Added(w, c) \in Worlds /\ Mapped(Added(w, c))
         /\ Added(w, c).info = w.info /\ Added(w, c).answers = w.answers
         /\ \A d \in Connections : Added(w, c).conn[d].status = w.conn[d].status
<1> DEFINE a == w.conn[c].address
           v == Added(w, c)
<1>1. a \in Addresses
  BY DEF Mapped
<1>2. /\ v.info = w.info /\ v.answers = w.answers
      /\ v.conn = [w.conn EXCEPT ![c].listed = TRUE]
      /\ v.tree = [w.tree EXCEPT ![a] = c]
  BY DEF Worlds, Added
<1>3. v.conn \in [Connections -> Conns] /\ v.tree \in [Addresses -> Connections \cup {Nobody}]
  <2>1. w.conn \in [Connections -> Conns] /\ w.tree \in [Addresses -> Connections \cup {Nobody}]
    BY DEF Worlds
  <2>2. v.conn \in [Connections -> Conns]
    <3>1. [w.conn[c] EXCEPT !.listed = TRUE] \in Conns
      BY <2>1 DEF Conns
    <3> QED
      BY <1>2, <2>1, <3>1
  <2>3. v.tree \in [Addresses -> Connections \cup {Nobody}]
    BY <1>1, <1>2, <2>1
  <2> QED
    BY <2>2, <2>3
<1>4. v \in Worlds
  BY <1>3 DEF Worlds, Added
<1>5. /\ v.conn[c].listed /\ v.conn[c].address = a /\ v.conn[c].status = w.conn[c].status
      /\ \A d \in Connections \ {c} : v.conn[d] = w.conn[d]
      /\ v.tree[a] = c /\ \A b \in Addresses \ {a} : v.tree[b] = w.tree[b]
  BY <1>1, <1>2 DEF Worlds, Conns
<1> HIDE DEF v, a
<1>6. Mapped(v)
  <2>1. /\ w.tree \in [Addresses -> Connections \cup {Nobody}] /\ Nobody \notin Connections
        /\ \A b \in Addresses : w.tree[b] # Nobody => w.conn[w.tree[b]].listed /\ w.conn[w.tree[b]].address = b
        /\ \A d \in Connections : w.conn[d].listed =>
             w.tree[w.conn[d].address] = d /\ w.conn[d].status # "none"
        /\ \A d \in Connections : w.conn[d].status # "none" => w.conn[d].address \in Addresses
    BY DEF Mapped, DiscoveryAssumption, Nobody, Worlds
  <2>2. ASSUME NEW b \in Addresses, v.tree[b] # Nobody
        PROVE  v.conn[v.tree[b]].listed /\ v.conn[v.tree[b]].address = b
    BY <1>1, <1>5, <2>1, <2>2
  <2>3. ASSUME NEW d \in Connections
        PROVE  /\ v.conn[d].listed => v.tree[v.conn[d].address] = d /\ v.conn[d].status # "none"
               /\ v.conn[d].status # "none" => v.conn[d].address \in Addresses
    <3>1. CASE d = c
      BY <1>1, <1>5, <2>1, <3>1
    <3>2. CASE d # c
      <4>1. v.conn[d] = w.conn[d]
        BY <1>5, <3>2
      <4>2. ASSUME w.conn[d].listed
            PROVE  v.tree[w.conn[d].address] = d
        <5>1. w.conn[d].address \in Addresses \ {a} /\ w.tree[w.conn[d].address] = d
          BY <2>1, <4>2 DEF a
        <5> QED
          BY <1>5, <5>1
      <4> QED
        BY <2>1, <4>1, <4>2
    <3> QED
      BY <3>1, <3>2
  <2> QED
    BY <2>2, <2>3 DEF Mapped
<1> QED
  BY <1>2, <1>4, <1>5, <1>6 DEF v

\* A connection that is listed can be removed.
LEMMA RemovedSound ==
  ASSUME DiscoveryAssumption, NEW w \in Worlds, NEW c \in Connections, Mapped(w), w.conn[c].listed
  PROVE  /\ Removed(w, c) \in Worlds /\ Mapped(Removed(w, c))
         /\ Removed(w, c).info = w.info /\ Removed(w, c).answers = w.answers
         /\ \A d \in Connections : Removed(w, c).conn[d].status = w.conn[d].status
         /\ ~Removed(w, c).conn[c].listed
<1> DEFINE a == w.conn[c].address
           v == Removed(w, c)
<1>1. a \in Addresses /\ w.tree[a] = c
  BY DEF Mapped
<1>2. /\ v.info = w.info /\ v.answers = w.answers
      /\ v.conn = [w.conn EXCEPT ![c].listed = FALSE]
      /\ v.tree = [w.tree EXCEPT ![a] = Nobody]
  BY DEF Worlds, Removed
<1>3. v.conn \in [Connections -> Conns] /\ v.tree \in [Addresses -> Connections \cup {Nobody}]
  <2>1. w.conn \in [Connections -> Conns] /\ w.tree \in [Addresses -> Connections \cup {Nobody}]
    BY DEF Worlds
  <2>2. v.conn \in [Connections -> Conns]
    <3>1. [w.conn[c] EXCEPT !.listed = FALSE] \in Conns
      BY <2>1 DEF Conns
    <3> QED
      BY <1>2, <2>1, <3>1
  <2>3. v.tree \in [Addresses -> Connections \cup {Nobody}]
    BY <1>1, <1>2, <2>1
  <2> QED
    BY <2>2, <2>3
<1>4. v \in Worlds
  BY <1>3 DEF Worlds, Removed
<1>5. /\ ~v.conn[c].listed /\ v.conn[c].address = a /\ v.conn[c].status = w.conn[c].status
      /\ \A d \in Connections \ {c} : v.conn[d] = w.conn[d]
      /\ v.tree[a] = Nobody /\ \A b \in Addresses \ {a} : v.tree[b] = w.tree[b]
  BY <1>1, <1>2 DEF Worlds, Conns
<1> HIDE DEF v, a
<1>6. Mapped(v)
  <2>1. /\ w.tree \in [Addresses -> Connections \cup {Nobody}] /\ Nobody \notin Connections
        /\ \A b \in Addresses : w.tree[b] # Nobody => w.conn[w.tree[b]].listed /\ w.conn[w.tree[b]].address = b
        /\ \A d \in Connections : w.conn[d].listed =>
             w.tree[w.conn[d].address] = d /\ w.conn[d].status # "none"
        /\ \A d \in Connections : w.conn[d].status # "none" => w.conn[d].address \in Addresses
    BY DEF Mapped, DiscoveryAssumption, Nobody, Worlds
  <2>2. ASSUME NEW b \in Addresses, v.tree[b] # Nobody
        PROVE  v.conn[v.tree[b]].listed /\ v.conn[v.tree[b]].address = b
    BY <1>1, <1>5, <2>1, <2>2
  <2>3. ASSUME NEW d \in Connections
        PROVE  /\ v.conn[d].listed => v.tree[v.conn[d].address] = d /\ v.conn[d].status # "none"
               /\ v.conn[d].status # "none" => v.conn[d].address \in Addresses
    <3>1. CASE d = c
      BY <1>1, <1>5, <2>1, <3>1
    <3>2. CASE d # c
      <4>1. v.conn[d] = w.conn[d] /\ w.tree[a] # d
        BY <1>1, <1>5, <3>2
      <4>2. ASSUME w.conn[d].listed
            PROVE  v.tree[w.conn[d].address] = d
        <5>1. w.conn[d].address \in Addresses /\ w.tree[w.conn[d].address] = d
          BY <2>1, <4>2
        <5> QED
          BY <1>5, <4>1, <5>1
      <4> QED
        BY <2>1, <4>1, <4>2
    <3> QED
      BY <3>1, <3>2
  <2> QED
    BY <2>2, <2>3 DEF Mapped
<1> QED
  BY <1>2, <1>4, <1>5, <1>6 DEF v

\* Of a connection that is dropped nothing is left, and nobody remembers it.
LEMMA DestroyedSound ==
  ASSUME DiscoveryAssumption, NEW w \in Worlds, NEW c \in Connections, NEW b,
         Sound(w, b), ~w.conn[c].listed
  PROVE  Sound(Destroyed(w, c), b)
<1> DEFINE v == Destroyed(w, c)
           forgets(i) == IF i.resolved = c THEN [i EXCEPT !.resolved = Nobody] ELSE i
<1>1. /\ v.answers = w.answers /\ v.tree = w.tree
      /\ v.conn = [w.conn EXCEPT ![c] = NoConnection]
      /\ v.info = [s \in Services |-> forgets(w.info[s])]
  BY DEF Worlds, Destroyed
<1>2. v.conn \in [Connections -> Conns]
  <2>1. NoConnection \in Conns /\ w.conn \in [Connections -> Conns]
    BY DEF Worlds, Conns, NoConnection, Statuses
  <2> QED
    BY <1>1, <2>1
<1>3. ASSUME NEW s \in Services
      PROVE  /\ v.info[s] \in Infos
             /\ v.info[s].known = w.info[s].known /\ v.info[s].resolver = w.info[s].resolver
             /\ v.info[s].waiting = w.info[s].waiting
             /\ v.info[s].resolved = IF w.info[s].resolved = c THEN Nobody ELSE w.info[s].resolved
  <2>1. w.info[s] \in Infos /\ v.info[s] = forgets(w.info[s])
    BY <1>1 DEF Worlds
  <2> HIDE DEF v
  <2>2. CASE w.info[s].resolved = c
    BY <2>1, <2>2 DEF Infos
  <2>3. CASE w.info[s].resolved # c
    BY <2>1, <2>3 DEF Infos
  <2> QED
    BY <2>2, <2>3
<1>4. v.info \in [Services -> Infos]
  BY <1>1, <1>3
<1>5. v \in Worlds
  BY <1>2, <1>4 DEF Worlds, Destroyed
<1>6. v.conn[c] = NoConnection /\ \A d \in Connections \ {c} : v.conn[d] = w.conn[d]
  BY <1>1 DEF Worlds
<1> HIDE DEF v, forgets
<1>7. Mapped(v)
  <2>1. \A a \in Addresses : w.tree[a] # c
    BY DEF Sound, Mapped, DiscoveryAssumption, Nobody
  <2> QED
    BY <1>1, <1>6, <2>1 DEF Sound, Mapped, Worlds, NoConnection
<1>8. Remembered(v, b)
  BY <1>3, <1>6 DEF Sound, Remembered, Worlds, Infos
<1>9. retries \/ (Numbered(v) /\ Worked(v, Services))
  BY <1>1, <1>3 DEF Sound, Numbered, Worked, Waiters
<1> QED
  BY <1>5, <1>7, <1>8, <1>9 DEF Sound, v

\* A connection that is not listed may move to another address.
LEMMA ReaddressedSound ==
  ASSUME NEW w \in Worlds, NEW c \in Connections, NEW a \in Addresses, Mapped(w), ~w.conn[c].listed
  PROVE  LET v == [w EXCEPT !.conn[c].address = a]
         IN  /\ v \in Worlds /\ Mapped(v) /\ v.info = w.info /\ v.answers = w.answers
             /\ \A d \in Connections : v.conn[d].status = w.conn[d].status
<1> DEFINE v == [w EXCEPT !.conn[c].address = a]
<1>1. /\ v.info = w.info /\ v.answers = w.answers /\ v.tree = w.tree
      /\ v.conn = [w.conn EXCEPT ![c].address = a]
  BY DEF Worlds
<1>2. v.conn \in [Connections -> Conns]
  <2>1. w.conn \in [Connections -> Conns]
    BY DEF Worlds
  <2>2. [w.conn[c] EXCEPT !.address = a] \in Conns
    BY <2>1 DEF Conns
  <2> QED
    BY <1>1, <2>1, <2>2
<1>3. v \in Worlds
  BY <1>2 DEF Worlds
<1>4. /\ v.conn[c].address = a /\ ~v.conn[c].listed /\ v.conn[c].status = w.conn[c].status
      /\ \A d \in Connections \ {c} : v.conn[d] = w.conn[d]
  BY <1>1 DEF Worlds, Conns
<1> HIDE DEF v
<1>5. Mapped(v)
  BY <1>1, <1>4 DEF Mapped, Worlds
<1> QED
  BY <1>1, <1>3, <1>4, <1>5 DEF v

\* A connection that is listed moves: to an address that is free, or else it is not
\* listed any more.
LEMMA KeyChangedSound ==
  ASSUME DiscoveryAssumption, NEW w \in Worlds, NEW c \in Connections, NEW a \in Addresses, Mapped(w),
         w.conn[c].listed, w.conn[c].address # a
  PROVE  LET v == KeyChanged([w EXCEPT !.conn[c].address = a], c, w.conn[c].address)
         IN  /\ v \in Worlds /\ Mapped(v) /\ v.info = w.info /\ v.answers = w.answers
             /\ \A d \in Connections : v.conn[d].status = w.conn[d].status
<1> DEFINE old == w.conn[c].address
           m == [w EXCEPT !.conn[c].address = a]
           v == KeyChanged(m, c, old)
           stays == w.tree[a] = Nobody
<1>1. /\ w.conn \in [Connections -> Conns] /\ w.tree \in [Addresses -> Connections \cup {Nobody}]
      /\ Nobody \notin Connections /\ old \in Addresses /\ old # a
      /\ \A b \in Addresses : w.tree[b] # Nobody => w.conn[w.tree[b]].listed /\ w.conn[w.tree[b]].address = b
      /\ \A d \in Connections : w.conn[d].listed =>
           w.tree[w.conn[d].address] = d /\ w.conn[d].status # "none"
      /\ \A d \in Connections : w.conn[d].status # "none" => w.conn[d].address \in Addresses
  BY DEF Mapped, DiscoveryAssumption, Nobody, Worlds
<1>2. w.tree[old] = c /\ w.tree[a] # c
  BY <1>1
<1>3. /\ m.conn = [w.conn EXCEPT ![c].address = a] /\ m.tree = w.tree
      /\ m.info = w.info /\ m.answers = w.answers
  BY DEF Worlds
<1>4. m \in Worlds
  <2>1. [w.conn[c] EXCEPT !.address = a] \in Conns
    BY <1>1 DEF Conns
  <2>2. m.conn \in [Connections -> Conns]
    BY <1>1, <1>3, <2>1
  <2> QED
    BY <2>2 DEF Worlds
<1>5. m.conn[c].address = a /\ m.tree[a] # c
  BY <1>1, <1>2, <1>3 DEF Conns
<1> HIDE DEF m
<1>6. /\ v.info = w.info /\ v.answers = w.answers
      /\ stays => v.conn = m.conn /\ v.tree = [w.tree EXCEPT ![old] = Nobody, ![a] = c]
      /\ ~stays => v.conn = [m.conn EXCEPT ![c].listed = FALSE] /\ v.tree = [w.tree EXCEPT ![old] = Nobody]
  <2>1. CASE stays
    <3>1. v = [[m EXCEPT !.tree[old] = Nobody] EXCEPT !.tree[a] = c]
      BY <1>1, <1>3, <1>4, <1>5, <2>1 DEF KeyChanged, Worlds
    <3> QED
      BY <1>1, <1>3, <1>4, <2>1, <3>1 DEF Worlds
  <2>2. CASE ~stays
    <3> DEFINE x == [[m EXCEPT !.tree[old] = Nobody] EXCEPT !.tree[a] = c]
    <3>1. v = [Removed(x, c) EXCEPT !.tree[a] = w.tree[a]]
      BY <1>1, <1>3, <1>4, <1>5, <2>2 DEF KeyChanged, Worlds
    <3>2. /\ x.conn = m.conn /\ x.info = m.info /\ x.answers = m.answers
          /\ x.tree = [[w.tree EXCEPT ![old] = Nobody] EXCEPT ![a] = c]
          /\ DOMAIN x = {"info", "conn", "tree", "answers"}
      BY <1>3, <1>4 DEF Worlds
    <3> HIDE DEF x
    <3>3. /\ Removed(x, c).conn = [m.conn EXCEPT ![c].listed = FALSE]
          /\ Removed(x, c).tree = [x.tree EXCEPT ![a] = Nobody]
          /\ Removed(x, c).info = m.info /\ Removed(x, c).answers = m.answers
          /\ DOMAIN Removed(x, c) = {"info", "conn", "tree", "answers"}
      BY <1>5, <3>2 DEF Removed
    <3>4. [[x.tree EXCEPT ![a] = Nobody] EXCEPT ![a] = w.tree[a]] = [w.tree EXCEPT ![old] = Nobody]
      BY <1>1, <3>2
    <3> QED
      BY <1>3, <2>2, <3>1, <3>3, <3>4
  <2> QED
    BY <2>1, <2>2
<1>7. /\ v.tree \in [Addresses -> Connections \cup {Nobody}]
      /\ v.conn \in [Connections -> Conns]
  <2>1. m.conn \in [Connections -> Conns] /\ [m.conn[c] EXCEPT !.listed = FALSE] \in Conns
    BY <1>4 DEF Worlds, Conns
  <2>2. v.tree \in [Addresses -> Connections \cup {Nobody}]
    BY <1>1, <1>6
  <2>3. v.conn \in [Connections -> Conns]
    <3>1. CASE stays
      BY <1>6, <2>1, <3>1
    <3>2. CASE ~stays
      BY <1>6, <2>1, <3>2
    <3> QED
      BY <3>1, <3>2
  <2> QED
    BY <2>2, <2>3
<1>8. v \in Worlds
  BY <1>4, <1>7 DEF Worlds, KeyChanged, Removed
<1>9. /\ v.conn[c].address = a /\ (v.conn[c].listed <=> stays) /\ v.conn[c].status = w.conn[c].status
      /\ \A d \in Connections \ {c} : v.conn[d] = w.conn[d]
  <2>1. m.conn[c].address = a /\ m.conn[c].listed /\ m.conn[c].status = w.conn[c].status
    BY <1>1, <1>3 DEF Conns
  <2>2. \A d \in Connections \ {c} : m.conn[d] = w.conn[d]
    BY <1>1, <1>3
  <2>3. m.conn \in [Connections -> Conns]
    BY <1>4 DEF Worlds
  <2>4. CASE stays
    BY <1>6, <2>1, <2>2, <2>3, <2>4
  <2>5. CASE ~stays
    <3>1. /\ v.conn[c] = [m.conn[c] EXCEPT !.listed = FALSE]
          /\ \A d \in Connections \ {c} : v.conn[d] = m.conn[d]
      BY <1>6, <2>3, <2>5
    <3>2. m.conn[c] \in Conns
      BY <2>3
    <3> QED
      BY <2>1, <2>2, <2>5, <3>1, <3>2 DEF Conns
  <2> QED
    BY <2>4, <2>5
<1>10. /\ v.tree[old] = Nobody /\ v.tree[a] = (IF stays THEN c ELSE w.tree[a])
       /\ \A b \in Addresses \ {old, a} : v.tree[b] = w.tree[b]
  BY <1>1, <1>6
<1> HIDE DEF v, old
<1>11. Mapped(v)
  <2>1. ASSUME NEW b \in Addresses, v.tree[b] # Nobody
        PROVE  v.conn[v.tree[b]].listed /\ v.conn[v.tree[b]].address = b
    <3>1. CASE b = a
      <4>1. CASE stays
        BY <1>9, <1>10, <3>1, <4>1
      <4>2. CASE ~stays
        <5>1. v.tree[b] = w.tree[a] /\ w.tree[a] \in Connections \ {c}
          BY <1>1, <1>2, <1>10, <3>1, <4>2
        <5> QED
          BY <1>1, <1>9, <3>1, <4>2, <5>1
      <4> QED
        BY <4>1, <4>2
    <3>2. CASE b # a
      <4>1. b # old /\ v.tree[b] = w.tree[b] /\ w.tree[b] \in Connections \ {c}
        BY <1>1, <1>10, <2>1, <3>2 DEF old
      <4> QED
        BY <1>1, <1>9, <2>1, <4>1
    <3> QED
      BY <3>1, <3>2
  <2>2. ASSUME NEW d \in Connections
        PROVE  /\ v.conn[d].listed => v.tree[v.conn[d].address] = d /\ v.conn[d].status # "none"
               /\ v.conn[d].status # "none" => v.conn[d].address \in Addresses
    <3>1. CASE d = c
      BY <1>1, <1>9, <1>10, <3>1
    <3>2. CASE d # c
      <4>1. v.conn[d] = w.conn[d]
        BY <1>9, <3>2
      <4>2. ASSUME w.conn[d].listed
            PROVE  v.tree[w.conn[d].address] = d
        <5>1. w.conn[d].address \in Addresses /\ w.tree[w.conn[d].address] = d /\ w.conn[d].address # old
          BY <1>1, <1>2, <3>2, <4>2
        <5> QED
          BY <1>1, <1>10, <5>1
      <4> QED
        BY <1>1, <4>1, <4>2
    <3> QED
      BY <3>1, <3>2
  <2> QED
    BY <2>1, <2>2 DEF Mapped
<1> QED
  BY <1>6, <1>8, <1>9, <1>11 DEF v, old, m

------------------------------------------------------------------------------
(* Answers *)

\* What changes connections alone, and takes none away, keeps all that is known of services.
LEMMA Carried ==
  ASSUME NEW w \in Worlds, NEW v \in Worlds, NEW b, NEW s \in Services,
         Mapped(v), v.info = w.info, v.answers = w.answers,
         \A c \in Connections : v.conn[c].status = "none" => w.conn[c].status = "none"
  PROVE  Almost(w, s, b) => Almost(v, s, b)
<1>1. Remembered(w, b) => Remembered(v, b)
  BY SameRemembered
<1>2. Numbered(w) => Numbered(v)
  BY SameWaiting
<1>3. Worked(w, Services \ {s}) => Worked(v, Services \ {s})
  BY DEF Worked
<1> QED
  BY <1>1, <1>2, <1>3 DEF Almost

\* The same when everybody who waits has a resolver.
LEMMA Kept ==
  ASSUME NEW w \in Worlds, NEW v \in Worlds, NEW b, Sound(w, b),
         Mapped(v), v.info = w.info, v.answers = w.answers,
         \A c \in Connections : v.conn[c].status = "none" => w.conn[c].status = "none"
  PROVE  Sound(v, b)
<1>1. Remembered(v, b)
  BY SameRemembered DEF Sound
<1> QED
  BY <1>1, SameWaiting DEF Sound

\* When those are told who wait for a service without a resolver, nobody is left out.
LEMMA AnsweredSound ==
  ASSUME NEW w, NEW s \in Services, NEW b, Almost(w, s, b)
  PROVE  /\ Sound(Answered(w, s), b)
         /\ Answered(w, s).conn = w.conn /\ Answered(w, s).tree = w.tree
         /\ Answered(w, s).info = [w.info EXCEPT ![s].waiting = <<>>]
<1> DEFINE v == Answered(w, s)
<1>1. w \in Worlds
  BY DEF Almost
<1>2. /\ v.conn = w.conn /\ v.tree = w.tree
      /\ v.info = [w.info EXCEPT ![s].waiting = <<>>]
      /\ v.answers = [n \in DOMAIN w.answers |-> IF n \in Waiters(w, s) THEN w.answers[n] + 1 ELSE w.answers[n]]
  BY <1>1 DEF Worlds, Answered
<1>3. v.answers \in Seq(Nat) /\ DOMAIN v.answers = DOMAIN w.answers
  BY <1>1, <1>2 DEF Worlds
<1>4. v.info \in [Services -> Infos]
  <2>1. w.info \in [Services -> Infos]
    BY <1>1 DEF Worlds
  <2>2. <<>> \in Seq(Nat)
    OBVIOUS
  <2>3. [w.info[s] EXCEPT !.waiting = <<>>] \in Infos
    BY <2>1, <2>2 DEF Infos
  <2> QED
    BY <1>2, <2>1, <2>3
<1>5. v \in Worlds
  BY <1>1, <1>3, <1>4 DEF Worlds, Answered
<1>6. /\ v.info[s].known = w.info[s].known /\ v.info[s].resolver = w.info[s].resolver
      /\ v.info[s].resolved = w.info[s].resolved /\ v.info[s].waiting = <<>>
      /\ \A t \in Services \ {s} : v.info[t] = w.info[t]
  BY <1>1, <1>2 DEF Worlds, Infos
<1>7. Waiters(v, s) = {} /\ \A t \in Services \ {s} : Waiters(v, t) = Waiters(w, t)
  BY <1>6 DEF Waiters, ToSet
<1> HIDE DEF v
<1>8. Mapped(v)
  BY <1>2 DEF Almost, Mapped
<1>9. Remembered(v, b)
  BY <1>2, <1>6 DEF Almost, Remembered
<1>10. ASSUME Numbered(w) PROVE Numbered(v)
  <2>1. \A t \in Services : Waiters(v, t) \subseteq Waiters(w, t)
    BY <1>7
  <2>2. ASSUME NEW n \in DOMAIN v.answers
        PROVE  v.answers[n] = IF \E t \in Services : n \in Waiters(v, t) THEN 0 ELSE 1
    <3>1. CASE n \in Waiters(w, s)
      <4>1. v.answers[n] = 1
        BY <1>2, <1>3, <1>10, <2>2, <3>1 DEF Numbered
      <4>2. ~\E t \in Services : n \in Waiters(v, t)
        BY <1>7, <1>10, <3>1 DEF Numbered
      <4> QED
        BY <4>1, <4>2
    <3>2. CASE n \notin Waiters(w, s)
      <4>1. v.answers[n] = w.answers[n]
        BY <1>2, <1>3, <2>2, <3>2
      <4>2. (\E t \in Services : n \in Waiters(v, t)) <=> \E t \in Services : n \in Waiters(w, t)
        BY <1>7, <3>2
      <4> QED
        BY <1>3, <1>10, <4>1, <4>2 DEF Numbered
    <3> QED
      BY <3>1, <3>2
  <2> QED
    BY <1>3, <1>10, <2>1, <2>2 DEF Numbered
<1>11. ASSUME Worked(w, Services \ {s}) PROVE Worked(v, Services)
  BY <1>6, <1>11 DEF Worked
<1> QED
  BY <1>2, <1>5, <1>8, <1>9, <1>10, <1>11 DEF Almost, Sound, v

\* An error is told to those who wait; one of them may resolve again.
LEMMA ResolvErrorSound ==
  ASSUME NEW w, NEW s \in Services, NEW b, Almost(w, s, b), w.info[s].known
  PROVE  Sound(ResolvError(w, s), b)
<1> DEFINE told == Answered(w, s)
           v == ResolvError(w, s)
<1>1. Sound(told, b) /\ told.info = [w.info EXCEPT ![s].waiting = <<>>] /\ w \in Worlds
  BY AnsweredSound DEF Almost
<1>2. /\ told.info[s].known = w.info[s].known /\ told.info[s].resolver = w.info[s].resolver
      /\ told.info[s].resolved = w.info[s].resolved
  <2>1. w.info[s] \in Infos /\ told.info[s] = [w.info[s] EXCEPT !.waiting = <<>>]
    BY <1>1 DEF Worlds
  <2> QED
    BY <2>1 DEF Infos
<1>4. CASE ~Retries(w, s)
  BY <1>1, <1>2, <1>4 DEF ResolvError
<1>5. CASE Retries(w, s) /\ w.info[s].resolved # Nobody
  <2>1. v = [told EXCEPT !.answers = Append(@, 1)]
    BY <1>5 DEF ResolvError
  <2> HIDE DEF told
  <2>2. /\ v.info = told.info /\ v.conn = told.conn /\ v.tree = told.tree
        /\ v.answers = Append(told.answers, 1)
    BY <1>1, <2>1 DEF Sound, Worlds
  <2>4. v.answers \in Seq(Nat)
    BY <1>1, <2>2 DEF Sound, Worlds
  <2>5. v \in Worlds
    BY <1>1, <2>1, <2>4 DEF Sound, Worlds
  <2>3. retries
    BY <1>5 DEF Retries
  <2> QED
    BY <1>1, <1>2, <2>2, <2>3, <2>5 DEF Sound, Mapped, Remembered
<1>6. CASE Retries(w, s) /\ w.info[s].resolved = Nobody
  <2>1. v = [told EXCEPT !.answers = Append(@, 0), !.info[s].resolver = TRUE]
    BY <1>6 DEF ResolvError
  <2> HIDE DEF told
  <2>2. /\ v.info = [told.info EXCEPT ![s].resolver = TRUE] /\ v.conn = told.conn /\ v.tree = told.tree
        /\ v.answers = Append(told.answers, 0)
    BY <1>1, <2>1 DEF Sound, Worlds
  <2>3. told.info \in [Services -> Infos] /\ told.answers \in Seq(Nat)
    BY <1>1 DEF Sound, Worlds
  <2>4. v.info \in [Services -> Infos] /\ v.answers \in Seq(Nat)
    <3>1. [told.info[s] EXCEPT !.resolver = TRUE] \in Infos
      BY <2>3 DEF Infos
    <3> QED
      BY <2>2, <2>3, <3>1
  <2>5. v \in Worlds
    BY <1>1, <2>1, <2>2, <2>4 DEF Sound, Worlds
  <2>6. /\ v.info[s].known = w.info[s].known /\ v.info[s].resolved = w.info[s].resolved
        /\ \A t \in Services \ {s} : v.info[t] = told.info[t]
    <3>1. v.info[s] = [told.info[s] EXCEPT !.resolver = TRUE] /\ told.info[s] \in Infos
      BY <2>2, <2>3
    <3>2. \A t \in Services \ {s} : v.info[t] = told.info[t]
      BY <2>2, <2>3
    <3> QED
      BY <1>2, <3>1, <3>2 DEF Infos
  <2>7. retries
    BY <1>6 DEF Retries
  <2>8. Remembered(v, b)
    BY <1>1, <1>2, <1>6, <2>2, <2>6 DEF Sound, Remembered
  <2> QED
    BY <1>1, <2>2, <2>5, <2>6, <2>7, <2>8 DEF Sound, Mapped
<1> QED
  BY <1>4, <1>5, <1>6

\* When a service is gone, those who wait for it are told.
LEMMA InfoFreeSound ==
  ASSUME NEW w, NEW s \in Services, NEW b, Sound(w, b)
  PROVE  Sound(InfoFree(w, s), b)
<1> DEFINE told == Answered(w, s)
           v == InfoFree(w, s)
<1>1. Sound(told, b) /\ told.info = [w.info EXCEPT ![s].waiting = <<>>] /\ w \in Worlds
  BY AnsweredSound DEF Almost, Sound, Worked
<1>2. told.info[s].waiting = <<>>
  BY <1>1 DEF Worlds, Infos
<1>3. v = [told EXCEPT !.info[s] = NoInfo]
  BY DEF InfoFree
<1> HIDE DEF told
<1>4. /\ v.info = [told.info EXCEPT ![s] = NoInfo] /\ v.conn = told.conn /\ v.tree = told.tree
      /\ v.answers = told.answers
  BY <1>1, <1>3 DEF Sound, Worlds
<1>5. v.info \in [Services -> Infos]
  <2>1. <<>> \in Seq(Nat)
    OBVIOUS
  <2>2. NoInfo \in Infos
    BY <2>1 DEF NoInfo, Infos
  <2> QED
    BY <1>1, <1>4, <2>2 DEF Sound, Worlds
<1>6. v \in Worlds
  BY <1>1, <1>3, <1>5 DEF Sound, Worlds
<1>7. v.info[s] = NoInfo /\ \A t \in Services \ {s} : v.info[t] = told.info[t]
  BY <1>1, <1>4 DEF Sound, Worlds
<1> HIDE DEF v
<1>8. \A t \in Services : Waiters(v, t) = Waiters(told, t)
  BY <1>2, <1>7 DEF Waiters, NoInfo
<1>9. Numbered(told) => Numbered(v)
  BY <1>4, <1>8 DEF Numbered
<1>10. Worked(told, Services) => Worked(v, Services)
  BY <1>7 DEF Worked, NoInfo
<1>11. Mapped(v) /\ Remembered(v, b)
  BY <1>1, <1>4, <1>7 DEF Sound, Mapped, Remembered, NoInfo
<1> QED
  BY <1>1, <1>6, <1>9, <1>10, <1>11 DEF Sound, v

\* When all services are gone, all who wait are told.
LEMMA UndiscoveredSound ==
  ASSUME NEW w, NEW b, Sound(w, b)
  PROVE  Sound(UndiscoverAll(w), FALSE)
<1> DEFINE v == UndiscoverAll(w)
           waits(n) == \E s \in Services : n \in Waiters(w, s)
<1>1. w \in Worlds
  BY DEF Sound
<1>2. /\ v.conn = w.conn /\ v.tree = w.tree /\ v.info = [s \in Services |-> NoInfo]
      /\ v.answers = [n \in DOMAIN w.answers |-> IF waits(n) THEN w.answers[n] + 1 ELSE w.answers[n]]
  BY <1>1 DEF Worlds, UndiscoverAll
<1>3. v.answers \in Seq(Nat) /\ DOMAIN v.answers = DOMAIN w.answers
  <2> DEFINE W == {n \in DOMAIN w.answers : waits(n)}
  <2>1. v.answers = [n \in DOMAIN w.answers |-> IF n \in W THEN w.answers[n] + 1 ELSE w.answers[n]]
    BY <1>2
  <2>2. w.answers \in Seq(Nat)
    BY <1>1 DEF Worlds
  <2> HIDE DEF v, W
  <2>3. v.answers \in [1 .. Len(w.answers) -> Nat] /\ DOMAIN w.answers = 1 .. Len(w.answers)
    BY <2>1, <2>2
  <2> QED
    BY <2>2, <2>3
<1>4. v.info \in [Services -> Infos]
  <2>1. <<>> \in Seq(Nat)
    OBVIOUS
  <2>2. NoInfo \in Infos
    BY <2>1 DEF NoInfo, Infos
  <2> QED
    BY <1>2, <2>2
<1>5. v \in Worlds
  BY <1>1, <1>3, <1>4 DEF Worlds, UndiscoverAll
<1>6. \A s \in Services : v.info[s] = NoInfo /\ Waiters(v, s) = {}
  BY <1>2 DEF Waiters, ToSet, NoInfo
<1> HIDE DEF v
<1>7. ASSUME Numbered(w) PROVE Numbered(v)
  <2>1. ASSUME NEW n \in DOMAIN v.answers
        PROVE  v.answers[n] = 1
    <3>1. w.answers[n] = IF waits(n) THEN 0 ELSE 1
      BY <1>3, <1>7, <2>1 DEF Numbered
    <3> HIDE DEF waits
    <3> QED
      BY <1>2, <1>3, <2>1, <3>1
  <2> QED
    BY <1>6, <2>1 DEF Numbered
<1>8. Worked(v, Services) /\ Remembered(v, FALSE)
  BY <1>6 DEF Worked, Remembered, NoInfo
<1>9. Mapped(v)
  BY <1>2 DEF Sound, Mapped
<1> QED
  BY <1>5, <1>7, <1>8, <1>9 DEF Sound, v

------------------------------------------------------------------------------
(* Resolving *)

\* The resolver of a service is done.
LEMMA ResolverDone ==
  ASSUME NEW w, NEW s \in Services, NEW b, Sound(w, b), w.info[s].resolver
  PROVE  LET v == [w EXCEPT !.info[s].resolver = FALSE]
         IN  /\ Almost(v, s, b) /\ v.conn = w.conn /\ v.tree = w.tree /\ v.answers = w.answers
             /\ v.info[s].known /\ ~v.info[s].resolver /\ v.info[s].resolved = Nobody
<1> DEFINE v == [w EXCEPT !.info[s].resolver = FALSE]
<1>1. w \in Worlds /\ w.info[s].known /\ w.info[s].resolved = Nobody
  BY DEF Sound, Remembered
<1>2. /\ v.conn = w.conn /\ v.tree = w.tree /\ v.answers = w.answers
      /\ v.info = [w.info EXCEPT ![s].resolver = FALSE]
  BY <1>1 DEF Worlds
<1>3. w.info \in [Services -> Infos] /\ [w.info[s] EXCEPT !.resolver = FALSE] \in Infos
  BY <1>1 DEF Worlds, Infos
<1>4. v.info \in [Services -> Infos]
  BY <1>2, <1>3
<1>5. v \in Worlds
  BY <1>1, <1>4 DEF Worlds
<1>6. /\ v.info[s].known = w.info[s].known /\ ~v.info[s].resolver
      /\ v.info[s].resolved = w.info[s].resolved /\ v.info[s].waiting = w.info[s].waiting
      /\ \A t \in Services \ {s} : v.info[t] = w.info[t]
  BY <1>2, <1>3 DEF Infos
<1> HIDE DEF v
<1>7. \A t \in Services : Waiters(v, t) = Waiters(w, t)
  BY <1>6 DEF Waiters
<1>8. Numbered(w) => Numbered(v)
  BY <1>2, <1>7 DEF Numbered
<1>9. Worked(w, Services) => Worked(v, Services \ {s})
  BY <1>6 DEF Worked
<1>10. Mapped(v) /\ Remembered(v, b)
  BY <1>1, <1>2, <1>6 DEF Sound, Mapped, Remembered
<1> QED
  BY <1>1, <1>2, <1>5, <1>6, <1>8, <1>9, <1>10 DEF Sound, Almost, v

\* A service is resolved to a connection that exists.
LEMMA ResolvedAlmost ==
  ASSUME DiscoveryAssumption, NEW w, NEW s \in Services, NEW b, NEW c \in Connections, Almost(w, s, b),
         ~w.info[s].resolver, w.conn[c].status # "none"
  PROVE  LET v == [w EXCEPT !.info[s].resolved = c]
         IN  /\ Almost(v, s, b) /\ v.conn = w.conn /\ v.tree = w.tree /\ v.answers = w.answers
             /\ v.info[s].known = w.info[s].known /\ ~v.info[s].resolver /\ v.info[s].resolved = c
<1> DEFINE v == [w EXCEPT !.info[s].resolved = c]
<1>1. w \in Worlds
  BY DEF Almost
<1>2. /\ v.conn = w.conn /\ v.tree = w.tree /\ v.answers = w.answers
      /\ v.info = [w.info EXCEPT ![s].resolved = c]
  BY <1>1 DEF Worlds
<1>3. w.info \in [Services -> Infos] /\ [w.info[s] EXCEPT !.resolved = c] \in Infos
  BY <1>1 DEF Worlds, Infos
<1>4. v.info \in [Services -> Infos]
  BY <1>2, <1>3
<1>5. v \in Worlds
  BY <1>1, <1>4 DEF Worlds
<1>6. /\ v.info[s].known = w.info[s].known /\ ~v.info[s].resolver
      /\ v.info[s].resolved = c /\ v.info[s].waiting = w.info[s].waiting
      /\ \A t \in Services \ {s} : v.info[t] = w.info[t]
  BY <1>2, <1>3 DEF Infos
<1> HIDE DEF v
<1>7. \A t \in Services : Waiters(v, t) = Waiters(w, t)
  BY <1>6 DEF Waiters
<1>8. Numbered(w) => Numbered(v)
  BY <1>2, <1>7 DEF Numbered
<1>9. Worked(w, Services \ {s}) => Worked(v, Services \ {s})
  BY <1>6 DEF Worked
<1>10. Mapped(v) /\ Remembered(v, b)
  BY <1>1, <1>2, <1>6 DEF Almost, Mapped, Remembered
<1> QED
  BY <1>1, <1>2, <1>5, <1>6, <1>8, <1>9, <1>10 DEF Almost, v

\* A connection that is used again keeps its place.
LEMMA ReopenedSound ==
  ASSUME NEW w \in Worlds, NEW c \in Connections, NEW opens, Mapped(w)
  PROVE  LET v == Reopened(w, c, opens)
         IN  /\ v \in Worlds /\ Mapped(v) /\ v.info = w.info /\ v.answers = w.answers
             /\ \A d \in Connections : v.conn[d].status = "none" => w.conn[d].status = "none"
<1>1. CASE ~(w.conn[c].status = "closed" /\ opens)
  BY <1>1 DEF Reopened
<1>2. CASE w.conn[c].status = "closed" /\ opens
  <2> DEFINE v == [w EXCEPT !.conn[c].status = "opening"]
  <2>1. /\ v.info = w.info /\ v.tree = w.tree /\ v.answers = w.answers
        /\ v.conn = [w.conn EXCEPT ![c].status = "opening"]
    BY DEF Worlds
  <2>2. w.conn \in [Connections -> Conns] /\ [w.conn[c] EXCEPT !.status = "opening"] \in Conns
    BY DEF Worlds, Conns, Statuses
  <2>3. v.conn \in [Connections -> Conns]
    BY <2>1, <2>2
  <2>4. v \in Worlds
    BY <2>3 DEF Worlds
  <2>5. /\ v.conn[c].status = "opening" /\ v.conn[c].address = w.conn[c].address
        /\ v.conn[c].listed = w.conn[c].listed
        /\ \A d \in Connections \ {c} : v.conn[d] = w.conn[d]
    BY <2>1, <2>2 DEF Conns
  <2>6. Reopened(w, c, opens) = v
    BY <1>2 DEF Reopened
  <2> HIDE DEF v
  <2>7. Mapped(v)
    BY <1>2, <2>1, <2>5 DEF Mapped, Worlds
  <2> QED
    BY <2>1, <2>4, <2>5, <2>6, <2>7
<1> QED
  BY <1>1, <1>2

\* A connection that is made is not listed yet.
LEMMA MadeSound ==
  ASSUME NEW w \in Worlds, NEW c \in Connections, NEW a \in Addresses, NEW is \in Statuses, Mapped(w),
         w.conn[c].status = "none"
  PROVE  LET v == [w EXCEPT !.conn[c] = [status |-> is, address |-> a, listed |-> FALSE]]
         IN  /\ v \in Worlds /\ Mapped(v) /\ v.info = w.info /\ v.answers = w.answers /\ v.tree = w.tree
             /\ v.conn[c].status = is /\ v.conn[c].address = a /\ ~v.conn[c].listed
             /\ \A d \in Connections : v.conn[d].status = "none" => w.conn[d].status = "none"
<1> DEFINE made == [status |-> is, address |-> a, listed |-> FALSE]
           v == [w EXCEPT !.conn[c] = made]
<1>1. /\ v.info = w.info /\ v.tree = w.tree /\ v.answers = w.answers
      /\ v.conn = [w.conn EXCEPT ![c] = made]
  BY DEF Worlds
<1>2. w.conn \in [Connections -> Conns] /\ made \in Conns
  BY DEF Worlds, Conns
<1>3. v.conn \in [Connections -> Conns]
  BY <1>1, <1>2
<1>4. v \in Worlds
  BY <1>3 DEF Worlds
<1>5. /\ v.conn[c].status = is /\ v.conn[c].address = a /\ ~v.conn[c].listed
      /\ \A d \in Connections \ {c} : v.conn[d] = w.conn[d]
  BY <1>1, <1>2
<1> HIDE DEF v
<1>6. Mapped(v)
  BY <1>1, <1>5 DEF Mapped, Worlds
<1> QED
  BY <1>1, <1>4, <1>5, <1>6 DEF v

\* A connection that a program made by itself is added at an address that is free.
LEMMA OwnSound ==
  ASSUME DiscoveryAssumption, NEW w, NEW c \in Connections, NEW a \in Addresses, NEW b,
         Sound(w, b), w.conn[c].status = "none", w.tree[a] = Nobody
  PROVE  Sound(Added([w EXCEPT !.conn[c] = [status |-> "closed", address |-> a, listed |-> FALSE]], c), b)
<1> DEFINE v == [w EXCEPT !.conn[c] = [status |-> "closed", address |-> a, listed |-> FALSE]]
<1>1. w \in Worlds /\ Mapped(w) /\ "closed" \in Statuses
  BY DEF Sound, Statuses
<1>2. /\ v \in Worlds /\ Mapped(v) /\ v.info = w.info /\ v.answers = w.answers /\ v.tree = w.tree
      /\ v.conn[c].status = "closed" /\ v.conn[c].address = a /\ ~v.conn[c].listed
      /\ \A d \in Connections : v.conn[d].status = "none" => w.conn[d].status = "none"
  BY <1>1, MadeSound
<1> HIDE DEF v
<1>3. Sound(v, b)
  BY <1>1, <1>2, Kept
<1>4. /\ Added(v, c) \in Worlds /\ Mapped(Added(v, c))
      /\ Added(v, c).info = v.info /\ Added(v, c).answers = v.answers
      /\ \A d \in Connections : Added(v, c).conn[d].status = v.conn[d].status
  BY <1>2, AddedSound
<1> QED
  BY <1>2, <1>3, <1>4, Kept DEF v

\* A connection gets another address, listed or not.
LEMMA MovedSound ==
  ASSUME DiscoveryAssumption, NEW w, NEW c \in Connections, NEW a \in Addresses, NEW b,
         Sound(w, b), w.conn[c].address # a
  PROVE  LET m == [w EXCEPT !.conn[c].address = a]
         IN  Sound(IF w.conn[c].listed THEN KeyChanged(m, c, w.conn[c].address) ELSE m, b)
<1> DEFINE m == [w EXCEPT !.conn[c].address = a]
           v == KeyChanged(m, c, w.conn[c].address)
<1>1. w \in Worlds /\ Mapped(w)
  BY DEF Sound
<1>2. CASE w.conn[c].listed
  <2>1. /\ v \in Worlds /\ Mapped(v) /\ v.info = w.info /\ v.answers = w.answers
        /\ \A d \in Connections : v.conn[d].status = w.conn[d].status
    BY <1>1, <1>2, KeyChangedSound
  <2> HIDE DEF v
  <2>2. Sound(v, b)
    BY <1>1, <2>1, Kept
  <2> QED
    BY <1>2, <2>2 DEF v
<1>3. CASE ~w.conn[c].listed
  <2>1. /\ m \in Worlds /\ Mapped(m) /\ m.info = w.info /\ m.answers = w.answers
        /\ \A d \in Connections : m.conn[d].status = w.conn[d].status
    BY <1>1, <1>3, ReaddressedSound
  <2> HIDE DEF m
  <2>2. Sound(m, b)
    BY <1>1, <2>1, Kept
  <2> QED
    BY <1>3, <2>2 DEF m
<1> QED
  BY <1>2, <1>3

\* The resolver has found an address.
LEMMA FoundSound ==
  ASSUME DiscoveryAssumption, NEW w, NEW s \in Services, NEW b, NEW a \in Addresses, NEW opens,
         Sound(w, b), w.info[s].resolver, MayFind(w, a)
  PROVE  Sound(Found(w, s, a, opens), b)
<1> DEFINE v == [w EXCEPT !.info[s].resolver = FALSE]
<1>1. /\ Almost(v, s, b) /\ v.conn = w.conn /\ v.tree = w.tree /\ v.answers = w.answers
      /\ v.info[s].known /\ ~v.info[s].resolver /\ v.info[s].resolved = Nobody
  BY ResolverDone
<1>2. w.tree[a] \in Connections \cup {Nobody} /\ w \in Worlds /\ Mapped(w)
  BY DEF Sound, Worlds
<1>3. CASE w.tree[a] # Nobody
  <2> DEFINE given == [v EXCEPT !.info[s].resolved = w.tree[a]]
             reused == Reopened(given, w.tree[a], opens)
  <2>1. w.tree[a] \in Connections /\ w.conn[w.tree[a]].status # "none"
    BY <1>2, <1>3 DEF Mapped
  <2> HIDE DEF v
  <2>2. Almost(given, s, b) /\ given.info[s].known
    BY <1>1, <2>1, ResolvedAlmost
  <2> HIDE DEF given
  <2>3. /\ reused \in Worlds /\ Mapped(reused) /\ reused.info = given.info /\ reused.answers = given.answers
        /\ \A d \in Connections : reused.conn[d].status = "none" => given.conn[d].status = "none"
    BY <2>1, <2>2, ReopenedSound DEF Almost
  <2>4. Almost(reused, s, b) /\ reused.info[s].known
    BY <2>2, <2>3, Carried DEF Almost
  <2>5. Sound(Answered(reused, s), b) /\ Sound(ResolvError(reused, s), b)
    BY <2>4, AnsweredSound, ResolvErrorSound
  <2>6. Found(w, s, a, opens) \in {Answered(reused, s), ResolvError(reused, s)}
    BY <1>3 DEF Found, given, v
  <2> QED
    BY <2>5, <2>6
<1>4. CASE w.tree[a] = Nobody /\ opens
  <2> DEFINE free == {c \in Connections : w.conn[c].status = "none"}
             new == CHOOSE c \in free : TRUE
             held == [v EXCEPT !.conn[new] = [status |-> "opening", address |-> a, listed |-> FALSE]]
             given == [held EXCEPT !.info[s].resolved = new]
  <2>1. new \in Connections /\ w.conn[new].status = "none"
    BY <1>4 DEF MayFind
  <2>2. Found(w, s, a, opens) = Answered(Added(given, new), s)
    BY <1>4 DEF Found
  <2> HIDE DEF new, v
  <2>3. /\ held \in Worlds /\ Mapped(held) /\ held.info = v.info /\ held.answers = v.answers /\ held.tree = v.tree
        /\ held.conn[new].status = "opening" /\ held.conn[new].address = a /\ ~held.conn[new].listed
        /\ \A d \in Connections : held.conn[d].status = "none" => v.conn[d].status = "none"
    <3>1. v \in Worlds /\ Mapped(v) /\ v.conn[new].status = "none"
      BY <1>1, <2>1 DEF Almost
    <3>2. "opening" \in Statuses
      BY DEF Statuses
    <3> QED
      BY <2>1, <3>1, <3>2, MadeSound
  <2> HIDE DEF held
  <2>4. Almost(held, s, b)
    BY <1>1, <2>3, Carried DEF Almost
  <2>5. Almost(given, s, b) /\ given.conn = held.conn /\ given.tree = held.tree
    BY <1>1, <2>1, <2>3, <2>4, ResolvedAlmost
  <2> HIDE DEF given
  <2>6. /\ Added(given, new) \in Worlds /\ Mapped(Added(given, new))
        /\ Added(given, new).info = given.info /\ Added(given, new).answers = given.answers
        /\ \A d \in Connections : Added(given, new).conn[d].status = given.conn[d].status
    BY <1>1, <1>4, <2>1, <2>3, <2>5, AddedSound DEF Almost
  <2>7. Almost(Added(given, new), s, b)
    BY <2>5, <2>6, Carried DEF Almost
  <2>8. Sound(Answered(Added(given, new), s), b)
    BY <2>7, AnsweredSound
  <2> QED
    BY <2>2, <2>8
<1>5. CASE w.tree[a] = Nobody /\ ~opens
  <2>1. Found(w, s, a, opens) = ResolvError(v, s)
    BY <1>5 DEF Found
  <2> HIDE DEF v
  <2> QED
    BY <1>1, <2>1, ResolvErrorSound
<1> QED
  BY <1>3, <1>4, <1>5

------------------------------------------------------------------------------
(* The steps *)

\* What becomes of the world is what the operations say.
LEMMA BecameSound ==
  ASSUME NEW w, Sound(w, browser'), WorldIs(w), UNCHANGED retries
  PROVE  Sound(World, browser)'
<1>1. World'.info = w.info /\ World'.conn = w.conn /\ World'.tree = w.tree /\ World'.answers = w.answers
  BY DEF WorldIs, World
<1>2. World' \in Worlds
  <2>1. /\ info' \in [Services -> Infos] /\ conn' \in [Connections -> Conns]
        /\ tree' \in [Addresses -> Connections \cup {Nobody}] /\ answers' \in Seq(Nat)
    BY DEF WorldIs, Sound, Worlds
  <2> QED
    BY <2>1 DEF World, Worlds
<1>3. Mapped(w) => Mapped(World)'
  BY <1>1 DEF Mapped
<1>4. Remembered(w, browser') => Remembered(World, browser)'
  BY <1>1 DEF Remembered
<1>5. Numbered(w) => Numbered(World)'
  BY <1>1 DEF Numbered, Waiters
<1>6. Worked(w, Services) => Worked(World, Services)'
  BY <1>1 DEF Worked
<1> QED
  BY <1>2, <1>3, <1>4, <1>5, <1>6 DEF Sound

\* Each action, when no assertion has failed.
LEMMA AvahiRunsStep ==
  ASSUME IInv, AvahiRuns
  PROVE  IInv'
<1>1. Sound(World, browser')
  BY DEF IInv, Sound, Remembered, AvahiRuns
<1>2. WorldIs(World)
  BY DEF AvahiRuns, WorldIs, World
<1> QED
  BY <1>1, <1>2, BecameSound DEF IInv, AvahiRuns

\* What was discovered is gone with the daemon, and with the browser.
LEMMA UndiscoverStep ==
  ASSUME IInv, AvahiFails \/ BrowserFails
  PROVE  IInv'
<1>1. Sound(UndiscoverAll(World), browser') /\ WorldIs(UndiscoverAll(World))
  BY UndiscoveredSound DEF IInv, AvahiFails, BrowserFails
<1> QED
  BY <1>1, BecameSound DEF IInv, AvahiFails, BrowserFails

\* A service becomes known.
LEMMA BrowserNewStep ==
  ASSUME IInv, NEW s \in Services, BrowserNew(s)
  PROVE  IInv'
<1> DEFINE w == World'
<1>1. /\ info \in [Services -> Infos] /\ conn \in [Connections -> Conns]
      /\ tree \in [Addresses -> Connections \cup {Nobody}] /\ answers \in Seq(Nat)
  BY DEF IInv, Sound, World, Worlds
<1>2. /\ info' = [info EXCEPT ![s].known = TRUE] /\ browser /\ browser'
      /\ UNCHANGED <<conn, tree, answers, retries, failed>>
  BY DEF BrowserNew
<1>3. info' \in [Services -> Infos]
  <2>1. [info[s] EXCEPT !.known = TRUE] \in Infos
    BY <1>1 DEF Infos
  <2> QED
    BY <1>1, <1>2, <2>1
<1>4. /\ info'[s].known /\ info'[s].resolver = info[s].resolver
      /\ info'[s].resolved = info[s].resolved /\ info'[s].waiting = info[s].waiting
      /\ \A t \in Services \ {s} : info'[t] = info[t]
  BY <1>1, <1>2 DEF Infos
<1>5. World' \in Worlds
  BY <1>1, <1>2, <1>3 DEF World, Worlds
<1>6. \A t \in Services : Waiters(World, t)' = Waiters(World, t)
  BY <1>4 DEF Waiters, World
<1>7. Numbered(World) => Numbered(World)'
  BY <1>2, <1>6 DEF Numbered, World
<1>8. Worked(World, Services) => Worked(World, Services)'
  BY <1>4 DEF Worked, World
<1>9. Mapped(World)'
  BY <1>2 DEF IInv, Sound, Mapped, World
<1>10. Remembered(World, browser)'
  BY <1>2, <1>4 DEF IInv, Sound, Remembered, World
<1> QED
  BY <1>2, <1>5, <1>7, <1>8, <1>9, <1>10 DEF IInv, Sound

\* A service is gone.
LEMMA BrowserRemoveStep ==
  ASSUME IInv, NEW s \in Services, BrowserRemove(s)
  PROVE  IInv'
<1>1. Sound(InfoFree(World, s), browser') /\ WorldIs(InfoFree(World, s))
  BY InfoFreeSound DEF IInv, BrowserRemove
<1> QED
  BY <1>1, BecameSound DEF IInv, BrowserRemove

\* A resolver finds an address, or fails.
LEMMA ResolverStep ==
  ASSUME DiscoveryAssumption, IInv, NEW s \in Services, Resolver(s)
  PROVE  IInv'
<1>1. info[s].resolver /\ info[s].resolved = Nobody /\ browser' = browser /\ retries' = retries
  BY DEF IInv, Sound, Remembered, World, Resolver
<1>2. World.info[s].resolver /\ Sound(World, browser)
  BY <1>1 DEF IInv, World
<1>3. failed' \in {"no", "client is not running", "no resolver"}
  BY <1>1 DEF Resolver, Asserted, IInv
<1>4. CASE \E a \in Addresses, opens \in BOOLEAN :
             MayFind(World, a) /\ WorldIs(Found(World, s, a, opens))
  <2>1. PICK a \in Addresses, opens \in BOOLEAN :
          MayFind(World, a) /\ WorldIs(Found(World, s, a, opens))
    BY <1>4
  <2>2. Sound(Found(World, s, a, opens), browser')
    BY <1>1, <1>2, <2>1, FoundSound
  <2> QED
    BY <1>1, <1>3, <2>1, <2>2, BecameSound DEF IInv
<1>5. CASE WorldIs(ResolvError([World EXCEPT !.info[s].resolver = FALSE], s))
  <2> DEFINE v == [World EXCEPT !.info[s].resolver = FALSE]
  <2>1. Almost(v, s, browser) /\ v.info[s].known
    BY <1>2, ResolverDone
  <2> HIDE DEF v
  <2>2. Sound(ResolvError(v, s), browser')
    BY <1>1, <2>1, ResolvErrorSound
  <2> QED
    BY <1>1, <1>3, <1>5, <2>2, BecameSound DEF IInv, v
<1> QED
  BY <1>4, <1>5 DEF Resolver

\* A connection is added: the program's own, or one that was removed.
LEMMA AddStep ==
  ASSUME DiscoveryAssumption, IInv,
         \/ \E a \in Addresses : AddConnection(a)
         \/ \E c \in Connections : ReaddConnection(c)
  PROVE  IInv'
<1>1. Sound(World, browser) /\ World \in Worlds /\ Mapped(World) /\ failed \in {"no", "client is not running", "no resolver"}
  BY DEF IInv, Sound
<1>2. CASE \E a \in Addresses : AddConnection(a)
  <2>1. PICK a \in Addresses : AddConnection(a)
    BY <1>2
  <2>2. PICK c \in Connections :
          /\ conn[c].status = "none"
          /\ WorldIs(Added([World EXCEPT !.conn[c] = [status |-> "closed", address |-> a, listed |-> FALSE]], c))
    BY <2>1 DEF AddConnection
  <2>3. World.conn[c].status = "none" /\ World.tree[a] = Nobody
    BY <2>1, <2>2 DEF World, AddConnection
  <2>4. Sound(Added([World EXCEPT !.conn[c] = [status |-> "closed", address |-> a, listed |-> FALSE]], c), browser)
    BY <1>1, <2>3, OwnSound
  <2> QED
    BY <1>1, <2>1, <2>2, <2>4, BecameSound DEF IInv, AddConnection
<1>3. CASE \E c \in Connections : ReaddConnection(c)
  <2>1. PICK c \in Connections : ReaddConnection(c)
    BY <1>3
  <2>2. World.conn[c].status # "none" /\ ~World.conn[c].listed /\ World.tree[World.conn[c].address] = Nobody
    BY <2>1 DEF World, ReaddConnection
  <2>3. /\ Added(World, c) \in Worlds /\ Mapped(Added(World, c))
        /\ Added(World, c).info = World.info /\ Added(World, c).answers = World.answers
        /\ \A d \in Connections : Added(World, c).conn[d].status = World.conn[d].status
    BY <1>1, <2>2, AddedSound
  <2>4. Sound(Added(World, c), browser)
    BY <1>1, <2>3, Kept
  <2> QED
    BY <1>1, <2>1, <2>4, BecameSound DEF IInv, ReaddConnection
<1> QED
  BY <1>2, <1>3

\* A connection is removed, or dropped, or both.
LEMMA RemoveStep ==
  ASSUME DiscoveryAssumption, IInv, NEW c \in Connections, RemoveConnection(c) \/ DropConnection(c)
  PROVE  IInv'
<1>1. Sound(World, browser) /\ World \in Worlds /\ Mapped(World) /\ failed \in {"no", "client is not running", "no resolver"}
  BY DEF IInv, Sound
<1>2. UNCHANGED <<browser, retries, failed>>
  BY DEF RemoveConnection, DropConnection
<1>3. CASE RemoveConnection(c)
  <2> DEFINE v == Removed(World, c)
  <2>1. World.conn[c].listed
    BY <1>3 DEF World, RemoveConnection
  <2>2. /\ v \in Worlds /\ Mapped(v) /\ v.info = World.info /\ v.answers = World.answers
        /\ \A d \in Connections : v.conn[d].status = World.conn[d].status
        /\ ~v.conn[c].listed
    BY <1>1, <2>1, RemovedSound
  <2>3. WorldIs(v) \/ WorldIs(Destroyed(v, c))
    BY <1>3 DEF RemoveConnection
  <2> HIDE DEF v
  <2>4. Sound(v, browser)
    BY <1>1, <2>2, Kept
  <2>5. Sound(Destroyed(v, c), browser)
    BY <2>2, <2>4, DestroyedSound
  <2> QED
    BY <1>1, <1>2, <2>3, <2>4, <2>5, BecameSound DEF IInv
<1>4. CASE DropConnection(c)
  <2>1. ~World.conn[c].listed /\ WorldIs(Destroyed(World, c))
    BY <1>4 DEF World, DropConnection
  <2>2. Sound(Destroyed(World, c), browser)
    BY <1>1, <2>1, DestroyedSound
  <2> QED
    BY <1>1, <1>2, <2>1, <2>2, BecameSound DEF IInv
<1> QED
  BY <1>3, <1>4

\* A connection gets another address.
LEMMA SetRemoteStep ==
  ASSUME DiscoveryAssumption, IInv, NEW c \in Connections, NEW a \in Addresses, SetRemote(c, a)
  PROVE  IInv'
<1>1. Sound(World, browser) /\ World \in Worlds /\ Mapped(World) /\ failed \in {"no", "client is not running", "no resolver"}
  BY DEF IInv, Sound
<1>2. UNCHANGED <<browser, retries, failed>> /\ World.conn[c].address # a /\ World.conn[c] = conn[c]
  BY DEF SetRemote, World
<1> DEFINE m == [World EXCEPT !.conn[c].address = a]
           v == IF conn[c].listed THEN KeyChanged(m, c, conn[c].address) ELSE m
<1>3. WorldIs(v)
  BY DEF SetRemote
<1>4. Sound(v, browser)
  <2>1. v = IF World.conn[c].listed THEN KeyChanged(m, c, World.conn[c].address) ELSE m
    BY <1>2
  <2> HIDE DEF v
  <2> QED
    BY <1>1, <1>2, <2>1, MovedSound
<1> QED
  BY <1>1, <1>2, <1>3, <1>4, BecameSound DEF IInv

\* A connection opens or closes.
LEMMA ChangesStep ==
  ASSUME IInv, NEW c \in Connections, ConnectionChanges(c)
  PROVE  IInv'
<1>1. /\ info \in [Services -> Infos] /\ conn \in [Connections -> Conns]
      /\ tree \in [Addresses -> Connections \cup {Nobody}] /\ answers \in Seq(Nat)
  BY DEF IInv, Sound, World, Worlds
<1>2. PICK change \in Changes :
        conn[c].status = change[1] /\ conn' = [conn EXCEPT ![c].status = change[2]]
  BY DEF ConnectionChanges
<1>3. change[1] \in Statuses \ {"none"} /\ change[2] \in Statuses \ {"none"}
  BY DEF Changes, Statuses
<1>4. UNCHANGED <<browser, info, tree, answers, retries, failed>>
  BY DEF ConnectionChanges
<1>5. conn' \in [Connections -> Conns]
  <2>1. [conn[c] EXCEPT !.status = change[2]] \in Conns
    BY <1>1, <1>3 DEF Conns
  <2> QED
    BY <1>1, <1>2, <2>1
<1>6. /\ conn[c].status # "none" /\ conn'[c].status # "none"
      /\ conn'[c].address = conn[c].address /\ conn'[c].listed = conn[c].listed
      /\ \A d \in Connections \ {c} : conn'[d] = conn[d]
  BY <1>1, <1>2, <1>3 DEF Conns
<1>7. World \in Worlds /\ World' \in Worlds
  BY <1>1, <1>4, <1>5 DEF World, Worlds
<1>8. Mapped(World)'
  <2>1. \A d \in Connections :
          /\ conn'[d].address = conn[d].address /\ conn'[d].listed = conn[d].listed
          /\ conn'[d].status = "none" <=> conn[d].status = "none"
    BY <1>6
  <2>2. Mapped(World)
    BY DEF IInv, Sound
  <2> QED
    BY <1>1, <1>4, <2>1, <2>2 DEF Mapped, World
<1>9. Remembered(World, browser)'
  BY <1>1, <1>4, <1>6 DEF IInv, Sound, Remembered, World, Infos
<1>10. Numbered(World) => Numbered(World)'
  BY <1>4 DEF Numbered, Waiters, World
<1>11. Worked(World, Services) => Worked(World, Services)'
  BY <1>4 DEF Worked, World
<1> QED
  BY <1>4, <1>7, <1>8, <1>9, <1>10, <1>11 DEF IInv, Sound

\* A program waits for a service to be resolved.
LEMMA WaitsSound ==
  ASSUME NEW w, NEW s \in Services, NEW b, Sound(w, b), w.info[s].known, w.info[s].resolved = Nobody
  PROVE  Sound([w EXCEPT !.answers = Append(@, 0), !.info[s].waiting = <<Len(w.answers) + 1>> \o @,
                         !.info[s].resolver = TRUE], b)
<1> DEFINE n == Len(w.answers) + 1
           v == [w EXCEPT !.answers = Append(@, 0), !.info[s].waiting = <<n>> \o @, !.info[s].resolver = TRUE]
           x == [w.info[s] EXCEPT !.waiting = <<n>> \o @, !.resolver = TRUE]
<1>1. w \in Worlds /\ w.info \in [Services -> Infos] /\ w.answers \in Seq(Nat)
  BY DEF Sound, Worlds
<1>2. /\ v.conn = w.conn /\ v.tree = w.tree /\ v.answers = Append(w.answers, 0)
      /\ v.info = [w.info EXCEPT ![s] = x]
  BY <1>1 DEF Worlds
<1>3. n \in Nat \ {0} /\ n \notin DOMAIN w.answers /\ <<n>> \o w.info[s].waiting \in Seq(Nat)
  BY <1>1 DEF Infos
<1>4. /\ v.answers \in Seq(Nat) /\ DOMAIN v.answers = DOMAIN w.answers \cup {n}
      /\ v.answers[n] = 0 /\ \A m \in DOMAIN w.answers : v.answers[m] = w.answers[m]
  BY <1>1, <1>2
<1>5. x \in Infos
  BY <1>1, <1>3 DEF Infos
<1>6. v.info \in [Services -> Infos]
  <2> HIDE DEF x, v
  <2> QED
    BY <1>1, <1>2, <1>5
<1>7. v \in Worlds
  BY <1>1, <1>4, <1>6 DEF Worlds
<1>8. /\ v.info[s].known /\ v.info[s].resolver /\ v.info[s].resolved = Nobody
      /\ v.info[s].waiting = <<n>> \o w.info[s].waiting
      /\ \A t \in Services \ {s} : v.info[t] = w.info[t]
  BY <1>1, <1>2 DEF Infos
<1> HIDE DEF v
<1>9. Waiters(v, s) = {n} \cup Waiters(w, s) /\ \A t \in Services \ {s} : Waiters(v, t) = Waiters(w, t)
  <2>1. ASSUME NEW q \in Seq(Nat)
        PROVE  ToSet(<<n>> \o q) = {n} \cup ToSet(q)
    <3>1. /\ DOMAIN (<<n>> \o q) = 1 .. Len(q) + 1 /\ (<<n>> \o q)[1] = n
          /\ \A i \in 1 .. Len(q) : (<<n>> \o q)[i + 1] = q[i]
      BY <1>3
    <3>2. \A i \in 2 .. Len(q) + 1 : i - 1 \in 1 .. Len(q) /\ (<<n>> \o q)[i] = q[i - 1]
      BY <1>3
    <3>3. \A i \in 1 .. Len(q) : i + 1 \in 1 .. Len(q) + 1
      OBVIOUS
    <3>4. ASSUME NEW m \in ToSet(<<n>> \o q)
          PROVE  m \in {n} \cup ToSet(q)
      <4>1. PICK i \in 1 .. Len(q) + 1 : m = (<<n>> \o q)[i]
        BY <3>1, <3>4 DEF ToSet
      <4>2. i = 1 \/ i \in 2 .. Len(q) + 1
        OBVIOUS
      <4> QED
        BY <3>1, <3>2, <4>1, <4>2 DEF ToSet
    <3>5. ASSUME NEW m \in {n} \cup ToSet(q)
          PROVE  m \in ToSet(<<n>> \o q)
      <4>1. CASE m = n
        <5>1. 1 \in DOMAIN (<<n>> \o q)
          BY <3>1
        <5> QED
          BY <3>1, <4>1, <5>1 DEF ToSet
      <4>2. CASE m \in ToSet(q)
        <5>1. PICK i \in 1 .. Len(q) : m = q[i]
          BY <4>2 DEF ToSet
        <5> QED
          BY <3>1, <3>3, <5>1 DEF ToSet
      <4> QED
        BY <3>5, <4>1, <4>2
    <3> QED
      BY <3>4, <3>5
  <2>2. w.info[s].waiting \in Seq(Nat)
    BY <1>1 DEF Infos
  <2> QED
    BY <1>8, <2>1, <2>2 DEF Waiters
<1>10. ASSUME Numbered(w) PROVE Numbered(v)
  <2>1. \A t \in Services : n \notin Waiters(w, t)
    BY <1>3, <1>10 DEF Numbered
  <2> QED
    BY <1>4, <1>9, <1>10, <2>1 DEF Numbered
<1>11. Worked(w, Services) => Worked(v, Services)
  BY <1>8 DEF Worked
<1>12. Mapped(v) /\ Remembered(v, b)
  BY <1>2, <1>8 DEF Sound, Mapped, Remembered
<1> QED
  BY <1>7, <1>10, <1>11, <1>12 DEF Sound, v

\* A program that need not wait is answered at once.
LEMMA ToldSound ==
  ASSUME NEW w, NEW b, Sound(w, b)
  PROVE  LET v == [w EXCEPT !.answers = Append(@, 1)]
         IN  Sound(v, b) /\ v.conn = w.conn
<1> DEFINE n == Len(w.answers) + 1
           v == [w EXCEPT !.answers = Append(@, 1)]
<1>1. w \in Worlds /\ w.answers \in Seq(Nat)
  BY DEF Sound, Worlds
<1>2. v.conn = w.conn /\ v.tree = w.tree /\ v.info = w.info /\ v.answers = Append(w.answers, 1)
  BY <1>1 DEF Worlds
<1>3. /\ v.answers \in Seq(Nat) /\ DOMAIN v.answers = DOMAIN w.answers \cup {n} /\ n \notin DOMAIN w.answers
      /\ v.answers[n] = 1 /\ \A m \in DOMAIN w.answers : v.answers[m] = w.answers[m]
  BY <1>1, <1>2
<1>4. v \in Worlds
  BY <1>1, <1>3 DEF Worlds
<1> HIDE DEF v, n
<1>5. \A t \in Services : Waiters(v, t) = Waiters(w, t)
  BY <1>2 DEF Waiters
<1>6. Numbered(w) => Numbered(v)
  BY <1>3, <1>5 DEF Numbered
<1>7. (Worked(w, Services) => Worked(v, Services)) /\ Mapped(v) /\ Remembered(v, b)
  BY <1>2 DEF Sound, Worked, Mapped, Remembered
<1> QED
  BY <1>2, <1>4, <1>6, <1>7 DEF Sound, v

\* A program resolves a service.
LEMMA ResolveStep ==
  ASSUME DiscoveryAssumption, IInv, NEW s \in Services, Resolve(s)
  PROVE  IInv'
<1>1. /\ Sound(World, browser) /\ World \in Worlds /\ World.info[s].known /\ World.info[s] = info[s]
      /\ World.answers = answers /\ UNCHANGED <<browser, retries>>
  BY DEF IInv, Sound, World, Resolve
<1>2. failed' \in {"no", "client is not running", "no resolver"}
  BY DEF Resolve, Asserted, IInv
<1>3. CASE info[s].resolved = Nobody
  <2> DEFINE v == [World EXCEPT !.answers = Append(@, 0), !.info[s].waiting = <<Len(answers) + 1>> \o @,
                                !.info[s].resolver = TRUE]
  <2>1. WorldIs(v)
    BY <1>3 DEF Resolve
  <2>2. v = [World EXCEPT !.answers = Append(@, 0), !.info[s].waiting = <<Len(World.answers) + 1>> \o @,
                          !.info[s].resolver = TRUE]
    BY <1>1
  <2> HIDE DEF v
  <2>3. Sound(v, browser')
    BY <1>1, <1>3, <2>2, WaitsSound
  <2> QED
    BY <1>1, <1>2, <2>1, <2>3, BecameSound DEF IInv
<1>4. CASE info[s].resolved # Nobody
  <2> DEFINE c == info[s].resolved
             told == [World EXCEPT !.answers = Append(@, 1)]
  <2>1. PICK opens \in BOOLEAN : WorldIs(Reopened(told, c, opens))
    BY <1>4 DEF Resolve
  <2>2. c \in Connections
    <3>1. info[s] \in Infos
      BY <1>1 DEF World, Worlds
    <3> QED
      BY <1>4, <3>1 DEF Infos
  <2>3. Sound(told, browser)
    BY <1>1, ToldSound
  <2> HIDE DEF told, c
  <2>4. told \in Worlds /\ Mapped(told)
    BY <2>3 DEF Sound
  <2> DEFINE v == Reopened(told, c, opens)
  <2>5. /\ v \in Worlds /\ Mapped(v) /\ v.info = told.info /\ v.answers = told.answers
        /\ \A d \in Connections : v.conn[d].status = "none" => told.conn[d].status = "none"
    BY <2>2, <2>4, ReopenedSound
  <2> HIDE DEF v
  <2>6. Sound(v, browser)
    BY <2>3, <2>4, <2>5, Kept
  <2> QED
    BY <1>1, <1>2, <2>1, <2>6, BecameSound DEF IInv, v
<1> QED
  BY <1>3, <1>4

------------------------------------------------------------------------------
(* The theorem about discovery *)

\* At the start nothing is known.
LEMMA InitSound ==
  ASSUME DiscoveryInit
  PROVE  IInv
<1>1. World \in Worlds
  <2>1. <<>> \in Seq(Nat)
    OBVIOUS
  <2>2. NoInfo \in Infos /\ NoConnection \in Conns
    BY <2>1 DEF NoInfo, Infos, NoConnection, Conns, Statuses
  <2> QED
    BY <2>1, <2>2 DEF DiscoveryInit, World, Worlds
<1>2. Mapped(World) /\ Remembered(World, browser) /\ Worked(World, Services)
  BY DEF DiscoveryInit, World, Mapped, Remembered, Worked, NoInfo, NoConnection
<1>3. Numbered(World)
  BY DEF DiscoveryInit, World, Numbered, Waiters, ToSet, NoInfo
<1> QED
  BY <1>1, <1>2, <1>3 DEF IInv, Sound, DiscoveryInit

\* What is known of the world implies what is promised.
LEMMA SoundIsExact ==
  ASSUME IInv
  PROVE  DiscoveryExact
<1>1. TreeExact
  BY DEF IInv, Sound, Mapped, World, TreeExact
<1>2. ResolvedExists
  BY DEF IInv, Sound, Remembered, World, ResolvedExists
<1>3. retries \/ AlwaysAnswered
  BY DEF IInv, Sound, Numbered, Worked, Waiters, World, AlwaysAnswered
<1> QED
  BY <1>1, <1>2, <1>3 DEF DiscoveryExact, IInv

\* Connections are found where they are, and calls answered, whatever comes and goes
\* (inf-xmpp-manager.c, inf-discovery-avahi.c).
THEOREM DiscoveryExactAlways ==
  ASSUME DiscoveryAssumption
  PROVE  DiscoverySpec => []DiscoveryExact
<1>1. ASSUME IInv, [DiscoveryNext]_discovery PROVE IInv'
  <2>1. CASE UNCHANGED discovery
    BY <1>1, <2>1 DEF discovery, IInv, Sound, World, Mapped, Remembered, Numbered, Worked, Waiters
  <2>2. CASE AvahiRuns
    BY <1>1, <2>2, AvahiRunsStep
  <2>3. CASE AvahiRegisters
    BY <1>1, <2>3 DEF AvahiRegisters, IInv, Sound, World, Mapped, Remembered, Numbered, Worked, Waiters
  <2>4. CASE AvahiFails \/ BrowserFails
    BY <1>1, <2>4, UndiscoverStep
  <2>5. CASE \E s \in Services : BrowserNew(s) \/ BrowserRemove(s)
    BY <1>1, <2>5, BrowserNewStep, BrowserRemoveStep
  <2>6. CASE \E s \in Services : Resolver(s) \/ Resolve(s)
    BY <1>1, <2>6, ResolverStep, ResolveStep
  <2>7. CASE (\E a \in Addresses : AddConnection(a)) \/ \E c \in Connections : ReaddConnection(c)
    BY <1>1, <2>7, AddStep
  <2>8. CASE \E c \in Connections : RemoveConnection(c) \/ DropConnection(c)
    BY <1>1, <2>8, RemoveStep
  <2>9. CASE \E c \in Connections : ConnectionChanges(c)
    BY <1>1, <2>9, ChangesStep
  <2>10. CASE \E c \in Connections, a \in Addresses : SetRemote(c, a)
    BY <1>1, <2>10, SetRemoteStep
  <2> QED
    BY <1>1, <2>4, <2>5, <2>1, <2>2, <2>3, <2>6, <2>7, <2>8, <2>9, <2>10 DEF DiscoveryNext
<1> QED
  BY <1>1, InitSound, SoundIsExact, PTL DEF DiscoverySpec

------------------------------------------------------------------------------
(* RECORDS: the types *)

Vectors == [Users -> Int]
Kinds == {"text", "caret"}
Requested == [user : Users, vector : Vectors, kind : Kinds]
Sessions == [known : SUBSET Users, there : SUBSET Users, vector : [Users -> Vectors], current : Vectors,
             done : Seq(Requested)]
Nodes == [name : {"initial"}, session : Sessions]
         \cup [name : {"request"}, user : Users, kind : Kinds, diff : Vectors]
         \cup [name : {"user"}, user : Users, vector : Vectors]

------------------------------------------------------------------------------
(* The invariant *)

\* What an element adds to what was recorded before it.
ExtendsRequest(node, s, t, last, next) ==
  LET vector == FromDiff(node.diff, last[node.user])
  IN  /\ node.name = "request" /\ node.user \in s.known /\ node.kind \in Kinds
      /\ vector \in Vectors
      /\ t.done = Append(s.done, [user |-> node.user, vector |-> vector, kind |-> node.kind])
      /\ t.current = (IF Affects(node.kind) THEN Up(s.current, node.user, 1) ELSE s.current)
      /\ t.known = s.known
      /\ next = SentLast(last, node.user, vector, node.kind)
ExtendsUser(node, s, t, last, next) ==
  /\ node.name = "user" /\ node.user \in Users \ s.known /\ node.vector \in Vectors
  /\ t.known = s.known \cup {node.user} /\ t.current = s.current /\ t.done = s.done
  /\ next = UserJoined(last, node.user, node.vector)
Extends(node, s, t, last, next) ==
  ExtendsRequest(node, s, t, last, next) \/ ExtendsUser(node, s, t, last, next)

Same(s, t) == s.known = t.known /\ s.current = t.current /\ s.done = t.done
Knows(s, last) == \A u \in s.known : s.vector[u] = last[u]

\* With the vectors that were recorded last after each element, every element leads from
\* the session at the one before to the session at this one; the recorder goes on from the
\* last of them, and the replay is at one.
Chained(lasts) ==
  /\ lasts \in Seq([Users -> Vectors]) /\ Len(lasts) = Len(states)
  /\ states # <<>> => file.nodes[1].session = states[1] /\ Knows(states[1], lasts[1])
  /\ \A i \in 1 .. Len(states) - 1 :
       Extends(file.nodes[i + 1], states[i], states[i + 1], lasts[i], lasts[i + 1])
Goes(lasts) ==
  recorder.state = "recording" =>
    states # <<>> /\ recorder.last = lasts[Len(states)] /\ Same(session, states[Len(states)])
Plays(lasts) ==
  replay.at > 0 =>
    /\ replay.at <= Len(states) /\ Same(replay.session, states[replay.at])
    /\ Knows(replay.session, lasts[replay.at])
Recorded(lasts) == Chained(lasts) /\ Goes(lasts) /\ Plays(lasts)

RecordType ==
  /\ session \in Sessions /\ session.there \subseteq session.known
  /\ recorder \in [state : {"none", "waiting", "recording", "stopped"}, last : [Users -> Vectors]]
  /\ file \in [nodes : Seq(Nodes), ended : BOOLEAN]
  /\ states \in Seq(Sessions) /\ Len(states) = Len(file.nodes)
  /\ replay \in [session : Sessions, at : Int, error : BOOLEAN]

Stages ==
  /\ recorder.state \in {"none", "waiting"} => file.nodes = <<>>
  /\ recorder.state # "stopped" => replay.at = -1 /\ ~replay.error
  /\ replay.at = -1 \/ replay.at > 0
  /\ replay.error => file.nodes = <<>> \/ (AtEnd(replay.at) /\ ~file.ended)

RecordInv == RecordType /\ Stages /\ \E lasts : Recorded(lasts)

------------------------------------------------------------------------------
(* Sessions *)

\* A vector is found again from its difference to another one.
LEMMA DiffUndone ==
  ASSUME NEW v \in Vectors, NEW w \in Vectors
  PROVE  ToDiff(v, w) \in Vectors /\ FromDiff(ToDiff(v, w), w) = v /\ FromDiff(v, w) \in Vectors
BY DEF Vectors, ToDiff, FromDiff

\* Nothing was seen.
LEMMA ZeroVector == Zero \in Vectors
BY DEF Zero, Vectors

\* What executing a request, and a user that joins, do to a session.
IsExecuted(t, s, u, v, k) ==
  /\ t.known = s.known /\ t.there = s.there
  /\ t.vector = [s.vector EXCEPT ![u] = IF Affects(k) THEN Up(v, u, 1) ELSE v]
  /\ t.current = (IF Affects(k) THEN Up(s.current, u, 1) ELSE s.current)
  /\ t.done = Append(s.done, [user |-> u, vector |-> v, kind |-> k])
IsKnown(t, s, u, v) ==
  /\ t.known = s.known \cup {u} /\ t.there = s.there \cup {u}
  /\ t.vector = [s.vector EXCEPT ![u] = v] /\ t.current = s.current /\ t.done = s.done

\* Executing a request leads to a session again.
LEMMA ExecutedSession ==
  ASSUME NEW s \in Sessions, NEW u \in Users, NEW v \in Vectors, NEW k \in Kinds,
         NEW t, t = Executed(s, u, v, k)
  PROVE  t \in Sessions /\ IsExecuted(t, s, u, v, k)
<1> DEFINE w == IF Affects(k) THEN Up(v, u, 1) ELSE v
           c == IF Affects(k) THEN Up(s.current, u, 1) ELSE s.current
           r == [user |-> u, vector |-> v, kind |-> k]
<1>1. t.known = s.known /\ t.there = s.there /\ t.vector = [s.vector EXCEPT ![u] = w]
  BY DEF Executed, Sessions
<1>2. t.current = c /\ t.done = Append(s.done, r)
  BY DEF Executed, Sessions
<1>3. w \in Vectors /\ c \in Vectors
  <2>1. s.current \in Vectors
    BY DEF Sessions
  <2> QED
    BY <2>1 DEF Vectors, Up
<1>4. r \in Requested
  BY DEF Requested
<1> HIDE DEF w, c, r
<1>5. t.vector \in [Users -> Vectors] /\ t.current \in Vectors /\ t.done \in Seq(Requested)
  BY <1>1, <1>2, <1>3, <1>4 DEF Sessions
<1>6. t \in Sessions
  BY <1>1, <1>5 DEF Sessions, Executed
<1> QED
  BY <1>1, <1>2, <1>6 DEF w, c, r, IsExecuted

\* A user that joins leads to a session again.
LEMMA KnownSession ==
  ASSUME NEW s \in Sessions, NEW u \in Users, NEW v \in Vectors, NEW t, t = Known(s, u, v)
  PROVE  t \in Sessions /\ IsKnown(t, s, u, v)
<1>1. /\ t.known = s.known \cup {u} /\ t.there = s.there \cup {u}
      /\ t.vector = [s.vector EXCEPT ![u] = v] /\ t.current = s.current /\ t.done = s.done
  BY DEF Known, Sessions
<1>2. t.known \in SUBSET Users /\ t.there \in SUBSET Users /\ t.vector \in [Users -> Vectors]
  BY <1>1 DEF Sessions
<1>3. t \in Sessions
  BY <1>2 DEF Sessions, Known
<1> QED
  BY <1>1, <1>3 DEF IsKnown

------------------------------------------------------------------------------
(* Recording *)

\* An element that is written continues the record.
LEMMA ElementWritten ==
  ASSUME RecordInv, recorder.state = "recording",
         NEW node \in Nodes, NEW next \in [Users -> Vectors],
         session' \in Sessions, session'.there \subseteq session'.known,
         Extends(node, session, session', recorder.last, next),
         WriteNode(node, session'), recorder' = [recorder EXCEPT !.last = next], UNCHANGED replay
  PROVE  RecordInv'
<1> DEFINE n == Len(states)
<1>1. /\ RecordType /\ Stages /\ states \in Seq(Sessions) /\ n \in Nat /\ Len(file.nodes) = n
      /\ file.nodes \in Seq(Nodes) /\ replay.at = -1 /\ ~replay.error
  BY DEF RecordInv, RecordType, Stages
<1>2. PICK lasts : Recorded(lasts)
  BY DEF RecordInv
<1>3. /\ file' = [file EXCEPT !.nodes = Append(@, node)] /\ states' = Append(states, session')
      /\ file'.nodes = Append(file.nodes, node) /\ file'.ended = file.ended
  BY <1>1 DEF WriteNode, RecordType
<1>4. recorder'.state = "recording" /\ recorder'.last = next
  BY <1>1 DEF RecordType
<1>5. file' \in [nodes : Seq(Nodes), ended : BOOLEAN] /\ states' \in Seq(Sessions)
  <2>1. Append(file.nodes, node) \in Seq(Nodes) /\ Append(states, session') \in Seq(Sessions)
    BY <1>1
  <2>2. file \in [nodes : Seq(Nodes), ended : BOOLEAN]
    BY <1>1 DEF RecordType
  <2> QED
    BY <1>3, <2>1, <2>2
<1>6. recorder' \in [state : {"none", "waiting", "recording", "stopped"}, last : [Users -> Vectors]]
  BY <1>1 DEF RecordType
<1>7. RecordType'
  BY <1>1, <1>3, <1>5, <1>6 DEF RecordType
<1>8. Stages'
  BY <1>1, <1>4 DEF Stages
<1> DEFINE later == Append(lasts, next)
<1>9. /\ lasts \in Seq([Users -> Vectors]) /\ Len(lasts) = n /\ n > 0
      /\ recorder.last = lasts[n] /\ Same(session, states[n])
  BY <1>1, <1>2 DEF Recorded, Chained, Goes
<1>10. /\ later \in Seq([Users -> Vectors]) /\ Len(later) = n + 1 /\ later[n + 1] = next
       /\ \A i \in 1 .. n : later[i] = lasts[i]
  BY <1>1, <1>9
<1>11. /\ Len(states') = n + 1 /\ states'[n + 1] = session' /\ file'.nodes[n + 1] = node
       /\ \A i \in 1 .. n : states'[i] = states[i] /\ file'.nodes[i] = file.nodes[i]
  BY <1>1, <1>3
<1> HIDE DEF later, n
<1>12. Extends(node, states[n], session', lasts[n], next)
  BY <1>9 DEF Extends, ExtendsRequest, ExtendsUser, Same
<1>13. Chained(later)'
  <2>1. ASSUME NEW i \in 1 .. n
        PROVE  Extends(file'.nodes[i + 1], states'[i], states'[i + 1], later[i], later[i + 1])
    <3>1. CASE i = n
      BY <1>1, <1>9, <1>10, <1>11, <1>12, <3>1
    <3>2. CASE i # n
      <4>1. i \in 1 .. n - 1 /\ i + 1 \in 1 .. n
        BY <1>1, <3>2 DEF n
      <4>2. Extends(file.nodes[i + 1], states[i], states[i + 1], lasts[i], lasts[i + 1])
        BY <1>2, <4>1 DEF Recorded, Chained, n
      <4> QED
        BY <1>10, <1>11, <4>1, <4>2
    <3> QED
      BY <3>1, <3>2
  <2>2. file'.nodes[1].session = states'[1] /\ Knows(states'[1], later[1])
    <3>1. states # <<>> /\ 1 \in 1 .. n
      BY <1>1, <1>9 DEF n
    <3>2. file.nodes[1].session = states[1] /\ Knows(states[1], lasts[1])
      BY <1>2, <3>1 DEF Recorded, Chained
    <3> QED
      BY <1>10, <1>11, <3>1, <3>2
  <2>3. Len(states') - 1 = n
    BY <1>1, <1>11 DEF n
  <2> QED
    BY <1>10, <1>11, <2>1, <2>2, <2>3 DEF Chained
<1>14. Goes(later)' /\ Plays(later)'
  <2>1. states' # <<>>
    BY <1>1, <1>5, <1>11 DEF n
  <2>2. replay'.at = -1
    BY <1>1
  <2> QED
    BY <1>4, <1>10, <1>11, <2>1, <2>2 DEF Goes, Plays, Same
<1> QED
  BY <1>7, <1>8, <1>13, <1>14 DEF RecordInv, Recorded

\* The record starts with the session as it is.
LEMMA RecordStarted ==
  ASSUME RecordInv, file.nodes = <<>>, RealStart(session), recorder.state # "stopped",
         UNCHANGED <<session, replay>>
  PROVE  RecordInv'
<1> DEFINE joined == [u \in Users |-> IF u \in session.known THEN session.vector[u] ELSE Zero]
           node == [name |-> "initial", session |-> session]
<1>1. /\ RecordType /\ Stages /\ session \in Sessions /\ states = <<>>
      /\ replay.at = -1 /\ ~replay.error
  BY DEF RecordInv, RecordType, Stages
<1>2. joined \in [Users -> Vectors] /\ node \in Nodes
  <2>1. session.vector \in [Users -> Vectors]
    BY <1>1 DEF Sessions
  <2>2. joined \in [Users -> Vectors]
    BY <2>1, ZeroVector
  <2> QED
    BY <1>1, <2>2 DEF Nodes
<1>3. recorder' = [state |-> "recording", last |-> joined]
  BY DEF RealStart
<1>4. file'.nodes = <<node>> /\ file'.ended = file.ended /\ states' = <<session>>
  BY <1>1 DEF RealStart, WriteNode, RecordType
<1>5. file' \in [nodes : Seq(Nodes), ended : BOOLEAN] /\ states' \in Seq(Sessions)
  <2>1. <<node>> \in Seq(Nodes) /\ <<session>> \in Seq(Sessions)
    BY <1>1, <1>2
  <2>2. file \in [nodes : Seq(Nodes), ended : BOOLEAN] /\ file' = [file EXCEPT !.nodes = Append(@, node)]
    BY <1>1 DEF RecordType, RealStart, WriteNode
  <2> QED
    BY <1>4, <2>1, <2>2
<1>6. file'.nodes[1] = node /\ node.session = session /\ states'[1] = session /\ Len(states') = 1 /\ Len(file'.nodes) = 1
  BY <1>4
<1>7. Knows(session, joined)
  BY <1>1 DEF Knows, Sessions
<1> HIDE DEF joined, node
<1>8. RecordType'
  BY <1>1, <1>2, <1>3, <1>5, <1>6 DEF RecordType
<1>9. Stages'
  BY <1>1, <1>3 DEF Stages
<1>10. PICK lasts : lasts = <<joined>>
  OBVIOUS
<1>11. lasts \in Seq([Users -> Vectors]) /\ Len(lasts) = 1 /\ lasts[1] = joined
  BY <1>2, <1>10
<1>12. Chained(lasts)'
  BY <1>6, <1>7, <1>11 DEF Chained
<1>13. Goes(lasts)' /\ Plays(lasts)'
  BY <1>1, <1>3, <1>4, <1>6, <1>11 DEF Goes, Plays, Same
<1> QED
  BY <1>8, <1>9, <1>12, <1>13 DEF RecordInv, Recorded

\* What does not change the record, the replay or what the session has executed.
LEMMA RecordKept ==
  ASSUME RecordInv, UNCHANGED <<states, replay>>, file'.nodes = file.nodes,
         file' \in [nodes : Seq(Nodes), ended : BOOLEAN],
         file'.ended = file.ended \/ ~replay.error,
         session' \in Sessions, session'.there \subseteq session'.known,
         recorder' \in [state : {"none", "waiting", "recording", "stopped"}, last : [Users -> Vectors]],
         \/ recorder'.state = "stopped"
         \/ /\ recorder'.state = "recording" /\ UNCHANGED recorder /\ Same(session', session)
         \/ recorder'.state \in {"none", "waiting"} /\ recorder.state \in {"none", "waiting"}
  PROVE  RecordInv'
<1>1. RecordType /\ Stages
  BY DEF RecordInv
<1>2. PICK lasts : Recorded(lasts)
  BY DEF RecordInv
<1>3. RecordType'
  BY <1>1 DEF RecordType
<1>4. Stages'
  BY <1>1 DEF Stages, AtEnd
<1>5. Recorded(lasts)'
  BY <1>2 DEF Recorded, Chained, Goes, Plays, Same
<1> QED
  BY <1>3, <1>4, <1>5 DEF RecordInv

\* Starting to record.
LEMMA StartRecordingStep ==
  ASSUME RecordInv, StartRecording
  PROVE  RecordInv'
<1>1. RecordType /\ Stages
  BY DEF RecordInv
<1>2. CASE status = "running"
  BY <1>2, RecordStarted DEF StartRecording
<1>3. CASE status # "running"
  <2>1. recorder' = [recorder EXCEPT !.state = "waiting"] /\ recorder.state = "none"
        /\ UNCHANGED <<file, states, session, replay>>
    BY <1>3 DEF StartRecording, Unwritten
  <2>2. recorder' \in [state : {"none", "waiting", "recording", "stopped"}, last : [Users -> Vectors]]
        /\ recorder'.state = "waiting"
    BY <1>1, <2>1 DEF RecordType
  <2> QED
    BY <1>1, <2>1, <2>2, RecordKept DEF RecordType
<1> QED
  BY <1>2, <1>3

\* Finishing the record.
LEMMA StopRecordingStep ==
  ASSUME RecordInv, StopRecording
  PROVE  RecordInv'
<1>1. RecordType /\ Stages
  BY DEF RecordInv
<1>2. [u \in Users |-> Zero] \in [Users -> Vectors]
  BY ZeroVector
<1>3. recorder' \in [state : {"none", "waiting", "recording", "stopped"}, last : [Users -> Vectors]]
      /\ recorder'.state = "stopped"
  BY <1>2 DEF StopRecording
<1>4. file' \in [nodes : Seq(Nodes), ended : BOOLEAN] /\ file'.nodes = file.nodes /\ ~replay.error
  BY <1>1 DEF RecordType, Stages, StopRecording
<1> QED
  BY <1>1, <1>3, <1>4, RecordKept DEF RecordType, StopRecording

\* The program ends.
LEMMA CrashStep ==
  ASSUME RecordInv, Crash
  PROVE  RecordInv'
<1>1. RecordType
  BY DEF RecordInv
<1>2. recorder' \in [state : {"none", "waiting", "recording", "stopped"}, last : [Users -> Vectors]]
      /\ recorder'.state = "stopped"
  BY <1>1 DEF RecordType, Crash
<1> QED
  BY <1>1, <1>2, RecordKept DEF RecordType, Crash

\* The session goes on without the recorder.
LEMMA Unrecorded ==
  ASSUME RecordInv, recorder.state # "recording", UNCHANGED <<recorder, file, states, replay>>,
         session' \in Sessions, session'.there \subseteq session'.known
  PROVE  RecordInv'
<1>1. RecordType
  BY DEF RecordInv
<1> QED
  BY <1>1, RecordKept DEF RecordType

\* A request is executed, and written as the difference to the last one of its user.
LEMMA ExecuteRequestStep ==
  ASSUME RecordInv, ExecuteRequest
  PROVE  RecordInv'
<1>1. RecordType /\ session \in Sessions /\ session.there \subseteq session.known
      /\ recorder.last \in [Users -> Vectors]
  BY DEF RecordInv, RecordType
<1>2. PICK u \in session.there, kind \in Kinds :
        \E vector \in {[session.vector[u] EXCEPT ![u] = session.current[u]], session.current} :
        /\ session' = Executed(session, u, vector, kind)
        /\ IF recorder.state = "recording"
           THEN /\ recorder' = [recorder EXCEPT !.last = SentLast(@, u, vector, kind)]
                /\ WriteNode([name |-> "request", user |-> u, kind |-> kind,
                              diff |-> ToDiff(vector, recorder.last[u])], session')
           ELSE UNCHANGED recorder /\ Unwritten
        /\ UNCHANGED replay
  BY DEF ExecuteRequest, Kinds
<1>3. PICK vector \in {[session.vector[u] EXCEPT ![u] = session.current[u]], session.current} :
        /\ session' = Executed(session, u, vector, kind)
        /\ IF recorder.state = "recording"
           THEN /\ recorder' = [recorder EXCEPT !.last = SentLast(@, u, vector, kind)]
                /\ WriteNode([name |-> "request", user |-> u, kind |-> kind,
                              diff |-> ToDiff(vector, recorder.last[u])], session')
           ELSE UNCHANGED recorder /\ Unwritten
        /\ UNCHANGED replay
  BY <1>2
<1>4. u \in Users /\ u \in session.known /\ vector \in Vectors
  <2>1. session.vector[u] \in Vectors /\ session.current \in Vectors /\ u \in Users
    BY <1>1 DEF Sessions
  <2> QED
    BY <1>1, <1>3, <2>1 DEF Vectors
<1>5. /\ session' \in Sessions /\ session'.known = session.known /\ session'.there = session.there
      /\ session'.current = (IF Affects(kind) THEN Up(session.current, u, 1) ELSE session.current)
      /\ session'.done = Append(session.done, [user |-> u, vector |-> vector, kind |-> kind])
  <2>1. session' \in Sessions /\ IsExecuted(session', session, u, vector, kind)
    BY <1>1, <1>3, <1>4, ExecutedSession
  <2> QED
    BY <2>1 DEF IsExecuted
<1>6. CASE recorder.state = "recording"
  <2> DEFINE last == recorder.last[u]
             node == [name |-> "request", user |-> u, kind |-> kind, diff |-> ToDiff(vector, last)]
             next == SentLast(recorder.last, u, vector, kind)
  <2>1. last \in Vectors /\ ToDiff(vector, last) \in Vectors /\ FromDiff(ToDiff(vector, last), last) = vector
    BY <1>1, <1>4, DiffUndone
  <2>2. node \in Nodes
    BY <1>4, <2>1 DEF Nodes
  <2>3. next \in [Users -> Vectors]
    <3>1. Up(vector, u, 1) \in Vectors
      BY <1>4 DEF Vectors, Up
    <3> QED
      BY <1>1, <1>4, <3>1 DEF SentLast
  <2>4. Extends(node, session, session', recorder.last, next)
    BY <1>4, <1>5, <2>1 DEF Extends, ExtendsRequest
  <2>5. WriteNode(node, session') /\ recorder' = [recorder EXCEPT !.last = next]
    BY <1>3, <1>6
  <2> HIDE DEF node, next
  <2> QED
    BY <1>1, <1>3, <1>5, <1>6, <2>2, <2>3, <2>4, <2>5, ElementWritten
<1>7. CASE recorder.state # "recording"
  BY <1>1, <1>3, <1>5, <1>7, Unrecorded DEF Unwritten
<1> QED
  BY <1>6, <1>7

\* A user is added, and written with its vector.
LEMMA AddUserStep ==
  ASSUME RecordInv, AddUser
  PROVE  RecordInv'
<1>1. RecordType /\ session \in Sessions /\ session.there \subseteq session.known
      /\ recorder.last \in [Users -> Vectors]
  BY DEF RecordInv, RecordType
<1>2. PICK u \in Users \ session.known, vector \in {Zero, session.current} :
        /\ session' = Known(session, u, vector)
        /\ IF recorder.state = "recording"
           THEN /\ recorder' = [recorder EXCEPT !.last = UserJoined(@, u, vector)]
                /\ WriteNode([name |-> "user", user |-> u, vector |-> vector], session')
           ELSE UNCHANGED recorder /\ Unwritten
        /\ UNCHANGED replay
  BY DEF AddUser
<1>3. vector \in Vectors
  BY <1>1, <1>2, ZeroVector DEF Sessions
<1>4. /\ session' \in Sessions /\ session'.known = session.known \cup {u}
      /\ session'.there = session.there \cup {u}
      /\ session'.current = session.current /\ session'.done = session.done
  <2>1. session' \in Sessions /\ IsKnown(session', session, u, vector)
    BY <1>1, <1>2, <1>3, KnownSession
  <2> QED
    BY <2>1 DEF IsKnown
<1>5. CASE recorder.state = "recording"
  <2> DEFINE node == [name |-> "user", user |-> u, vector |-> vector]
             next == UserJoined(recorder.last, u, vector)
  <2>1. node \in Nodes /\ next \in [Users -> Vectors]
    BY <1>1, <1>3 DEF Nodes, UserJoined
  <2>2. Extends(node, session, session', recorder.last, next)
    BY <1>3, <1>4 DEF Extends, ExtendsUser
  <2>3. WriteNode(node, session') /\ recorder' = [recorder EXCEPT !.last = next]
    BY <1>2, <1>5
  <2>4. session'.there \subseteq session'.known
    BY <1>1, <1>4
  <2> HIDE DEF node, next
  <2> QED
    BY <1>2, <1>4, <1>5, <2>1, <2>2, <2>3, <2>4, ElementWritten
<1>6. CASE recorder.state # "recording"
  BY <1>1, <1>2, <1>4, <1>6, Unrecorded DEF Unwritten
<1> QED
  BY <1>5, <1>6

\* Users come and go, which is not written.
LEMMA ChangeStatusStep ==
  ASSUME RecordInv, ChangeStatus
  PROVE  RecordInv'
<1>1. RecordType /\ session \in Sessions /\ session.there \subseteq session.known
      /\ recorder \in [state : {"none", "waiting", "recording", "stopped"}, last : [Users -> Vectors]]
      /\ file \in [nodes : Seq(Nodes), ended : BOOLEAN]
  BY DEF RecordInv, RecordType
<1>2. PICK u \in session.known :
        session' = IF u \in session.there THEN [session EXCEPT !.there = @ \ {u}]
                   ELSE Known(session, u, session.current)
  BY DEF ChangeStatus
<1>3. UNCHANGED <<recorder, file, states, replay>>
  BY DEF ChangeStatus
<1>4. session' \in Sessions /\ Same(session', session) /\ session'.there \subseteq session'.known
  <2>1. CASE u \in session.there
    BY <1>1, <1>2, <2>1 DEF Sessions, Same
  <2>2. CASE u \notin session.there
    <3>1. session' = Known(session, u, session.current) /\ u \in Users /\ session.current \in Vectors
      BY <1>1, <1>2, <2>2 DEF Sessions
    <3>2. session' \in Sessions /\ IsKnown(session', session, u, session.current)
      BY <1>1, <3>1, KnownSession
    <3> QED
      BY <1>1, <1>2, <3>2 DEF Same, IsKnown
  <2> QED
    BY <2>1, <2>2
<1>5. CASE recorder.state = "recording"
  BY <1>1, <1>3, <1>4, <1>5, RecordKept
<1>6. CASE recorder.state # "recording"
  BY <1>3, <1>4, <1>6, Unrecorded
<1> QED
  BY <1>5, <1>6

\* The session is synchronized, which a recorder may have waited for.
LEMMA SynchronizationCompleteStep ==
  ASSUME RecordInv, SynchronizationComplete
  PROVE  RecordInv'
<1>1. RecordType /\ Stages
  BY DEF RecordInv
<1>2. CASE recorder.state = "waiting"
  BY <1>1, <1>2, RecordStarted DEF SynchronizationComplete, Stages
<1>3. CASE recorder.state # "waiting"
  <2>1. UNCHANGED <<session, recorder, file, states, replay>>
    BY <1>3 DEF SynchronizationComplete, Unwritten
  <2> QED
    BY <1>1, <2>1, RecordKept DEF RecordType, Same
<1> QED
  BY <1>2, <1>3

\* The session is closed, or nothing happens.
LEMMA SessionStays ==
  ASSUME RecordInv, UNCHANGED <<session, recorder, file, states, replay>>
  PROVE  RecordInv'
<1>1. RecordType
  BY DEF RecordInv
<1> QED
  BY <1>1, RecordKept DEF RecordType, Same

------------------------------------------------------------------------------
(* Replaying *)

\* The replay goes to an element of the record at which it has what the session had.
LEMMA PlayedOn ==
  ASSUME RecordInv, recorder.state = "stopped", UNCHANGED <<session, recorder, file, states>>,
         replay' \in [session : Sessions, at : Int, error : BOOLEAN],
         replay'.at = -1 \/ replay'.at > 0,
         replay'.error => file.nodes = <<>> \/ (AtEnd(replay'.at) /\ ~file.ended),
         NEW lasts, Chained(lasts),
         replay'.at > 0 => /\ replay'.at <= Len(states) /\ Same(replay'.session, states[replay'.at])
                           /\ Knows(replay'.session, lasts[replay'.at])
  PROVE  RecordInv'
<1>1. RecordType /\ Stages
  BY DEF RecordInv
<1>2. RecordType'
  BY <1>1 DEF RecordType
<1>3. Stages'
  BY <1>1 DEF Stages, AtEnd
<1>4. Recorded(lasts)'
  BY DEF Recorded, Chained, Goes, Plays
<1> QED
  BY <1>2, <1>3, <1>4 DEF RecordInv

\* A session in which nobody has done anything.
LEMMA NewSessionTyped == NewSession \in Sessions
<1>1. [u \in Users |-> Zero] \in [Users -> Vectors] /\ Zero \in Vectors
  BY ZeroVector
<1>2. <<>> \in Seq(Requested)
  OBVIOUS
<1> QED
  BY <1>1, <1>2 DEF NewSession, Sessions

\* A record is opened.
LEMMA SetRecordStep ==
  ASSUME RecordInv, SetRecord
  PROVE  RecordInv'
<1>1. RecordType /\ Stages /\ Len(states) = Len(file.nodes) /\ states \in Seq(Sessions)
      /\ file.nodes \in Seq(Nodes)
  BY DEF RecordInv, RecordType
<1>2. PICK lasts : Recorded(lasts)
  BY DEF RecordInv
<1>3. recorder.state = "stopped" /\ replay' = PlayInitial(Playing)
      /\ UNCHANGED <<session, recorder, file, states>>
  BY DEF SetRecord
<1>4. CASE file.nodes = <<>>
  <2>1. replay' = [session |-> NewSession, at |-> -1, error |-> TRUE]
    BY <1>3, <1>4 DEF PlayInitial, NotPlaying, Playing
  <2>2. replay' \in [session : Sessions, at : Int, error : BOOLEAN]
    BY <2>1, NewSessionTyped
  <2> QED
    BY <1>2, <1>3, <1>4, <2>1, <2>2, PlayedOn DEF Recorded
<1>5. CASE file.nodes # <<>>
  <2>1. states # <<>> /\ Len(states) >= 1 /\ states[1] \in Sessions
    BY <1>1, <1>5
  <2>2. file.nodes[1].session = states[1] /\ Knows(states[1], lasts[1])
    BY <1>2, <2>1 DEF Recorded, Chained
  <2> DEFINE opened == [Playing EXCEPT !.session = Head(file.nodes).session]
  <2>3. Head(file.nodes).session = states[1]
    BY <1>1, <1>5, <2>2
  <2>4. /\ opened \in [session : Sessions, at : Int, error : BOOLEAN]
        /\ opened.session = states[1] /\ opened.at = 0
    <3>1. Playing \in [session : Sessions, at : Int, error : BOOLEAN] /\ Playing.at = 0
      BY NewSessionTyped DEF Playing
    <3> QED
      BY <2>1, <2>3, <3>1
  <2>5. replay' = Advanced(opened)
    BY <1>3, <1>5 DEF PlayInitial
  <2> HIDE DEF opened
  <2>6. replay' = [session |-> states[1], at |-> 1, error |-> AtEnd(1) /\ ~file.ended]
    <3> DEFINE at == opened.at + 1
    <3>1. replay' = [session |-> opened.session, at |-> at, error |-> AtEnd(at) /\ ~file.ended]
      BY <2>4, <2>5 DEF Advanced
    <3>2. at = 1
      BY <2>4
    <3> HIDE DEF at
    <3> QED
      BY <2>4, <3>1, <3>2
  <2>7. replay' \in [session : Sessions, at : Int, error : BOOLEAN]
    BY <2>1, <2>6
  <2>8. /\ replay'.at = 1 /\ Same(replay'.session, states[1]) /\ Knows(replay'.session, lasts[1])
        /\ replay'.error => AtEnd(1) /\ ~file.ended
    BY <2>2, <2>6 DEF Same
  <2> QED
    BY <1>1, <1>2, <1>3, <2>1, <2>7, <2>8, PlayedOn DEF Recorded
<1> QED
  BY <1>4, <1>5

\* The element after the one that is reached is played.
LEMMA PlayNextStep ==
  ASSUME RecordInv, PlayNext
  PROVE  RecordInv'
<1> DEFINE n == Len(states)
           k == replay.at
           m == file.nodes[k + 1]
           s == replay.session
<1>1. /\ RecordType /\ Stages /\ Len(file.nodes) = n /\ states \in Seq(Sessions) /\ n \in Nat
      /\ s \in Sessions /\ k \in Int /\ replay \in [session : Sessions, at : Int, error : BOOLEAN]
      /\ file.nodes \in Seq(Nodes)
  BY DEF RecordInv, RecordType
<1>2. PICK lasts : Recorded(lasts)
  BY DEF RecordInv
<1>3. k > 0 /\ ~replay.error /\ k # n /\ UNCHANGED <<session, recorder, file, states>>
  BY <1>1 DEF PlayNext, AtEnd
<1>4. recorder.state = "stopped"
  BY <1>1, <1>3 DEF Stages
<1>5. k <= n /\ Same(s, states[k]) /\ Knows(s, lasts[k]) /\ k \in 1 .. n - 1 /\ k + 1 \in 1 .. n
  BY <1>1, <1>2, <1>3 DEF Recorded, Plays
<1>6. Extends(m, states[k], states[k + 1], lasts[k], lasts[k + 1]) /\ m \in Nodes
  BY <1>1, <1>2, <1>5 DEF Recorded, Chained
<1>7. lasts[k] \in [Users -> Vectors]
  <2>1. lasts \in Seq([Users -> Vectors]) /\ k \in 1 .. Len(lasts)
    BY <1>2, <1>5 DEF Recorded, Chained
  <2> QED
    BY <2>1
<1>8. ASSUME NEW t \in Sessions, Same(t, states[k + 1]), Knows(t, lasts[k + 1]),
             replay' = Advanced([replay EXCEPT !.session = t])
      PROVE  RecordInv'
  <2>1. replay' = [session |-> t, at |-> k + 1, error |-> AtEnd(k + 1) /\ ~file.ended]
    BY <1>1, <1>8 DEF Advanced
  <2>2. replay' \in [session : Sessions, at : Int, error : BOOLEAN]
    BY <1>1, <2>1
  <2> QED
    BY <1>1, <1>2, <1>3, <1>4, <1>5, <1>8, <2>1, <2>2, PlayedOn DEF Recorded
<1>9. CASE ExtendsRequest(m, states[k], states[k + 1], lasts[k], lasts[k + 1])
  <2> DEFINE u == m.user
             v == FromDiff(m.diff, lasts[k][u])
             there == [s EXCEPT !.there = @ \cup {u}]
             t == PlayRequest(s, m)
  <2>1. /\ m.name = "request" /\ u \in s.known /\ v \in Vectors /\ m.kind \in Kinds
        /\ s.vector[u] = lasts[k][u] /\ u \in Users
    BY <1>1, <1>5, <1>9 DEF ExtendsRequest, Same, Knows, Sessions
  <2>2. replay' = Advanced([replay EXCEPT !.session = t])
    BY <1>3, <2>1 DEF PlayNext
  <2>3. /\ there \in Sessions /\ there.known = s.known /\ there.current = s.current
        /\ there.done = s.done /\ there.vector = s.vector
    BY <1>1, <2>1 DEF Sessions
  <2>4. t = Executed(there, u, v, m.kind)
    BY <2>1 DEF PlayRequest
  <2> HIDE DEF there, t, v
  <2>5. /\ t \in Sessions /\ t.known = s.known
        /\ t.vector = [s.vector EXCEPT ![u] = IF Affects(m.kind) THEN Up(v, u, 1) ELSE v]
        /\ t.current = (IF Affects(m.kind) THEN Up(s.current, u, 1) ELSE s.current)
        /\ t.done = Append(s.done, [user |-> u, vector |-> v, kind |-> m.kind])
    <3>1. t \in Sessions /\ IsExecuted(t, there, u, v, m.kind)
      BY <2>1, <2>3, <2>4, ExecutedSession
    <3> QED
      BY <2>3, <3>1 DEF IsExecuted
  <2>6. Same(t, states[k + 1])
    BY <1>5, <1>9, <2>5 DEF ExtendsRequest, Same, v
  <2>7. Knows(t, lasts[k + 1])
    <3>1. lasts[k + 1] = [lasts[k] EXCEPT ![u] = IF Affects(m.kind) THEN Up(v, u, 1) ELSE v]
      BY <1>9 DEF ExtendsRequest, SentLast, v
    <3>2. s.vector \in [Users -> Vectors] /\ s.known \subseteq Users
      BY <1>1 DEF Sessions
    <3> QED
      BY <1>5, <1>7, <2>1, <2>5, <3>1, <3>2 DEF Knows
  <2> QED
    BY <1>8, <2>2, <2>5, <2>6, <2>7
<1>10. CASE ExtendsUser(m, states[k], states[k + 1], lasts[k], lasts[k + 1])
  <2> DEFINE u == m.user
             t == PlayUser(s, m)
  <2>1. m.name = "user" /\ u \in Users /\ u \notin s.known /\ m.vector \in Vectors
    BY <1>5, <1>10 DEF ExtendsUser, Same
  <2>2. replay' = Advanced([replay EXCEPT !.session = t])
    BY <1>3, <2>1 DEF PlayNext
  <2>3. /\ t \in Sessions /\ t.known = s.known \cup {u} /\ t.vector = [s.vector EXCEPT ![u] = m.vector]
        /\ t.current = s.current /\ t.done = s.done
    <3>1. t = Known(s, u, m.vector)
      BY DEF PlayUser
    <3>2. t \in Sessions /\ IsKnown(t, s, u, m.vector)
      BY <1>1, <2>1, <3>1, KnownSession
    <3> QED
      BY <3>2 DEF IsKnown
  <2> HIDE DEF t
  <2>4. Same(t, states[k + 1])
    BY <1>5, <1>10, <2>3 DEF ExtendsUser, Same
  <2>5. Knows(t, lasts[k + 1])
    <3>1. lasts[k + 1] = [lasts[k] EXCEPT ![u] = m.vector]
      BY <1>10 DEF ExtendsUser, UserJoined
    <3>2. s.vector \in [Users -> Vectors] /\ s.known \subseteq Users
      BY <1>1 DEF Sessions
    <3> QED
      BY <1>5, <1>7, <2>1, <2>3, <3>1, <3>2 DEF Knows
  <2> QED
    BY <1>8, <2>2, <2>3, <2>4, <2>5
<1> QED
  BY <1>6, <1>9, <1>10 DEF Extends

------------------------------------------------------------------------------
(* The theorem *)

\* At the start nothing is recorded.
LEMMA RecordInitInv ==
  ASSUME RecordAssumption, RecordInit
  PROVE  RecordInv
<1> DEFINE first == CHOOSE u \in Users : TRUE
<1>1. first \in Users
  BY DEF RecordAssumption
<1>2. session \in Sessions /\ session.there \subseteq session.known
  <2>1. /\ NewSession \in Sessions /\ NewSession.known = {} /\ NewSession.there = {}
    BY NewSessionTyped DEF NewSession
  <2>2. session = Known(NewSession, first, Zero)
    BY DEF RecordInit
  <2>3. session \in Sessions /\ IsKnown(session, NewSession, first, Zero)
    BY <1>1, <2>1, <2>2, ZeroVector, KnownSession
  <2> QED
    BY <2>1, <2>3 DEF IsKnown
<1>3. replay = [session |-> NewSession, at |-> -1, error |-> FALSE]
  BY DEF RecordInit, NotPlaying, Playing
<1>4. <<>> \in Seq(Nodes) /\ <<>> \in Seq(Sessions) /\ <<>> \in Seq([Users -> Vectors])
  OBVIOUS
<1>5. [u \in Users |-> Zero] \in [Users -> Vectors]
  BY ZeroVector
<1>6. /\ recorder = [state |-> "none", last |-> [u \in Users |-> Zero]]
      /\ file = [nodes |-> <<>>, ended |-> FALSE] /\ states = <<>>
  BY DEF RecordInit
<1>7. RecordType
  BY <1>2, <1>3, <1>4, <1>5, <1>6, NewSessionTyped DEF RecordType
<1>8. Stages
  BY <1>3, <1>6 DEF Stages
<1>9. Recorded(<<>>)
  BY <1>3, <1>4, <1>6 DEF Recorded, Chained, Goes, Plays
<1> QED
  BY <1>7, <1>8, <1>9 DEF RecordInv

\* A replay of a record has after every element what the session had when the element was
\* written (inf_adopted_session_replay_play_next, inf_adopted_session_record.c), however
\* many users and requests there are.
THEOREM ReplayFollowsRecordAlways ==
  ASSUME RecordAssumption
  PROVE  RecordSpec => []ReplayFollowsRecord
<1>1. RecordInit => RecordInv
  BY RecordInitInv
<1>2. RecordInv /\ [RecordNext]_record => RecordInv'
  <2> SUFFICES ASSUME RecordInv, [RecordNext]_record
               PROVE  RecordInv'
    OBVIOUS
  <2>1. CASE StartRecording
    BY <2>1, StartRecordingStep
  <2>2. CASE StopRecording
    BY <2>2, StopRecordingStep
  <2>3. CASE Crash
    BY <2>3, CrashStep
  <2>4. CASE ExecuteRequest
    BY <2>4, ExecuteRequestStep
  <2>5. CASE AddUser
    BY <2>5, AddUserStep
  <2>6. CASE ChangeStatus
    BY <2>6, ChangeStatusStep
  <2>7. CASE SynchronizationComplete
    BY <2>7, SynchronizationCompleteStep
  <2>8. CASE CloseSession
    BY <2>8, SessionStays DEF CloseSession
  <2>9. CASE SetRecord
    BY <2>9, SetRecordStep
  <2>10. CASE PlayNext
    BY <2>10, PlayNextStep
  <2>11. CASE UNCHANGED record
    BY <2>11, SessionStays DEF record
  <2> QED
    BY <2>11, <2>4, <2>5, <2>1, <2>2, <2>3, <2>6, <2>7, <2>8, <2>9, <2>10 DEF RecordNext
<1>3. RecordInv => ReplayFollowsRecord
  BY DEF RecordInv, Recorded, Plays, Same, Stages, ReplayFollowsRecord
<1> QED
  BY <1>1, <1>2, <1>3, PTL DEF RecordSpec
==============================================================================
