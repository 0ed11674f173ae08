-------------------------- MODULE RequestLogProofs --------------------------
(***************************************************************************)
(* For every bound on the request numbers, the log's chains are well       *)
(* formed and nest, its two cached pointers are at any time what a walk    *)
(* over the log would find, and the log implements a linear undo history.  *)
(***************************************************************************)
EXTENDS RequestLog, WellFoundedInduction, TLAPS

\* A set of naturals that is not empty has a least element.
LEMMA Least ==
  ASSUME NEW S, S \subseteq Nat, S # {}
  PROVE  \E x \in S : \A y \in S : x <= y
<1>1. \E x \in S : \A y \in S : ~(<<y, x>> \in OpToRel(<, Nat))
  BY NatLessThanWellFounded, WFMin
<1>2. PICK x \in S : \A y \in S : ~(<<y, x>> \in OpToRel(<, Nat))
  BY <1>1
<1>3. ASSUME NEW y \in S PROVE x <= y
  <2>1. x \in Nat /\ y \in Nat
    BY <1>3
  <2>2. ~(y < x)
    BY <1>2, <1>3, <2>1 DEF OpToRel
  <2> QED BY <2>1, <2>2
<1> QED BY <1>2, <1>3

------------------------------------------------------------------------------
(* The inductive invariant, on a log value. *)

\* Every field has its type.
LogType(l) ==
  /\ l.begin \in Nat /\ l.end \in Nat /\ l.begin <= l.end
  /\ l.request \in [Numbers(l) -> Requests]
  /\ l.original \in [Numbers(l) -> Numbers(l)]
  /\ l.prev \in [Numbers(l) -> Pointers(l)]
  /\ l.next \in [Numbers(l) -> Pointers(l)]
  /\ l.next_undo \in Pointers(l) /\ l.next_redo \in Pointers(l)

\* Entry n lies under no link of an entry of this type.
Uncovered(l, n, type) ==
  \A m \in Numbers(l) : TypeOf(l, m) = type => ~(l.prev[m] <= n /\ n < m)

\* The cached pointers name ends of chains that no later link encloses.
CachesOK(l) ==
  /\ l.next_undo # None => /\ TypeOf(l, l.next_undo) \in InEffect
                           /\ Uncovered(l, l.next_undo, "UNDO")
  /\ l.next_redo # None => /\ TypeOf(l, l.next_redo) = "UNDO"
                           /\ Uncovered(l, l.next_redo, "REDO")

GoodLog(l) == LogType(l) /\ ChainsOK(l) /\ NoCrossing(l) /\ CachesOK(l)

IInv == log.end <= MaxEnd /\ GoodLog(log)

\* The empty log is well formed.
LEMMA EmptyGood ==
  ASSUME NEW n \in Nat PROVE GoodLog(EmptyLog(n))
<1>1. Numbers(EmptyLog(n)) = {}
  BY DEF Numbers, EmptyLog
<1> QED
  BY <1>1 DEF EmptyLog, GoodLog, LogType, ChainsOK, NoCrossing, CachesOK,
              Numbers, Pointers, None

------------------------------------------------------------------------------
(* Appending an entry. *)

\* The entries of a log to which request n was linked.
LEMMA LinkedFields ==
  ASSUME NEW l, LogType(l), NEW r \in Requests, NEW n \in Nat, CanAdd(l, n),
         NEW p \in Pointers(l), NEW k, k = Linked(l, r, n, p)
  PROVE  /\ Numbers(k) = Numbers(l) \cup {n}
         /\ \A m \in Numbers(l) : m \in Nat /\ m < n
         /\ k.begin \in Nat /\ k.end = n + 1 /\ k.begin <= n
         /\ \A m \in Numbers(l) :
              /\ k.request[m] = l.request[m] /\ k.original[m] = l.original[m]
              /\ k.prev[m] = l.prev[m]
              /\ k.next[m] = IF m = p THEN n ELSE l.next[m]
         /\ k.request[n] = r /\ k.prev[n] = p /\ k.next[n] = None
         /\ k.original[n] = IF p = None THEN n ELSE l.original[p]
         /\ k.next_undo = l.next_undo /\ k.next_redo = l.next_redo
<1> DEFINE first == IF IsEmpty(l) THEN n ELSE l.begin
<1>1. /\ first \in Nat /\ first <= n
      /\ first .. n = Numbers(l) \cup {n}
      /\ \A m \in Numbers(l) : m \in Nat /\ m < n
  BY DEF LogType, CanAdd, IsEmpty, Numbers
<1>2. k.begin = first /\ k.end = n + 1 /\ Numbers(k) = first .. n
  BY <1>1 DEF Linked, Numbers
<1> HIDE DEF first
<1>3. /\ k.request = [m \in first .. n |-> IF m = n THEN r ELSE l.request[m]]
      /\ k.original = [m \in first .. n |->
            IF m < n THEN l.original[m]
            ELSE IF p = None THEN n ELSE l.original[p]]
      /\ k.prev = [m \in first .. n |-> IF m = n THEN p ELSE l.prev[m]]
      /\ k.next = [m \in first .. n |-> IF m = n THEN None
                                       ELSE IF m = p THEN n ELSE l.next[m]]
      /\ k.next_undo = l.next_undo /\ k.next_redo = l.next_redo
  BY DEF Linked, first
<1> QED BY <1>1, <1>2, <1>3, SMT

\* Linking keeps the types of the entries.
LEMMA LinkedType ==
  ASSUME NEW l, LogType(l), NEW r \in Requests, NEW n \in Nat, CanAdd(l, n),
         NEW p \in Pointers(l), NEW k, k = Linked(l, r, n, p)
  PROVE  LogType(k)
<1> DEFINE N == Numbers(k)
<1>1. /\ N = Numbers(l) \cup {n} /\ k.begin \in Nat /\ k.end = n + 1
      /\ k.begin <= n /\ k.next_undo = l.next_undo /\ k.next_redo = l.next_redo
      /\ \A m \in Numbers(l) : m \in Nat /\ m < n
  BY LinkedFields
<1>2. /\ k.request = [m \in N |-> IF m = n THEN r ELSE l.request[m]]
      /\ k.original = [m \in N |->
            IF m < n THEN l.original[m]
            ELSE IF p = None THEN n ELSE l.original[p]]
      /\ k.prev = [m \in N |-> IF m = n THEN p ELSE l.prev[m]]
      /\ k.next = [m \in N |-> IF m = n THEN None
                               ELSE IF m = p THEN n ELSE l.next[m]]
  BY DEF Linked, Numbers
<1> HIDE DEF N
<1>3. /\ \A m \in Numbers(l) :
            l.prev[m] \in Numbers(l) \cup {None} /\ l.next[m] \in Numbers(l) \cup {None}
      /\ \A m \in Numbers(l) : l.original[m] \in Numbers(l)
      /\ \A m \in Numbers(l) : l.request[m] \in Requests
      /\ p \in Numbers(l) \cup {None}
  BY DEF LogType, Pointers
<1>4. k.request \in [N -> Requests]
  BY <1>1, <1>2, <1>3
<1>5. k.original \in [N -> N]
  BY <1>1, <1>2, <1>3
<1>6. k.prev \in [N -> N \cup {None}] /\ k.next \in [N -> N \cup {None}]
  BY <1>1, <1>2, <1>3
<1>7. k.next_undo \in N \cup {None} /\ k.next_redo \in N \cup {None}
  BY <1>1 DEF LogType, Pointers
<1> QED BY <1>1, <1>4, <1>5, <1>6, <1>7 DEF LogType, Pointers, N

\* A request that continues the chain of p, or starts one, keeps the chains.
LEMMA LinkedChains ==
  ASSUME NEW l, LogType(l), ChainsOK(l), NoCrossing(l),
         NEW r \in Requests, NEW n \in Nat, CanAdd(l, n),
         NEW p \in Pointers(l), NEW k, k = Linked(l, r, n, p),
         p = None <=> r.type = "DO",
         p # None => /\ r.type = "UNDO" <=> TypeOf(l, p) \in InEffect
                     /\ Uncovered(l, p, r.type)
  PROVE  ChainsOK(k) /\ NoCrossing(k)
<1> DEFINE old == Numbers(l)
<1>1. /\ Numbers(k) = old \cup {n}
      /\ \A m \in old : m \in Nat /\ m < n
      /\ \A m \in old : /\ TypeOf(k, m) = TypeOf(l, m)
                        /\ k.original[m] = l.original[m]
                        /\ k.prev[m] = l.prev[m]
                        /\ k.next[m] = IF m = p THEN n ELSE l.next[m]
      /\ TypeOf(k, n) = r.type /\ k.prev[n] = p /\ k.next[n] = None
      /\ k.original[n] = IF p = None THEN n ELSE l.original[p]
  BY LinkedFields DEF TypeOf
<1>2. p \in old \cup {None} /\ None \notin Nat
  BY DEF Pointers, None
<1>3. \A m \in old : /\ l.prev[m] \in old \cup {None}
                     /\ l.next[m] \in old \cup {None}
                     /\ l.original[m] \in old
  BY DEF LogType, Pointers
<1>4. \A m \in old : TypeOf(l, m) \in RequestTypes
  BY DEF LogType, TypeOf, Requests
<1>5. r.type \in RequestTypes
  BY DEF Requests
<1>6. p # None => l.next[p] = None
  <2> SUFFICES ASSUME p # None, l.next[p] # None PROVE FALSE
    OBVIOUS
  <2> DEFINE m == l.next[p]
  <2>1. m \in old /\ p < m /\ l.prev[m] = p
    BY <1>1, <1>2, <1>3 DEF ChainsOK
  <2>2. TypeOf(l, m) = "UNDO" <=> TypeOf(l, p) \in InEffect
    BY <1>1, <1>2, <2>1 DEF ChainsOK
  <2>3. TypeOf(l, m) # "DO"
    BY <1>1, <1>2, <2>1 DEF ChainsOK
  <2>4. TypeOf(l, m) = r.type
    BY <2>2, <2>3, <1>4, <1>5, <2>1 DEF RequestTypes
  <2> QED BY <2>1, <2>4, <1>1, <1>2 DEF Uncovered
<1> HIDE DEF old
<1>7. ChainsOK(k)
  <2>1. ASSUME NEW m \in old
        PROVE  /\ k.prev[m] # None =>
                    /\ k.prev[m] < m /\ k.next[k.prev[m]] = m
                    /\ k.original[m] = k.original[k.prev[m]]
                    /\ TypeOf(k, m) = "UNDO" <=> TypeOf(k, k.prev[m]) \in InEffect
               /\ k.next[m] # None => m < k.next[m] /\ k.prev[k.next[m]] = m
               /\ k.prev[m] = None <=> TypeOf(k, m) = "DO"
               /\ k.prev[m] = None <=> k.original[m] = m
    BY <1>1, <1>2, <1>3, <1>6 DEF ChainsOK, old
  <2>2. /\ k.prev[n] # None =>
             /\ k.prev[n] < n /\ k.next[k.prev[n]] = n
             /\ k.original[n] = k.original[k.prev[n]]
             /\ TypeOf(k, n) = "UNDO" <=> TypeOf(k, k.prev[n]) \in InEffect
        /\ k.prev[n] = None <=> TypeOf(k, n) = "DO"
        /\ k.prev[n] = None <=> k.original[n] = n
    BY <1>1, <1>2, <1>3
  <2> QED BY <1>1, <2>1, <2>2 DEF ChainsOK
<1>8. NoCrossing(k)
  <2> SUFFICES ASSUME NEW a \in Numbers(k), NEW b \in Numbers(k), Crossing(k, a, b)
               PROVE  FALSE
    BY DEF NoCrossing
  <2>1. a \in old
    BY <1>1 DEF Crossing
  <2>2. CASE b \in old
    BY <2>1, <2>2, <1>1 DEF Crossing, NoCrossing, old
  <2>3. CASE b = n
    <3>1. k.prev[n] = p /\ p # None
      BY <1>1, <1>2, <1>4, <1>5, <2>3 DEF Crossing
    <3>2. l.prev[a] <= p /\ p < a /\ TypeOf(l, a) = r.type
      BY <1>1, <1>2, <1>3, <2>1, <2>3, <3>1 DEF Crossing, None
    <3> QED BY <2>1, <3>1, <3>2 DEF Uncovered, old
  <2> QED BY <1>1, <2>2, <2>3
<1> QED BY <1>7, <1>8

------------------------------------------------------------------------------
(* The walk of find_associated. *)

\* Whatever the walk looks at lies under no link of the kind it leaps over.
LEMMA VisitedUncovered ==
  ASSUME NEW k, LogType(k), ChainsOK(k), NoCrossing(k), k.begin < k.end,
         NEW type \in {"UNDO", "REDO"}
  PROVE  \A n \in Visited(k, type) : Uncovered(k, n, type)
<1> DEFINE C == {n \in Numbers(k) : Uncovered(k, n, type)}
<1>1. \A n \in Numbers(k) : n \in Nat /\ k.begin <= n /\ n < k.end
  BY DEF Numbers, LogType
<1>2. k.end - 1 \in C
  BY <1>1 DEF Uncovered, Numbers, LogType
<1>3. ASSUME NEW n \in C, Leaps(k, type, n), k.prev[n] - 1 >= k.begin
      PROVE  k.prev[n] - 1 \in C
  <2> DEFINE q == k.prev[n]
  <2>1. q \in Numbers(k) /\ q < n /\ TypeOf(k, n) = type
    BY <1>1, <1>3 DEF LogType, Pointers, None, Leaps, ChainsOK
  <2>2. q - 1 \in Numbers(k) /\ q \in Nat
    BY <2>1, <1>1, <1>3 DEF Numbers, LogType
  <2>3. TypeOf(k, q) # type
    <3>1. type = "UNDO" <=> TypeOf(k, q) \in InEffect
      BY <2>1, <1>1 DEF ChainsOK, None
    <3> QED BY <3>1 DEF InEffect
  <2>4. ASSUME NEW m \in Numbers(k), TypeOf(k, m) = type,
               k.prev[m] <= q - 1, q - 1 < m
        PROVE  FALSE
    <3>1. k.prev[m] \in Int /\ m \in Nat /\ m # q
      BY <1>1, <2>3, <2>4 DEF LogType, Pointers, None
    <3>2. k.prev[m] < q /\ q < m
      BY <2>2, <2>4, <3>1
    <3>3. CASE m < n
      BY <3>2, <3>3, <2>1, <2>4 DEF NoCrossing, Crossing
    <3>4. CASE m = n
      BY <3>2, <3>4, <2>2
    <3>5. CASE n < m
      <4>1. n \in Numbers(k) /\ Uncovered(k, n, type)
        BY <1>3
      <4>2. k.prev[m] <= n
        <5>1. k.prev[m] \in Int /\ q \in Nat /\ n \in Nat
          BY <3>1, <2>2, <4>1, <1>1
        <5>2. k.prev[m] < q /\ q < n
          BY <3>2, <2>1
        <5> HIDE DEF q
        <5> QED BY <5>1, <5>2
      <4> QED BY <4>1, <4>2, <3>5, <2>4 DEF Uncovered
    <3> QED BY <3>1, <3>3, <3>4, <3>5, <1>1
  <2> QED BY <2>2, <2>4 DEF Uncovered
<1>4. ClosedUnderLeap(k, type, C)
  BY <1>3 DEF ClosedUnderLeap
<1>5. Visited(k, type) \subseteq C
  BY <1>2, <1>4 DEF Visited
<1> QED BY <1>5

\* What find_associated returns is NULL or an entry that may be undone (or
\* redone): in effect (or undone), and under no link.
LEMMA FindAssociatedGood ==
  ASSUME NEW k, LogType(k), ChainsOK(k), NoCrossing(k), k.begin < k.end,
         NEW type \in {"UNDO", "REDO"}
  PROVE  LET f == FindAssociated(k, type)
         IN  f # None => /\ f \in Numbers(k)
                         /\ TypeOf(k, f) \in StopsAt(k, type)
                         /\ Uncovered(k, f, type)
<1> DEFINE hits == {n \in Visited(k, type) : TypeOf(k, n) \in StopsAt(k, type)}
<1>1. hits # {} => FindAssociated(k, type) \in hits
  BY DEF FindAssociated
<1>2. hits = {} => FindAssociated(k, type) = None
  BY DEF FindAssociated
<1>3. hits \subseteq Numbers(k)
  BY DEF Visited
<1> QED BY <1>1, <1>2, <1>3, VisitedUncovered

------------------------------------------------------------------------------
(* Each operation keeps a log good. *)

\* Setting the cached pointers to ends of uncovered chains.
LEMMA CachesMoved ==
  ASSUME NEW k, LogType(k), ChainsOK(k), NoCrossing(k),
         NEW u \in Pointers(k), NEW v \in Pointers(k),
         u # None => TypeOf(k, u) \in InEffect /\ Uncovered(k, u, "UNDO"),
         v # None => TypeOf(k, v) = "UNDO" /\ Uncovered(k, v, "REDO"),
         NEW d,
         d.begin = k.begin, d.end = k.end, d.request = k.request,
         d.original = k.original, d.prev = k.prev, d.next = k.next,
         d.next_undo = u, d.next_redo = v
  PROVE  GoodLog(d)
<1>1. /\ Numbers(d) = Numbers(k) /\ Pointers(d) = Pointers(k)
      /\ \A m : TypeOf(d, m) = TypeOf(k, m)
  BY DEF Numbers, Pointers, TypeOf
<1>2. LogType(d)
  BY <1>1 DEF LogType
<1>3. ChainsOK(d) /\ NoCrossing(d)
  BY <1>1 DEF ChainsOK, NoCrossing, Crossing
<1>4. CachesOK(d)
  BY <1>1 DEF CachesOK, Uncovered
<1> QED BY <1>2, <1>3, <1>4 DEF GoodLog

\* The newest entry lies under no link.
LEMMA NewestUncovered ==
  ASSUME NEW k, LogType(k), NEW n \in Numbers(k), k.end = n + 1, NEW type
  PROVE  Uncovered(k, n, type)
BY DEF Uncovered, Numbers, LogType

\* A new change may be undone, and nothing can be redone after it.
LEMMA AddDoGood ==
  ASSUME NEW l, GoodLog(l), NEW r \in Requests, r.type = "DO", NEW n \in Nat,
         CanAdd(l, n)
  PROVE  GoodLog(AddDo(l, r, n)) /\ AddDo(l, r, n).end = n + 1
<1> DEFINE k == Linked(l, r, n, None)
           d == AddDo(l, r, n)
<1>1. LogType(l) /\ ChainsOK(l) /\ NoCrossing(l) /\ None \in Pointers(l)
  BY DEF GoodLog, Pointers
<1>2. LogType(k) /\ ChainsOK(k) /\ NoCrossing(k)
  BY <1>1, LinkedType, LinkedChains
<1>3. n \in Numbers(k) /\ k.end = n + 1 /\ TypeOf(k, n) = "DO"
  BY <1>1, LinkedFields DEF TypeOf
<1>4. /\ d.begin = k.begin /\ d.end = k.end /\ d.request = k.request
      /\ d.original = k.original /\ d.prev = k.prev /\ d.next = k.next
      /\ d.next_undo = n /\ d.next_redo = None
  BY DEF AddDo, Linked
<1>5. n \in Pointers(k) /\ None \in Pointers(k) /\ "DO" \in InEffect
  BY <1>3 DEF Pointers, InEffect
<1> HIDE DEF k, d
<1>6. GoodLog(d)
  BY <1>2, <1>3, <1>4, <1>5, NewestUncovered, CachesMoved
<1> QED BY <1>3, <1>4, <1>6 DEF d

\* After an undo, what it undid can be redone first.
LEMMA AddUndoGood ==
  ASSUME NEW l, GoodLog(l), NEW r \in Requests, r.type = "UNDO", NEW n \in Nat,
         CanAdd(l, n), l.next_undo # None
  PROVE  GoodLog(AddUndo(l, r, n)) /\ AddUndo(l, r, n).end = n + 1
<1> DEFINE k == Linked(l, r, n, l.next_undo)
           d == AddUndo(l, r, n)
           f == FindAssociated(k, "UNDO")
<1>1. LogType(l) /\ ChainsOK(l) /\ NoCrossing(l) /\ l.next_undo \in Pointers(l)
  BY DEF GoodLog, LogType
<1>2. LogType(k) /\ ChainsOK(k) /\ NoCrossing(k)
  BY <1>1, LinkedType, LinkedChains DEF GoodLog, CachesOK
<1>3. n \in Numbers(k) /\ k.end = n + 1 /\ TypeOf(k, n) = "UNDO" /\ k.begin < k.end
  BY <1>1, LinkedFields DEF TypeOf, Numbers
<1>4. /\ d.begin = k.begin /\ d.end = k.end /\ d.request = k.request
      /\ d.original = k.original /\ d.prev = k.prev /\ d.next = k.next
      /\ d.next_undo = f /\ d.next_redo = n
  BY DEF AddUndo, Linked
<1> HIDE DEF k
<1>5. /\ f # None => f \in Numbers(k) /\ TypeOf(k, f) \in InEffect
                     /\ Uncovered(k, f, "UNDO")
      /\ f \in Pointers(k) /\ n \in Pointers(k)
  BY <1>2, <1>3, FindAssociatedGood DEF StopsAt, InEffect, Pointers
<1> HIDE DEF d, f
<1>6. GoodLog(d)
  BY <1>2, <1>3, <1>4, <1>5, NewestUncovered, CachesMoved
<1> QED BY <1>3, <1>4, <1>6 DEF d

\* After a redo, what it brought back can be undone first.
LEMMA AddRedoGood ==
  ASSUME NEW l, GoodLog(l), NEW r \in Requests, r.type = "REDO", NEW n \in Nat,
         CanAdd(l, n), l.next_redo # None
  PROVE  GoodLog(AddRedo(l, r, n)) /\ AddRedo(l, r, n).end = n + 1
<1> DEFINE k == Linked(l, r, n, l.next_redo)
           d == AddRedo(l, r, n)
           f == FindAssociated(k, "REDO")
<1>1. LogType(l) /\ ChainsOK(l) /\ NoCrossing(l) /\ l.next_redo \in Pointers(l)
  BY DEF GoodLog, LogType
<1>2. /\ TypeOf(l, l.next_redo) \notin InEffect
      /\ Uncovered(l, l.next_redo, "REDO")
  BY DEF GoodLog, CachesOK, InEffect
<1>3. LogType(k) /\ ChainsOK(k) /\ NoCrossing(k)
  BY <1>1, <1>2, LinkedType, LinkedChains
<1>4. n \in Numbers(k) /\ k.end = n + 1 /\ TypeOf(k, n) = "REDO" /\ k.begin < k.end
  BY <1>1, LinkedFields DEF TypeOf, Numbers
<1>5. /\ d.begin = k.begin /\ d.end = k.end /\ d.request = k.request
      /\ d.original = k.original /\ d.prev = k.prev /\ d.next = k.next
      /\ d.next_undo = n /\ d.next_redo = f
  BY DEF AddRedo, Linked
<1> HIDE DEF k
<1>6. /\ f # None => f \in Numbers(k) /\ TypeOf(k, f) = "UNDO"
                     /\ Uncovered(k, f, "REDO")
      /\ f \in Pointers(k) /\ n \in Pointers(k) /\ "REDO" \in InEffect
  BY <1>3, <1>4, FindAssociatedGood DEF StopsAt, InEffect, Pointers
<1> HIDE DEF d, f
<1>7. GoodLog(d)
  BY <1>3, <1>4, <1>5, <1>6, NewestUncovered, CachesMoved
<1> QED BY <1>4, <1>5, <1>7 DEF d

\* Cutting a log between chains removes whole chains: the entries that stay
\* have their neighbours, and their original request, among those that stay.
LEMMA RemoveGood ==
  ASSUME NEW l, GoodLog(l), NEW up_to, CanRemove(l, up_to)
  PROVE  GoodLog(RemoveRequests(l, up_to)) /\ RemoveRequests(l, up_to).end = l.end
<1> DEFINE d == RemoveRequests(l, up_to)
           N == up_to .. (l.end - 1)
<1>1. /\ up_to \in Nat /\ l.begin <= up_to /\ up_to <= l.end
      /\ l.begin \in Nat /\ l.end \in Nat
      /\ \A m \in l.begin .. (up_to - 1) : ~(l.next[m] >= up_to)
  BY DEF CanRemove, IsRelated, GoodLog, LogType
<1>2. LogType(l) /\ ChainsOK(l) /\ NoCrossing(l) /\ CachesOK(l)
  BY DEF GoodLog
<1>3. /\ N \subseteq Numbers(l) /\ N \subseteq Nat
      /\ \A m \in Numbers(l) : m \notin N => m \in l.begin .. (up_to - 1) /\ m < up_to
      /\ \A m \in N : up_to <= m /\ m < l.end
  BY <1>1 DEF Numbers
<1>4. \A m \in Numbers(l) : /\ l.prev[m] \in Numbers(l) \cup {None}
                            /\ l.next[m] \in Numbers(l) \cup {None}
                            /\ l.original[m] \in Numbers(l)
                            /\ l.request[m] \in Requests
  BY <1>2 DEF LogType, Pointers
<1>5. /\ d.begin = up_to /\ d.end = l.end /\ Numbers(d) = N
      /\ d.request = [m \in N |-> l.request[m]]
      /\ d.original = [m \in N |-> l.original[m]]
      /\ d.prev = [m \in N |-> l.prev[m]]
      /\ d.next = [m \in N |-> l.next[m]]
      /\ d.next_undo = Kept(l.next_undo, up_to)
      /\ d.next_redo = Kept(l.next_redo, up_to)
  BY DEF RemoveRequests, Numbers
<1> HIDE DEF d
<1>6. \A m \in N : l.prev[m] \in N \cup {None}
  <2> SUFFICES ASSUME NEW m \in N, l.prev[m] \notin N, l.prev[m] # None PROVE FALSE
    OBVIOUS
  <2>1. l.prev[m] \in Numbers(l) /\ l.next[l.prev[m]] = m
    BY <1>2, <1>3, <1>4 DEF ChainsOK
  <2>2. l.prev[m] \in l.begin .. (up_to - 1) /\ m >= up_to
    BY <2>1, <1>1, <1>3
  <2> QED BY <2>1, <2>2, <1>1
<1>7. \A m \in N : l.next[m] \in N \cup {None}
  <2> SUFFICES ASSUME NEW m \in N, l.next[m] # None PROVE l.next[m] \in N
    OBVIOUS
  <2>1. l.next[m] \in Numbers(l) /\ m < l.next[m]
    BY <1>2, <1>3, <1>4 DEF ChainsOK
  <2> QED BY <2>1, <1>1, <1>3 DEF Numbers
<1>8. \A m \in N : l.original[m] \in N
  <2> DEFINE Lost == {m \in N : l.original[m] \notin N}
  <2> SUFFICES ASSUME Lost # {} PROVE FALSE
    OBVIOUS
  <2>1. PICK m \in Lost : \A k \in Lost : m <= k
    BY <1>3, Least
  <2>2. l.prev[m] # None
    BY <2>1, <1>2, <1>3 DEF ChainsOK
  <2>3. l.prev[m] \in N /\ l.prev[m] < m /\ l.original[m] = l.original[l.prev[m]]
    BY <2>1, <2>2, <1>2, <1>3, <1>6 DEF ChainsOK
  <2>4. l.prev[m] \in Lost
    BY <2>1, <2>3
  <2> QED BY <2>1, <2>3, <2>4, <1>3
<1>9. /\ d.next_undo \in N \cup {None} /\ d.next_redo \in N \cup {None}
      /\ d.next_undo # None => d.next_undo = l.next_undo
      /\ d.next_redo # None => d.next_redo = l.next_redo
  BY <1>1, <1>2, <1>5 DEF LogType, Pointers, Numbers, Kept, None
<1>10. LogType(d)
  BY <1>1, <1>3, <1>4, <1>5, <1>6, <1>7, <1>8, <1>9 DEF LogType, Pointers
<1>11. \A m \in N : TypeOf(d, m) = TypeOf(l, m)
  BY <1>5 DEF TypeOf
<1> HIDE DEF N
<1>12. ChainsOK(d)
  <2> SUFFICES ASSUME NEW m \in N
      PROVE  /\ d.prev[m] # None =>
                  /\ d.prev[m] < m /\ d.next[d.prev[m]] = m
                  /\ d.original[m] = d.original[d.prev[m]]
                  /\ TypeOf(d, m) = "UNDO" <=> TypeOf(d, d.prev[m]) \in InEffect
             /\ d.next[m] # None => m < d.next[m] /\ d.prev[d.next[m]] = m
             /\ d.prev[m] = None <=> TypeOf(d, m) = "DO"
             /\ d.prev[m] = None <=> d.original[m] = m
    BY <1>5 DEF ChainsOK
  <2>1. /\ d.prev[m] = l.prev[m] /\ d.next[m] = l.next[m] /\ m \in Numbers(l)
        /\ d.original[m] = l.original[m] /\ TypeOf(d, m) = TypeOf(l, m)
    BY <1>3, <1>5, <1>11
  <2>2. d.prev[m] # None =>
           /\ d.next[d.prev[m]] = l.next[l.prev[m]]
           /\ d.original[d.prev[m]] = l.original[l.prev[m]]
           /\ TypeOf(d, d.prev[m]) = TypeOf(l, l.prev[m])
    BY <2>1, <1>5, <1>6, <1>11
  <2>3. d.next[m] # None => d.prev[d.next[m]] = l.prev[l.next[m]]
    BY <2>1, <1>5, <1>7
  <2> QED BY <2>1, <2>2, <2>3, <1>2 DEF ChainsOK
<1>13. NoCrossing(d)
  BY <1>2, <1>3, <1>5, <1>11 DEF NoCrossing, Crossing
<1>14. CachesOK(d)
  BY <1>2, <1>3, <1>5, <1>9, <1>11 DEF CachesOK, Uncovered
<1> QED BY <1>5, <1>10, <1>12, <1>13, <1>14 DEF GoodLog, d

\* Moving an empty log to another number.
LEMMA SetBeginGood ==
  ASSUME NEW l, GoodLog(l), IsEmpty(l), NEW n \in Nat
  PROVE  GoodLog(SetBegin(l, n)) /\ SetBegin(l, n).end = n
<1> DEFINE d == SetBegin(l, n)
<1>1. /\ d.begin = n /\ d.end = n /\ d.request = l.request
      /\ d.original = l.original /\ d.prev = l.prev /\ d.next = l.next
      /\ d.next_undo = l.next_undo /\ d.next_redo = l.next_redo
  BY DEF SetBegin
<1>2. Numbers(l) = {} /\ Numbers(d) = {}
  BY <1>1 DEF Numbers, IsEmpty, GoodLog, LogType
<1> HIDE DEF d
<1>3. LogType(d)
  BY <1>1, <1>2 DEF GoodLog, LogType, Pointers
<1>4. ChainsOK(d) /\ NoCrossing(d)
  BY <1>2 DEF ChainsOK, NoCrossing
<1>5. CachesOK(d)
  BY <1>1, <1>2 DEF GoodLog, LogType, Pointers, CachesOK
<1> QED BY <1>1, <1>3, <1>4, <1>5 DEF GoodLog, d

------------------------------------------------------------------------------
(* The invariant of the specification. *)

\* IInv holds initially, every operation of the log keeps it, and so it holds
\* throughout.
THEOREM Invariance == Spec => []IInv
<1> USE MaxEndAssumption
<1>1. Init => IInv
  <2>1. GoodLog(EmptyLog(0)) /\ EmptyLog(0).end = 0
    BY EmptyGood DEF EmptyLog
  <2> QED BY <2>1 DEF Init, IInv
<1>2. IInv /\ [Next]_log => IInv'
  <2> SUFFICES ASSUME IInv, [Next]_log PROVE IInv'
    OBVIOUS
  <2>1. GoodLog(log) /\ log.end <= MaxEnd /\ log.end \in Nat
    BY DEF IInv, GoodLog, LogType
  <2>2. ASSUME NEW type \in RequestTypes, NEW n \in 0 .. (MaxEnd - 1),
               log' = AddRequest(log, [type |-> type], n), CanAdd(log, n),
               type = "UNDO" => log.next_undo # None,
               type = "REDO" => log.next_redo # None
        PROVE  IInv'
    <3> DEFINE r == [type |-> type]
    <3>1. r \in Requests /\ r.type = type /\ n \in Nat /\ n + 1 <= MaxEnd
      BY DEF Requests
    <3>2. CASE type = "DO"
      BY <2>1, <2>2, <3>1, <3>2, AddDoGood DEF IInv, AddRequest
    <3>3. CASE type = "UNDO"
      BY <2>1, <2>2, <3>1, <3>3, AddUndoGood DEF IInv, AddRequest
    <3>4. CASE type = "REDO"
      BY <2>1, <2>2, <3>1, <3>4, AddRedoGood DEF IInv, AddRequest
    <3> QED BY <3>2, <3>3, <3>4 DEF RequestTypes
  <2>3. CASE AddDoRequest
    BY <2>2, <2>3 DEF AddDoRequest, Add, RequestTypes
  <2>4. CASE AddUndoRequest
    BY <2>2, <2>4 DEF AddUndoRequest, Add, RequestTypes
  <2>5. CASE AddRedoRequest
    BY <2>2, <2>5 DEF AddRedoRequest, Add, RequestTypes
  <2>6. CASE Remove
    BY <2>1, <2>6, RemoveGood DEF Remove, IInv
  <2>7. CASE Restart
    BY <2>1, <2>7, SetBeginGood DEF Restart, IInv
  <2>8. CASE UNCHANGED log
    BY <2>8 DEF IInv
  <2> QED BY <2>3, <2>4, <2>5, <2>6, <2>7, <2>8 DEF Next
<1> QED BY <1>1, <1>2, PTL DEF Spec

\* Whatever is added to a log and removed from it, its fields keep their types:
\* no pointer ever names an entry that was removed.
THEOREM TypeCorrect == Spec => []TypeOK
<1>1. IInv => TypeOK
  BY MaxEndAssumption DEF IInv, GoodLog, LogType, TypeOK
<1> QED BY <1>1, Invariance, PTL

\* At any time every do/undo/redo chain of the log is intact, also after its
\* oldest requests were forgotten, and what was undone last is redone first.
THEOREM ChainsNestAlways == Spec => []ChainsNest
<1>1. IInv => ChainsNest
  BY DEF IInv, GoodLog, ChainsNest
<1> QED BY <1>1, Invariance, PTL

------------------------------------------------------------------------------
(* What the walk of find_associated finds. *)

\* The entries that a walk from entry n backwards may stop at: not of the
\* type it leaps over, and under no link of that type.
FreeUpTo(l, type, n) ==
  {m \in l.begin .. n :
     /\ TypeOf(l, m) # type
     /\ \A j \in l.begin .. n : TypeOf(l, j) = type => ~(l.prev[j] <= m /\ m < j)}

Found(l, type, t) == IF TypeOf(l, t) \in StopsAt(l, type) THEN t ELSE None

IsGreatest(t, S) == t \in S /\ \A m \in S : m <= t

\* r is what the walk from entry n returns.
WalkFinds(l, type, n, r) ==
  \/ FreeUpTo(l, type, n) = {} /\ r = None
  \/ \E t \in FreeUpTo(l, type, n) :
       IsGreatest(t, FreeUpTo(l, type, n)) /\ r = Found(l, type, t)

\* The cached pointers are what the walks from the newest entry return.
PointersExact(l) == /\ WalkFinds(l, "UNDO", l.end - 1, l.next_undo)
                    /\ WalkFinds(l, "REDO", l.end - 1, l.next_redo)

\* A set of naturals below some bound that is not empty has a greatest element.
LEMMA Greatest ==
  ASSUME NEW S, S \subseteq Nat, S # {}, NEW b \in Nat, \A x \in S : x <= b
  PROVE  \E t \in S : IsGreatest(t, S)
<1> DEFINE D == {b - x : x \in S}
<1>1. D \subseteq Nat /\ D # {}
  <2>1. \A x \in S : x \in Nat /\ x <= b /\ b - x \in Nat
    OBVIOUS
  <2> QED BY <2>1
<1>2. PICK d \in D : \A e \in D : d <= e
  BY <1>1, Least
<1>3. PICK t \in S : d = b - t
  BY <1>2
<1>4. ASSUME NEW x \in S PROVE x <= t
  <2>1. b - x \in D /\ x \in Nat /\ t \in Nat
    BY <1>4
  <2> QED BY <2>1, <1>2, <1>3
<1> QED BY <1>3, <1>4 DEF IsGreatest

\* A walk finds one thing.
LEMMA WalkFindsOne ==
  ASSUME NEW l, LogType(l), NEW type, NEW n, NEW r, NEW s,
         WalkFinds(l, type, n, r), WalkFinds(l, type, n, s), n \in Int
  PROVE  r = s
<1>1. FreeUpTo(l, type, n) \subseteq Int
  BY DEF FreeUpTo, LogType
<1>2. CASE FreeUpTo(l, type, n) = {}
  BY <1>2 DEF WalkFinds
<1>3. CASE FreeUpTo(l, type, n) # {}
  <2>1. PICK t \in FreeUpTo(l, type, n) :
          IsGreatest(t, FreeUpTo(l, type, n)) /\ r = Found(l, type, t)
    BY <1>3 DEF WalkFinds
  <2>2. PICK u \in FreeUpTo(l, type, n) :
          IsGreatest(u, FreeUpTo(l, type, n)) /\ s = Found(l, type, u)
    BY <1>3 DEF WalkFinds
  <2>3. t \in Int /\ u \in Int /\ t <= u /\ u <= t
    BY <1>1, <2>1, <2>2 DEF IsGreatest
  <2> QED BY <2>1, <2>2, <2>3
<1> QED BY <1>2, <1>3

\* A walk finds something.
LEMMA WalkFindsSome ==
  ASSUME NEW l, LogType(l), NEW type, NEW n \in Int
  PROVE  \E r : WalkFinds(l, type, n, r)
<1>1. FreeUpTo(l, type, n) \subseteq Nat /\ \A x \in FreeUpTo(l, type, n) : x <= n
  BY DEF FreeUpTo, LogType
<1>2. CASE FreeUpTo(l, type, n) = {}
  BY <1>2 DEF WalkFinds
<1>3. CASE FreeUpTo(l, type, n) # {}
  <2>1. n \in Nat
    BY <1>1, <1>3
  <2>2. \E t \in FreeUpTo(l, type, n) : IsGreatest(t, FreeUpTo(l, type, n))
    BY <1>1, <1>3, <2>1, Greatest
  <2> QED BY <2>2 DEF WalkFinds
<1> QED BY <1>2, <1>3

\* The walk leaps over an entry of its type, with what that one undoes.
LEMMA WalkLeaps ==
  ASSUME NEW l, LogType(l), ChainsOK(l), NoCrossing(l),
         NEW type \in {"UNDO", "REDO"}, NEW n \in Numbers(l), TypeOf(l, n) = type
  PROVE  /\ l.prev[n] - 1 \in (l.begin - 1) .. (n - 1)
         /\ FreeUpTo(l, type, n) = FreeUpTo(l, type, l.prev[n] - 1)
<1> DEFINE p == l.prev[n]
<1>1. /\ l.begin \in Nat /\ l.end \in Nat /\ n \in Nat /\ n < l.end /\ l.begin <= n
      /\ \A m \in l.begin .. n : m \in Numbers(l) /\ m \in Nat
      /\ \A m \in Numbers(l) : l.prev[m] \in Numbers(l) \cup {None}
  BY DEF LogType, Numbers, Pointers
<1>2. p # None
  BY DEF ChainsOK
<1>3. p \in Numbers(l) /\ p < n /\ p \in l.begin .. n
  BY <1>1, <1>2 DEF ChainsOK, Numbers
<1>4. TypeOf(l, p) # type
  BY <1>1, <1>2 DEF ChainsOK, InEffect
<1>5. p - 1 \in (l.begin - 1) .. (n - 1)
  BY <1>1, <1>3
<1>6. \A m \in l.begin .. (p - 1) : m \in l.begin .. n /\ m < p
  BY <1>1, <1>3
<1> HIDE DEF p
<1>7. ASSUME NEW m \in FreeUpTo(l, type, n) PROVE m \in FreeUpTo(l, type, p - 1)
  <2>1. m \in l.begin .. n /\ ~(p <= m /\ m < n) /\ m # n
    BY <1>1, <1>7 DEF FreeUpTo, p
  <2>2. m \in l.begin .. (p - 1)
    BY <2>1, <1>1, <1>3
  <2> QED BY <1>6, <1>7, <2>2 DEF FreeUpTo
<1>8. ASSUME NEW m \in FreeUpTo(l, type, p - 1) PROVE m \in FreeUpTo(l, type, n)
  <2>1. m \in l.begin .. n /\ m < p /\ m \in Nat /\ TypeOf(l, m) # type
    BY <1>1, <1>6, <1>8 DEF FreeUpTo
  <2>2. ASSUME NEW j \in l.begin .. n, TypeOf(l, j) = type, l.prev[j] <= m, m < j
        PROVE  FALSE
    <3>1. j \in Nat /\ j \in Numbers(l) /\ l.prev[j] \in Numbers(l) /\ l.prev[j] \in Nat
      BY <1>1, <2>2 DEF ChainsOK, Numbers
    <3>2. CASE j < p
      BY <1>1, <1>3, <1>8, <2>2, <3>1, <3>2 DEF FreeUpTo
    <3>3. CASE j = p
      BY <1>4, <2>2, <3>3
    <3>4. CASE j = n
      BY <1>3, <2>1, <2>2, <3>4, <1>1 DEF p
    <3>5. CASE p < j /\ j < n
      BY <1>1, <1>3, <2>1, <2>2, <3>1, <3>5 DEF NoCrossing, Crossing, p
    <3> QED BY <1>1, <1>3, <3>1, <3>2, <3>3, <3>4, <3>5
  <2> QED BY <2>1, <2>2 DEF FreeUpTo
<1> QED BY <1>5, <1>7, <1>8 DEF p

\* The walk ends before the log's first entry.
LEMMA WalkRunsOut ==
  ASSUME NEW l, LogType(l), NEW type, NEW n \in Int, n < l.begin
  PROVE  WalkFinds(l, type, n, None)
<1>1. l.begin .. n = {}
  BY DEF LogType
<1> QED BY <1>1 DEF WalkFinds, FreeUpTo

\* The walk stops at an entry that it does not leap over.
LEMMA WalkStops ==
  ASSUME NEW l, LogType(l), ChainsOK(l), NEW type, NEW n \in Numbers(l),
         TypeOf(l, n) # type
  PROVE  WalkFinds(l, type, n, Found(l, type, n))
<1>1. /\ n \in Nat /\ l.begin \in Nat /\ n \in l.begin .. n
      /\ \A m \in l.begin .. n : m <= n /\ m \in Nat
  BY DEF LogType, Numbers
<1>2. \A j \in l.begin .. n : ~(n < j)
  BY <1>1
<1>3. n \in FreeUpTo(l, type, n)
  BY <1>1, <1>2 DEF FreeUpTo
<1>4. \A m \in FreeUpTo(l, type, n) : m <= n
  BY <1>1 DEF FreeUpTo
<1> QED BY <1>3, <1>4 DEF WalkFinds, IsGreatest

\* What the loop computes, step by step, is what the walk finds.
LEMMA WalkComputes ==
  ASSUME NEW l, LogType(l), ChainsOK(l), NoCrossing(l),
         NEW type \in {"UNDO", "REDO"}
  PROVE  WalkFinds(l, type, l.end - 1, Walk(l, type))
<1> DEFINE S == (l.begin - 1) .. (l.end - 1)
           Round(f) == [n \in S |->
              IF n < l.begin THEN None
              ELSE IF TypeOf(l, n) = type THEN f[l.prev[n] - 1]
              ELSE IF TypeOf(l, n) \in StopsAt(l, type) THEN n ELSE None]
           F == [n \in S |-> CHOOSE r : WalkFinds(l, type, n, r)]
           from == CHOOSE f : f = Round(f)
<1>1. Walk(l, type) = from[l.end - 1]
  BY DEF Walk
<1>2. /\ l.begin \in Nat /\ l.end \in Nat /\ l.begin <= l.end
      /\ \A n \in S : n \in Int /\ (n >= l.begin => n \in Numbers(l) /\ n \in Nat)
      /\ l.end - 1 \in S
  BY DEF LogType, Numbers
<1>3. \A n \in S : n >= l.begin /\ TypeOf(l, n) = type =>
         /\ l.prev[n] - 1 \in S /\ l.prev[n] - 1 < n
         /\ FreeUpTo(l, type, n) = FreeUpTo(l, type, l.prev[n] - 1)
  BY <1>2, WalkLeaps
<1>4. \A n \in S : WalkFinds(l, type, n, F[n])
  BY <1>2, WalkFindsSome
<1>5. F = Round(F)
  <2>1. ASSUME NEW n \in S PROVE F[n] = Round(F)[n]
    <3>1. CASE n < l.begin
      BY <1>2, <1>4, <3>1, WalkRunsOut, WalkFindsOne
    <3>2. CASE n >= l.begin /\ TypeOf(l, n) = type
      <4>1. WalkFinds(l, type, n, F[l.prev[n] - 1])
        BY <1>3, <1>4, <3>2 DEF WalkFinds
      <4>2. F[n] = F[l.prev[n] - 1]
        BY <1>2, <1>4, <4>1, WalkFindsOne
      <4> HIDE DEF F
      <4> QED BY <1>2, <3>2, <4>2
    <3>3. CASE n >= l.begin /\ TypeOf(l, n) # type
      <4>1. WalkFinds(l, type, n, Found(l, type, n))
        BY <1>2, <3>3, WalkStops
      <4>2. F[n] = Found(l, type, n)
        BY <1>2, <1>4, <4>1, WalkFindsOne
      <4> HIDE DEF F
      <4> QED BY <1>2, <3>3, <4>2 DEF Found
    <3> QED BY <1>2, <3>1, <3>2, <3>3
  <2> QED BY <2>1
<1>6. from = Round(from)
  BY <1>5
<1> HIDE DEF F, from
<1>7. \A n \in S : WalkFinds(l, type, n, from[n])
  <2> DEFINE Wrong == {n \in S : n >= l.begin /\ ~WalkFinds(l, type, n, from[n])}
  <2>1. ASSUME NEW n \in S, n < l.begin PROVE WalkFinds(l, type, n, from[n])
    <3>1. from[n] = None
      BY <1>6, <2>1
    <3> QED BY <1>2, <2>1, <3>1, WalkRunsOut
  <2>2. ASSUME Wrong # {} PROVE FALSE
    <3>1. PICK n \in Wrong : \A m \in Wrong : n <= m
      BY <1>2, <2>2, Least
    <3>2. n \in S /\ n >= l.begin /\ n \in Numbers(l) /\ n \in Nat
          /\ ~WalkFinds(l, type, n, from[n])
      BY <1>2, <3>1
    <3>3. CASE TypeOf(l, n) = type
      <4> DEFINE q == l.prev[n] - 1
      <4>1. q \in S /\ q < n /\ q \in Int
            /\ FreeUpTo(l, type, n) = FreeUpTo(l, type, q)
        BY <1>2, <1>3, <3>2, <3>3
      <4>2. from[n] = from[q]
        <5>1. from[n] = Round(from)[n]
          BY <1>6
        <5>2. Round(from)[n] = from[l.prev[n] - 1]
          BY <1>2, <3>2, <3>3
        <5> QED BY <5>1, <5>2
      <4> HIDE DEF q
      <4>3. q \notin Wrong
        BY <3>1, <3>2, <4>1
      <4>4. WalkFinds(l, type, q, from[q])
        BY <1>2, <2>1, <4>1, <4>3
      <4> QED BY <3>2, <4>1, <4>2, <4>4 DEF WalkFinds
    <3>4. CASE TypeOf(l, n) # type
      <4>1. from[n] = Found(l, type, n)
        BY <1>2, <1>6, <3>2, <3>4 DEF Found
      <4> QED BY <3>2, <3>4, <4>1, WalkStops
    <3> QED BY <3>3, <3>4
  <2> QED BY <1>2, <2>1, <2>2
<1> QED BY <1>1, <1>2, <1>7

\* A pointer to what the walk finds is what the loop computes.
LEMMA WalkFound ==
  ASSUME NEW l, LogType(l), ChainsOK(l), NoCrossing(l),
         NEW type \in {"UNDO", "REDO"}, NEW r, WalkFinds(l, type, l.end - 1, r)
  PROVE  r = Walk(l, type)
<1>1. l.end - 1 \in Int
  BY DEF LogType
<1> QED BY <1>1, WalkComputes, WalkFindsOne

\* find_associated returns what the walk from the newest entry finds.
LEMMA FindAssociatedExact ==
  ASSUME NEW k, LogType(k), ChainsOK(k), NoCrossing(k), k.begin < k.end,
         NEW type \in {"UNDO", "REDO"}
  PROVE  WalkFinds(k, type, k.end - 1, FindAssociated(k, type))
<1> DEFINE free == FreeUpTo(k, type, k.end - 1)
           hits == {n \in Visited(k, type) : TypeOf(k, n) \in StopsAt(k, type)}
<1>1. free = {n \in Numbers(k) : TypeOf(k, n) # type /\ Uncovered(k, n, type)}
  BY DEF FreeUpTo, Uncovered, Numbers
<1>2. /\ k.begin \in Nat /\ k.end \in Nat /\ Numbers(k) \subseteq Nat
      /\ k.end - 1 \in Numbers(k) /\ \A n \in Numbers(k) : n <= k.end - 1
      /\ \A n \in Numbers(k) : n >= k.begin
      /\ \A n \in Numbers(k) : k.prev[n] \in Numbers(k) \cup {None}
  BY DEF LogType, Numbers, Pointers
<1>3. Visited(k, type) \subseteq {n \in Numbers(k) : Uncovered(k, n, type)}
  BY VisitedUncovered DEF Visited
<1>4. type \notin StopsAt(k, type)
  BY DEF StopsAt
<1>5. hits \subseteq free
  BY <1>1, <1>3, <1>4
<1>6. CASE free = {}
  <2>1. hits = {}
    BY <1>5, <1>6
  <2> QED BY <1>6, <2>1 DEF FindAssociated, WalkFinds
<1>7. CASE free # {}
  <2>1. PICK t \in free : IsGreatest(t, free)
    BY <1>1, <1>2, <1>7, Greatest
  <2>2. t \in Numbers(k) /\ t \in Nat /\ TypeOf(k, t) # type
        /\ Uncovered(k, t, type) /\ \A m \in free : m <= t
    BY <1>1, <1>2, <2>1 DEF IsGreatest
  <2> DEFINE C == {n \in Numbers(k) : n >= t}
  <2> HIDE DEF free
  <2>3. ASSUME NEW n \in C, Leaps(k, type, n)
        PROVE  k.prev[n] \in Numbers(k) /\ k.prev[n] > t /\ k.prev[n] <= n
    <3>1. n # t /\ n \in Numbers(k) /\ n \in Nat /\ t < n /\ TypeOf(k, n) = type
      BY <1>2, <2>2, <2>3 DEF Leaps
    <3>2. k.prev[n] # None /\ k.prev[n] < n
      BY <3>1 DEF ChainsOK
    <3>3. k.prev[n] \in Numbers(k) /\ k.prev[n] \in Nat
      BY <1>2, <3>1, <3>2
    <3>4. ~(k.prev[n] <= t)
      BY <2>2, <3>1 DEF Uncovered
    <3> QED BY <2>2, <3>2, <3>3, <3>4, <3>1
  <2>4. \A n \in C : Leaps(k, type, n) /\ k.prev[n] - 1 >= k.begin
           => k.prev[n] - 1 \in C
    BY <1>2, <2>2, <2>3 DEF Numbers
  <2>5. k.end - 1 \in C /\ C \in SUBSET Numbers(k)
    BY <1>2, <2>2
  <2>6. Visited(k, type) \subseteq C
    <3>1. ClosedUnderLeap(k, type, C)
      BY <2>4 DEF ClosedUnderLeap
    <3> QED BY <2>5, <3>1 DEF Visited
  <2>7. hits \subseteq {t}
    <3>1. ASSUME NEW h \in hits PROVE h = t
      <4>1. h \in free /\ h \in C /\ h \in Nat
        BY <1>2, <1>5, <2>6, <3>1
      <4> QED BY <2>2, <4>1
    <3> QED BY <3>1
  <2>8. t \in Visited(k, type)
    <3>1. /\ k.end - 1 \in Visited(k, type)
          /\ \A n \in Visited(k, type) :
               Leaps(k, type, n) /\ k.prev[n] - 1 >= k.begin =>
                 k.prev[n] - 1 \in Visited(k, type)
      <4>1. k.end - 1 \in Visited(k, type)
        BY <1>2 DEF Visited
      <4>2. ASSUME NEW n \in Visited(k, type), Leaps(k, type, n),
                   k.prev[n] - 1 >= k.begin
            PROVE  k.prev[n] - 1 \in Visited(k, type)
        <5>1. n \in C
          BY <2>6
        <5>2. k.prev[n] - 1 \in Numbers(k)
          BY <1>2, <2>4, <4>2, <5>1
        <5> QED BY <4>2, <5>2 DEF Visited, ClosedUnderLeap
      <4> QED BY <4>1, <4>2
    <3>2. PICK v \in Visited(k, type) : \A w \in Visited(k, type) : v <= w
      BY <1>2, <1>3, <3>1, Least
    <3>3. v \in C /\ v \in Numbers(k) /\ v \in Nat /\ v >= t /\ Uncovered(k, v, type)
      BY <1>2, <1>3, <2>6
    <3>4. ASSUME v # t PROVE FALSE
      <4>1. v > t
        BY <2>2, <3>3, <3>4
      <4>2. TypeOf(k, v) = type
        <5>1. TypeOf(k, v) # type => v \in free
          BY <1>1, <3>3
        <5> QED BY <2>2, <3>3, <4>1, <5>1
      <4>3. /\ k.prev[v] \in Nat /\ k.prev[v] > t /\ k.prev[v] <= v
            /\ t >= k.begin
        BY <1>2, <2>2, <2>3, <3>3, <4>2 DEF Leaps
      <4>4. k.prev[v] - 1 >= k.begin /\ k.prev[v] - 1 < v
        BY <1>2, <2>2, <3>3, <4>3
      <4>5. k.prev[v] - 1 \in Visited(k, type)
        BY <3>1, <4>2, <4>4 DEF Leaps
      <4> QED BY <3>2, <3>3, <4>3, <4>4, <4>5
    <3> QED BY <3>4
  <2>9. FindAssociated(k, type) = Found(k, type, t)
    <3>1. CASE TypeOf(k, t) \in StopsAt(k, type)
      <4>1. hits = {t}
        BY <2>7, <2>8, <3>1
      <4> QED BY <3>1, <4>1 DEF FindAssociated, Found
    <3>2. CASE TypeOf(k, t) \notin StopsAt(k, type)
      <4>1. hits = {}
        BY <2>7, <3>2
      <4> QED BY <3>2, <4>1 DEF FindAssociated, Found
    <3> QED BY <3>1, <3>2
  <2> QED BY <2>1, <2>9 DEF WalkFinds, free
<1> QED BY <1>6, <1>7

------------------------------------------------------------------------------
(* The cached pointers stay exact. *)

\* Walks that see the same entries find the same.
LEMMA SameWalk ==
  ASSUME NEW k, NEW d, d.begin = k.begin, d.end = k.end,
         d.request = k.request, d.prev = k.prev,
         WalkFinds(k, "UNDO", k.end - 1, d.next_undo),
         WalkFinds(k, "REDO", k.end - 1, d.next_redo)
  PROVE  PointersExact(d)
<1>1. /\ \A m : TypeOf(d, m) = TypeOf(k, m)
      /\ \A type : StopsAt(d, type) = StopsAt(k, type)
  BY DEF TypeOf, StopsAt
<1>2. \A type, n : FreeUpTo(d, type, n) = FreeUpTo(k, type, n)
  BY <1>1 DEF FreeUpTo
<1>3. \A type, t : Found(d, type, t) = Found(k, type, t)
  BY <1>1 DEF Found
<1> QED BY <1>2, <1>3 DEF PointersExact, WalkFinds

\* After a new change: the change, and nothing.
LEMMA AddDoExact ==
  ASSUME NEW l, GoodLog(l), NEW r \in Requests, r.type = "DO", NEW n \in Nat,
         CanAdd(l, n)
  PROVE  PointersExact(AddDo(l, r, n))
<1> DEFINE k == Linked(l, r, n, None)
           d == AddDo(l, r, n)
<1>1. LogType(l) /\ ChainsOK(l) /\ NoCrossing(l) /\ None \in Pointers(l)
  BY DEF GoodLog, Pointers
<1>2. LogType(k) /\ ChainsOK(k)
  BY <1>1, LinkedType, LinkedChains
<1>3. n \in Numbers(k) /\ k.end = n + 1 /\ TypeOf(k, n) = "DO"
  BY <1>1, LinkedFields DEF TypeOf
<1>4. /\ d.begin = k.begin /\ d.end = k.end /\ d.request = k.request
      /\ d.prev = k.prev /\ d.next_undo = n /\ d.next_redo = None
  BY DEF AddDo, Linked
<1> HIDE DEF k, d
<1>5. \A type \in {"UNDO", "REDO"} : WalkFinds(k, type, k.end - 1, Found(k, type, n))
  BY <1>2, <1>3, WalkStops
<1>6. Found(k, "UNDO", n) = n /\ Found(k, "REDO", n) = None
  BY <1>3 DEF Found, StopsAt
<1>7. PointersExact(d)
  BY <1>4, <1>5, <1>6, SameWalk
<1> QED BY <1>7 DEF d

\* After an undo: what a new walk finds, and the undo itself.
LEMMA AddUndoExact ==
  ASSUME NEW l, GoodLog(l), NEW r \in Requests, r.type = "UNDO", NEW n \in Nat,
         CanAdd(l, n), l.next_undo # None
  PROVE  PointersExact(AddUndo(l, r, n))
<1> DEFINE k == Linked(l, r, n, l.next_undo)
           d == AddUndo(l, r, n)
<1>1. LogType(l) /\ ChainsOK(l) /\ NoCrossing(l) /\ l.next_undo \in Pointers(l)
  BY DEF GoodLog, LogType
<1>2. LogType(k) /\ ChainsOK(k) /\ NoCrossing(k)
  BY <1>1, LinkedType, LinkedChains DEF GoodLog, CachesOK
<1>3. n \in Numbers(k) /\ k.end = n + 1 /\ TypeOf(k, n) = "UNDO" /\ k.begin < k.end
  BY <1>1, LinkedFields DEF TypeOf, Numbers
<1>4. /\ d.begin = k.begin /\ d.end = k.end /\ d.request = k.request
      /\ d.prev = k.prev /\ d.next_undo = FindAssociated(k, "UNDO")
      /\ d.next_redo = n
  BY DEF AddUndo, Linked
<1> HIDE DEF k, d
<1>5. WalkFinds(k, "UNDO", k.end - 1, FindAssociated(k, "UNDO"))
  BY <1>2, <1>3, FindAssociatedExact
<1>6. WalkFinds(k, "REDO", k.end - 1, n)
  <2>1. WalkFinds(k, "REDO", k.end - 1, Found(k, "REDO", n))
    BY <1>2, <1>3, WalkStops
  <2> QED BY <1>3, <2>1 DEF Found, StopsAt
<1>7. PointersExact(d)
  BY <1>4, <1>5, <1>6, SameWalk
<1> QED BY <1>7 DEF d

\* After a redo: the redo itself, and what a new walk finds.
LEMMA AddRedoExact ==
  ASSUME NEW l, GoodLog(l), NEW r \in Requests, r.type = "REDO", NEW n \in Nat,
         CanAdd(l, n), l.next_redo # None
  PROVE  PointersExact(AddRedo(l, r, n))
<1> DEFINE k == Linked(l, r, n, l.next_redo)
           d == AddRedo(l, r, n)
<1>1. LogType(l) /\ ChainsOK(l) /\ NoCrossing(l) /\ l.next_redo \in Pointers(l)
  BY DEF GoodLog, LogType
<1>2. LogType(k) /\ ChainsOK(k) /\ NoCrossing(k)
  BY <1>1, LinkedType, LinkedChains DEF GoodLog, CachesOK, InEffect
<1>3. n \in Numbers(k) /\ k.end = n + 1 /\ TypeOf(k, n) = "REDO" /\ k.begin < k.end
  BY <1>1, LinkedFields DEF TypeOf, Numbers
<1>4. /\ d.begin = k.begin /\ d.end = k.end /\ d.request = k.request
      /\ d.prev = k.prev /\ d.next_redo = FindAssociated(k, "REDO")
      /\ d.next_undo = n
  BY DEF AddRedo, Linked
<1> HIDE DEF k, d
<1>5. WalkFinds(k, "REDO", k.end - 1, FindAssociated(k, "REDO"))
  BY <1>2, <1>3, FindAssociatedExact
<1>6. WalkFinds(k, "UNDO", k.end - 1, n)
  <2>1. WalkFinds(k, "UNDO", k.end - 1, Found(k, "UNDO", n))
    BY <1>2, <1>3, WalkStops
  <2> QED BY <1>3, <2>1 DEF Found, StopsAt
<1>7. PointersExact(d)
  BY <1>4, <1>5, <1>6, SameWalk
<1> QED BY <1>7 DEF d

\* What a shortened log's walk finds is what the whole log's finds, or NULL.
LEMMA RemoveExact ==
  ASSUME NEW l, GoodLog(l), PointersExact(l), NEW up_to, CanRemove(l, up_to)
  PROVE  PointersExact(RemoveRequests(l, up_to))
<1> DEFINE d == RemoveRequests(l, up_to)
           N == up_to .. (l.end - 1)
<1>1. /\ up_to \in Nat /\ l.begin <= up_to /\ up_to <= l.end
      /\ l.begin \in Nat /\ l.end \in Nat /\ LogType(l)
      /\ \A m \in N : m \in l.begin .. (l.end - 1) /\ m >= up_to /\ m \in Nat
      /\ \A m \in l.begin .. (l.end - 1) : m \in Nat /\ (m >= up_to => m \in N)
  BY DEF CanRemove, GoodLog, LogType
<1>2. /\ d.begin = up_to /\ d.end = l.end
      /\ d.request = [m \in N |-> l.request[m]]
      /\ d.prev = [m \in N |-> l.prev[m]]
      /\ d.next_undo = Kept(l.next_undo, up_to)
      /\ d.next_redo = Kept(l.next_redo, up_to)
  BY DEF RemoveRequests
<1> HIDE DEF d, N
<1>3. ASSUME NEW type, NEW r, WalkFinds(l, type, l.end - 1, r)
      PROVE  WalkFinds(d, type, d.end - 1, Kept(r, up_to))
  <2> DEFINE all == FreeUpTo(l, type, l.end - 1)
             free == FreeUpTo(d, type, d.end - 1)
  <2>1. free = {m \in all : m >= up_to}
    <3>1. \A m \in N : TypeOf(d, m) = TypeOf(l, m) /\ d.prev[m] = l.prev[m]
      BY <1>2 DEF TypeOf
    <3>2. d.begin .. (d.end - 1) = N
      BY <1>2 DEF N
    <3>3. ASSUME NEW m \in free PROVE m \in all /\ m >= up_to
      <4>1. m \in N /\ TypeOf(l, m) # type
        BY <3>1, <3>2, <3>3 DEF FreeUpTo
      <4>2. ASSUME NEW j \in l.begin .. (l.end - 1), TypeOf(l, j) = type,
                   l.prev[j] <= m, m < j
            PROVE  FALSE
        <5>1. j \in N
          BY <1>1, <4>1, <4>2
        <5> QED BY <3>1, <3>2, <3>3, <4>2, <5>1 DEF FreeUpTo
      <4> QED BY <1>1, <4>1, <4>2 DEF FreeUpTo
    <3>4. ASSUME NEW m \in all, m >= up_to PROVE m \in free
      <4>1. m \in N
        BY <1>1, <3>4 DEF FreeUpTo
      <4> QED BY <1>1, <3>1, <3>2, <3>4, <4>1 DEF FreeUpTo
    <3> QED BY <3>3, <3>4
  <2>2. all \subseteq Nat
    BY <1>1 DEF FreeUpTo
  <2>3. \A t : Found(d, type, t) = IF t \in N THEN Found(l, type, t) ELSE Found(d, type, t)
    BY <1>2 DEF Found, StopsAt, TypeOf
  <2>4. Kept(None, up_to) = None
    BY DEF Kept
  <2>5. CASE all = {} /\ r = None
    BY <2>1, <2>4, <2>5 DEF WalkFinds
  <2>6. ASSUME NEW t \in all, IsGreatest(t, all), r = Found(l, type, t)
        PROVE  WalkFinds(d, type, d.end - 1, Kept(r, up_to))
    <3>1. CASE t < up_to
      <4>1. free = {}
        BY <1>1, <2>1, <2>2, <2>6, <3>1 DEF IsGreatest
      <4>2. Kept(r, up_to) = None
        BY <2>4, <2>6, <3>1 DEF Kept, Found
      <4> QED BY <4>1, <4>2 DEF WalkFinds
    <3>2. CASE t >= up_to
      <4>1. t \in free /\ IsGreatest(t, free) /\ t \in N
        BY <1>1, <2>1, <2>2, <2>6, <3>2 DEF IsGreatest, FreeUpTo
      <4>2. Kept(r, up_to) = r
        BY <1>1, <2>2, <2>4, <2>6, <3>2 DEF Kept, Found
      <4>3. r = Found(d, type, t)
        BY <2>3, <2>6, <4>1
      <4> QED BY <4>1, <4>2, <4>3 DEF WalkFinds
    <3> QED BY <1>1, <2>2, <3>1, <3>2
  <2> QED BY <1>3, <2>5, <2>6 DEF WalkFinds
<1>4. PointersExact(d)
  BY <1>2, <1>3 DEF PointersExact
<1> QED BY <1>4 DEF d

\* The pointers of an empty log are NULL.
LEMMA NoEntriesExact ==
  ASSUME NEW l, LogType(l), IsEmpty(l)
  PROVE  PointersExact(l)
<1>1. l.begin .. (l.end - 1) = {}
  BY DEF LogType, IsEmpty
<1>2. l.next_undo = None /\ l.next_redo = None
  BY <1>1 DEF LogType, Pointers, Numbers
<1> QED BY <1>1, <1>2 DEF PointersExact, WalkFinds, FreeUpTo

------------------------------------------------------------------------------
(* Where the log can be cut. *)

\* upper_related leads to the next place where the log can be cut.
LEMMA CutsFound ==
  ASSUME NEW l, GoodLog(l), NEW n \in Numbers(l), CanRemove(l, n)
  PROVE  /\ CanRemove(l, UpperRelated(l, n) + 1)
         /\ \A k \in (n + 1) .. UpperRelated(l, n) : ~CanRemove(l, k)
<1> DEFINE u == UpperRelated(l, n)
           Closed == {m \in n .. (l.end - 1) : ClosedUpTo(l, n, m)}
<1>1. /\ l.begin \in Nat /\ l.end \in Nat /\ n \in Nat
      /\ l.begin <= n /\ n < l.end
      /\ \A m \in n .. (l.end - 1) : m \in Nat /\ m \in Numbers(l)
      /\ \A m \in l.begin .. (n - 1) : m \in Nat /\ m \in Numbers(l)
      /\ \A m \in Numbers(l) : l.next[m] \in Int /\ l.next[m] <= l.end - 1
  BY DEF GoodLog, LogType, Numbers, Pointers, None
<1>2. l.end - 1 \in Closed
  BY <1>1 DEF ClosedUpTo
<1>3. PICK c \in Closed : \A m \in Closed : c <= m
  BY <1>1, <1>2, Least
<1>4. c \in n .. (l.end - 1) /\ c \in Nat /\ \A k \in n .. (c - 1) : ~ClosedUpTo(l, n, k)
  <2>1. c \in n .. (l.end - 1) /\ c \in Nat
    BY <1>1
  <2>2. ASSUME NEW k \in n .. (c - 1), ClosedUpTo(l, n, k) PROVE FALSE
    <3>1. k \in n .. (l.end - 1) /\ k < c /\ k \in Nat
      BY <1>1, <2>1
    <3> QED BY <1>3, <2>1, <2>2, <3>1
  <2> QED BY <2>1, <2>2
<1>5. /\ u \in n .. (l.end - 1)
      /\ ClosedUpTo(l, n, u) /\ \A k \in n .. (u - 1) : ~ClosedUpTo(l, n, k)
  BY <1>3, <1>4 DEF UpperRelated
<1> HIDE DEF u
<1>6. CanRemove(l, u + 1)
  <2>1. u + 1 \in l.begin .. l.end
    BY <1>1, <1>5
  <2>2. ASSUME NEW m \in l.begin .. u PROVE l.next[m] < u + 1
    <3>1. m \in Int /\ m \in l.begin .. (l.end - 1)
      BY <1>1, <1>5
    <3>2. CASE m < n
      <4>1. m \in l.begin .. (n - 1) /\ m \in Numbers(l)
        BY <1>1, <3>1, <3>2
      <4>2. ~(l.next[m] >= n) /\ l.next[m] \in Int
        BY <1>1, <4>1 DEF CanRemove, IsRelated
      <4> QED BY <1>1, <1>5, <4>2
    <3>3. CASE m >= n
      <4>1. m \in n .. u /\ m \in Numbers(l) /\ u \in Int
        BY <1>1, <1>5, <3>1, <3>3
      <4> QED BY <1>1, <1>5, <4>1 DEF ClosedUpTo
    <3> QED BY <1>1, <3>1, <3>2, <3>3
  <2>3. (u + 1) - 1 = u /\ u \in Int /\ \A m \in l.begin .. u : m \in Numbers(l)
    BY <1>1, <1>5 DEF Numbers
  <2> QED BY <1>1, <2>1, <2>2, <2>3 DEF CanRemove, IsRelated
<1>7. ASSUME NEW k \in (n + 1) .. u PROVE ~CanRemove(l, k)
  <2>1. k \in Int /\ k - 1 \in n .. (u - 1)
    BY <1>1, <1>5
  <2>2. PICK j \in n .. (k - 1) : ~(l.next[j] <= k - 1)
    BY <1>5, <2>1 DEF ClosedUpTo
  <2>3. j \in l.begin .. (k - 1) /\ l.next[j] \in Int
    BY <1>1, <1>5, <2>1, <2>2
  <2> QED BY <2>1, <2>2, <2>3 DEF CanRemove, IsRelated
<1> QED BY <1>6, <1>7 DEF u

------------------------------------------------------------------------------
(* What was undone last is redone first. *)

\* The last entries of the chains; of those that are in effect; and of those
\* that were undone and can be redone.
ChainEnds(l)  == {k \in Numbers(l) : l.next[k] = None}
DoneEnds(l)   == {k \in ChainEnds(l) : TypeOf(l, k) \in InEffect}
UndoneEnds(l) == {k \in ChainEnds(l) : /\ TypeOf(l, k) = "UNDO"
                                       /\ \A m \in Changes(l) : m < k}

\* A chain starts with a change, and has one end.
OriginalsOK(l) == \A k \in Numbers(l) : l.original[k] \in Changes(l) /\ l.original[k] <= k
OneEnd(l) == \A j, k \in ChainEnds(l) : l.original[j] = l.original[k] => j = k

\* Nothing that is in effect lies under an undo, nothing that can be redone
\* under a redo, and no redo reaches back over a change.
EndsUncovered(l) ==
  /\ \A k \in DoneEnds(l) : Uncovered(l, k, "UNDO")
  /\ \A k \in UndoneEnds(l) : Uncovered(l, k, "REDO")
  /\ \A k \in Changes(l) : Uncovered(l, k, "REDO")

\* Changes take effect in their order, are undone in the opposite order, and
\* the undone ones are the newer ones.
EndsInOrder(l) ==
  /\ \A j, k \in DoneEnds(l) : l.original[j] < l.original[k] => j < k
  /\ \A j, k \in UndoneEnds(l) : l.original[j] < l.original[k] => k < j
  /\ \A j \in DoneEnds(l), k \in UndoneEnds(l) : l.original[j] < l.original[k]

LinearLog(l) == OriginalsOK(l) /\ OneEnd(l) /\ EndsUncovered(l) /\ EndsInOrder(l)

\* Log d is log l with request n of this type appended and linked to p.
Extended(d, l, n, type, p) ==
  /\ n \in Nat /\ Numbers(d) = Numbers(l) \cup {n}
  /\ \A m \in Numbers(l) :
       /\ m \in Nat /\ m < n
       /\ TypeOf(d, m) = TypeOf(l, m) /\ d.original[m] = l.original[m]
       /\ d.prev[m] = l.prev[m] /\ d.next[m] = IF m = p THEN n ELSE l.next[m]
  /\ TypeOf(d, n) = type /\ d.prev[n] = p /\ d.next[n] = None
  /\ d.original[n] = IF p = None THEN n ELSE l.original[p]

\* Adding a request extends the log.
LEMMA AddExtends ==
  ASSUME NEW l, GoodLog(l), NEW type \in RequestTypes, NEW n \in Nat, CanAdd(l, n)
  PROVE  Extended(AddRequest(l, [type |-> type], n), l, n, type, Candidate(l, type))
<1> DEFINE r == [type |-> type]
           p == Candidate(l, type)
           k == Linked(l, r, n, p)
           d == AddRequest(l, r, n)
<1>1. r \in Requests /\ r.type = type /\ LogType(l)
  BY DEF Requests, GoodLog
<1>2. p \in Pointers(l)
  BY <1>1 DEF Candidate, RequestTypes, LogType, Pointers
<1>3. /\ d.begin = k.begin /\ d.end = k.end /\ d.request = k.request
      /\ d.original = k.original /\ d.prev = k.prev /\ d.next = k.next
  <2>1. CASE type = "DO"
    <3>1. p = None /\ d = AddDo(l, r, n)
      BY <1>1, <2>1 DEF AddRequest, Candidate
    <3> HIDE DEF p, d, r
    <3> QED BY <3>1 DEF AddDo, Linked
  <2>2. CASE type = "UNDO"
    <3>1. p = l.next_undo /\ d = AddUndo(l, r, n)
      BY <1>1, <2>2 DEF AddRequest, Candidate
    <3> HIDE DEF p, d, r
    <3> QED BY <3>1 DEF AddUndo, Linked
  <2>3. CASE type = "REDO"
    <3>1. p = l.next_redo /\ d = AddRedo(l, r, n)
      BY <1>1, <2>3 DEF AddRequest, Candidate
    <3> HIDE DEF p, d, r
    <3> QED BY <3>1 DEF AddRedo, Linked
  <2> QED BY <2>1, <2>2, <2>3 DEF RequestTypes
<1>4. Numbers(d) = Numbers(k) /\ \A m : TypeOf(d, m) = TypeOf(k, m)
  BY <1>3 DEF Numbers, TypeOf
<1> HIDE DEF d, k, p, r
<1>5. Extended(d, l, n, type, p)
  BY <1>1, <1>2, <1>3, <1>4, LinkedFields DEF Extended, TypeOf, k
<1> QED BY <1>5 DEF d, p, r

\* What can be undone next is the newest end that is in effect.
LEMMA NextUndoIsEnd ==
  ASSUME NEW l, GoodLog(l), PointersExact(l), LinearLog(l), l.next_undo # None
  PROVE  /\ l.next_undo \in DoneEnds(l)
         /\ \A k \in DoneEnds(l) : k <= l.next_undo
<1> DEFINE p == l.next_undo
<1>1. LogType(l) /\ ChainsOK(l) /\ p \in Numbers(l)
      /\ TypeOf(l, p) \in InEffect /\ Uncovered(l, p, "UNDO")
  BY DEF GoodLog, LogType, Pointers, CachesOK
<1>2. l.next[p] = None
  <2> SUFFICES ASSUME l.next[p] # None PROVE FALSE
    OBVIOUS
  <2> DEFINE q == l.next[p]
  <2>1. q \in Numbers(l) /\ p < q /\ l.prev[q] = p /\ p \in Nat
    BY <1>1 DEF ChainsOK, LogType, Pointers, Numbers
  <2>2. TypeOf(l, q) = "UNDO"
    BY <1>1, <2>1 DEF ChainsOK, None
  <2> QED BY <1>1, <2>1, <2>2 DEF Uncovered
<1>3. PICK t \in FreeUpTo(l, "UNDO", l.end - 1) :
        IsGreatest(t, FreeUpTo(l, "UNDO", l.end - 1)) /\ p = Found(l, "UNDO", t)
  BY DEF PointersExact, WalkFinds
<1>4. p = t
  BY <1>3 DEF Found
<1>5. ASSUME NEW k \in DoneEnds(l) PROVE k <= p
  <2>1. k \in Numbers(l) /\ TypeOf(l, k) # "UNDO" /\ Uncovered(l, k, "UNDO")
    BY <1>5 DEF DoneEnds, ChainEnds, InEffect, LinearLog, EndsUncovered
  <2>2. k \in FreeUpTo(l, "UNDO", l.end - 1)
    BY <2>1 DEF FreeUpTo, Numbers, Uncovered
  <2> QED BY <1>3, <1>4, <2>2 DEF IsGreatest
<1> QED BY <1>1, <1>2, <1>5 DEF DoneEnds, ChainEnds

\* What can be redone next is the newest end that can be redone.
LEMMA NextRedoIsEnd ==
  ASSUME NEW l, GoodLog(l), PointersExact(l), LinearLog(l), l.next_redo # None
  PROVE  /\ l.next_redo \in UndoneEnds(l)
         /\ \A k \in UndoneEnds(l) : k <= l.next_redo
<1> DEFINE p == l.next_redo
<1>1. LogType(l) /\ ChainsOK(l) /\ p \in Numbers(l) /\ p \in Nat
      /\ TypeOf(l, p) = "UNDO" /\ Uncovered(l, p, "REDO")
  BY DEF GoodLog, LogType, Pointers, CachesOK, Numbers
<1>2. l.next[p] = None
  <2> SUFFICES ASSUME l.next[p] # None PROVE FALSE
    OBVIOUS
  <2> DEFINE q == l.next[p]
  <2>1. q \in Numbers(l) /\ p < q /\ l.prev[q] = p
    BY <1>1 DEF ChainsOK, LogType, Pointers, Numbers
  <2>2. TypeOf(l, q) = "REDO"
    <3>1. TypeOf(l, q) \in RequestTypes
      BY <1>1, <2>1 DEF LogType, Requests, TypeOf
    <3> QED BY <1>1, <2>1, <3>1 DEF ChainsOK, None, RequestTypes, InEffect
  <2> QED BY <1>1, <2>1, <2>2 DEF Uncovered
<1>3. PICK t \in FreeUpTo(l, "REDO", l.end - 1) :
        IsGreatest(t, FreeUpTo(l, "REDO", l.end - 1)) /\ p = Found(l, "REDO", t)
  BY DEF PointersExact, WalkFinds
<1>4. p = t
  BY <1>3 DEF Found
<1>5. ASSUME NEW k \in Numbers(l), TypeOf(l, k) # "REDO", Uncovered(l, k, "REDO")
      PROVE  k <= p
  <2>1. k \in FreeUpTo(l, "REDO", l.end - 1)
    BY <1>5 DEF FreeUpTo, Numbers, Uncovered
  <2> QED BY <1>3, <1>4, <2>1 DEF IsGreatest
<1>6. ASSUME NEW m \in Changes(l) PROVE m < p
  <2>1. m \in Numbers(l) /\ m \in Nat /\ TypeOf(l, m) = "DO" /\ m # p
        /\ Uncovered(l, m, "REDO")
    BY <1>1 DEF Changes, Numbers, LogType, LinearLog, EndsUncovered
  <2> QED BY <1>1, <1>5, <2>1
<1>7. ASSUME NEW k \in UndoneEnds(l) PROVE k <= p
  BY <1>5 DEF UndoneEnds, ChainEnds, LinearLog, EndsUncovered
<1> QED BY <1>1, <1>2, <1>6, <1>7 DEF UndoneEnds, ChainEnds

\* The ends of an extended log's chains: p is no longer one, n is.
LEMMA ExtendedEnds ==
  ASSUME NEW d, NEW l, NEW n, NEW type, NEW p,
         GoodLog(l), Extended(d, l, n, type, p), LinearLog(l),
         p = None <=> type = "DO",
         p # None => p \in ChainEnds(l)
  PROVE  /\ ChainEnds(d) = (ChainEnds(l) \ {p}) \cup {n}
         /\ Changes(d) = Changes(l) \cup (IF type = "DO" THEN {n} ELSE {})
         /\ OriginalsOK(d) /\ OneEnd(d)
<1>1. /\ LogType(l) /\ n \in Nat /\ None \notin Nat
      /\ Numbers(d) = Numbers(l) \cup {n} /\ n \notin Numbers(l)
      /\ \A m \in Numbers(l) :
           /\ m \in Nat /\ m < n
           /\ TypeOf(d, m) = TypeOf(l, m) /\ d.original[m] = l.original[m]
           /\ d.next[m] = IF m = p THEN n ELSE l.next[m]
      /\ TypeOf(d, n) = type /\ d.next[n] = None
      /\ d.original[n] = IF p = None THEN n ELSE l.original[p]
  BY DEF GoodLog, Extended, None
<1>2. ChainEnds(d) = (ChainEnds(l) \ {p}) \cup {n}
  BY <1>1 DEF ChainEnds
<1>3. Changes(d) = Changes(l) \cup (IF type = "DO" THEN {n} ELSE {})
  BY <1>1 DEF Changes
<1>4. OriginalsOK(l) /\ OneEnd(l) /\ (p # None => p \in Numbers(l))
  BY DEF LinearLog, ChainEnds
<1>5. OriginalsOK(d)
  <2>1. ASSUME NEW k \in Numbers(l)
        PROVE  d.original[k] \in Changes(d) /\ d.original[k] <= k
    BY <1>1, <1>3, <1>4 DEF OriginalsOK
  <2>2. d.original[n] \in Changes(d) /\ d.original[n] <= n
    <3>1. CASE p = None
      BY <1>1, <1>3, <3>1
    <3>2. CASE p # None
      <4>1. l.original[p] \in Changes(l) /\ l.original[p] \in Numbers(l)
        BY <1>4, <3>2 DEF OriginalsOK, Changes
      <4> QED BY <1>1, <1>3, <3>2, <4>1
    <3> QED BY <3>1, <3>2
  <2> QED BY <1>1, <2>1, <2>2 DEF OriginalsOK
<1>6. OneEnd(d)
  <2>1. ASSUME NEW j \in ChainEnds(l), j # p PROVE d.original[j] # d.original[n]
    <3>1. j \in Numbers(l) /\ d.original[j] = l.original[j]
      BY <1>1 DEF ChainEnds
    <3>2. CASE p = None
      <4>1. l.original[j] \in Numbers(l)
        BY <1>4, <3>1 DEF OriginalsOK, Changes
      <4> QED BY <1>1, <3>1, <3>2, <4>1
    <3>3. CASE p # None
      BY <1>1, <1>4, <2>1, <3>1, <3>3 DEF OneEnd
    <3> QED BY <3>2, <3>3
  <2>2. ASSUME NEW j \in ChainEnds(l) \ {p}, NEW k \in ChainEnds(l) \ {p},
               d.original[j] = d.original[k]
        PROVE  j = k
    BY <1>1, <1>4, <2>2 DEF OneEnd, ChainEnds
  <2> QED BY <1>2, <2>1, <2>2 DEF OneEnd
<1> QED BY <1>2, <1>3, <1>5, <1>6

\* Which entries of an extended log lie under links.
LEMMA ExtendedUncovered ==
  ASSUME NEW d, NEW l, NEW n, NEW type, NEW p \in Int, GoodLog(l),
         Extended(d, l, n, type, p), NEW t
  PROVE  /\ Uncovered(d, n, t)
         /\ \A k \in Numbers(l) :
              Uncovered(l, k, t) /\ (type = t => k < p) => Uncovered(d, k, t)
<1>1. /\ n \in Nat /\ Numbers(d) = Numbers(l) \cup {n} /\ Numbers(l) \subseteq Nat
      /\ \A m \in Numbers(l) :
           /\ m \in Nat /\ m < n
           /\ TypeOf(d, m) = TypeOf(l, m) /\ d.prev[m] = l.prev[m]
      /\ TypeOf(d, n) = type /\ d.prev[n] = p
  BY DEF Extended
<1>2. Uncovered(d, n, t)
  BY <1>1 DEF Uncovered
<1>3. ASSUME NEW k \in Numbers(l), Uncovered(l, k, t), type = t => k < p
      PROVE  Uncovered(d, k, t)
  BY <1>1, <1>3 DEF Uncovered
<1> QED BY <1>2, <1>3

\* After a new change nothing can be redone, and the change is the newest.
LEMMA DoLinear ==
  ASSUME NEW d, NEW l, NEW n, GoodLog(l), LinearLog(l), Extended(d, l, n, "DO", None)
  PROVE  /\ LinearLog(d)
         /\ DoneEnds(d) = DoneEnds(l) \cup {n} /\ UndoneEnds(d) = {}
<1>1. /\ n \in Nat /\ None \in Int \ Nat /\ Numbers(l) \subseteq Nat /\ n \notin Numbers(l)
      /\ \A m \in Numbers(l) : m < n /\ TypeOf(d, m) = TypeOf(l, m)
                               /\ d.original[m] = l.original[m]
      /\ TypeOf(d, n) = "DO" /\ d.original[n] = n
  BY DEF Extended, None
<1>2. /\ ChainEnds(d) = ChainEnds(l) \cup {n} /\ Changes(d) = Changes(l) \cup {n}
      /\ OriginalsOK(d) /\ OneEnd(d)
      /\ ChainEnds(l) \subseteq Numbers(l) /\ Changes(l) \subseteq Numbers(l)
  <2>1. ChainEnds(l) \subseteq Numbers(l) /\ Changes(l) \subseteq Numbers(l)
    BY DEF ChainEnds, Changes
  <2>2. None \notin ChainEnds(l)
    BY <1>1, <2>1
  <2> QED BY <2>1, <2>2, ExtendedEnds
<1>3. DoneEnds(d) = DoneEnds(l) \cup {n}
  BY <1>1, <1>2 DEF DoneEnds, InEffect
<1>4. UndoneEnds(d) = {}
  BY <1>1, <1>2 DEF UndoneEnds
<1>5. DoneEnds(l) \subseteq Numbers(l)
  BY <1>2 DEF DoneEnds
<1>6. EndsUncovered(d)
  <2>1. \A t \in {"UNDO", "REDO"} :
          /\ Uncovered(d, n, t)
          /\ \A k \in Numbers(l) : Uncovered(l, k, t) => Uncovered(d, k, t)
    BY <1>1, ExtendedUncovered
  <2> QED BY <1>2, <1>3, <1>4, <1>5, <2>1 DEF EndsUncovered, LinearLog
<1>7. EndsInOrder(d)
  <2>1. ASSUME NEW j \in DoneEnds(d), NEW k \in DoneEnds(d),
               d.original[j] < d.original[k]
        PROVE  j < k
    <3>1. CASE j \in DoneEnds(l) /\ k \in DoneEnds(l)
      BY <1>1, <1>5, <2>1, <3>1 DEF LinearLog, EndsInOrder
    <3>2. CASE k = n /\ j \in DoneEnds(l)
      BY <1>1, <1>5, <3>2
    <3>3. CASE j = n /\ k \in DoneEnds(l)
      <4>1. d.original[k] \in Nat /\ d.original[k] <= k /\ k < n
        BY <1>1, <1>5, <3>3 DEF LinearLog, OriginalsOK, Changes
      <4> QED BY <1>1, <1>5, <2>1, <3>3, <4>1
    <3>4. CASE j = n /\ k = n
      BY <1>1, <2>1, <3>4
    <3> QED BY <1>3, <3>1, <3>2, <3>3, <3>4
  <2> QED BY <1>4, <2>1 DEF EndsInOrder
<1> QED BY <1>2, <1>3, <1>4, <1>6, <1>7 DEF LinearLog

\* The newest change in effect is undone, and becomes the first to be redone.
LEMMA UndoLinear ==
  ASSUME NEW d, NEW l, NEW n, NEW p, GoodLog(l), LinearLog(l),
         Extended(d, l, n, "UNDO", p), p \in DoneEnds(l),
         \A k \in DoneEnds(l) : k <= p
  PROVE  /\ LinearLog(d)
         /\ DoneEnds(d) = DoneEnds(l) \ {p} /\ UndoneEnds(d) = UndoneEnds(l) \cup {n}
         /\ \A k \in DoneEnds(l) : l.original[k] <= l.original[p]
<1>1. /\ n \in Nat /\ None \notin Nat /\ Numbers(l) \subseteq Nat /\ n \notin Numbers(l)
      /\ p \in Numbers(l) /\ p # None /\ TypeOf(l, p) # "UNDO"
      /\ \A m \in Numbers(l) : m < n /\ TypeOf(d, m) = TypeOf(l, m)
                               /\ d.original[m] = l.original[m]
      /\ TypeOf(d, n) = "UNDO" /\ d.original[n] = l.original[p]
      /\ \A m \in Numbers(l) : l.original[m] \in Numbers(l)
  BY DEF Extended, None, DoneEnds, ChainEnds, InEffect, LinearLog, OriginalsOK, Changes
<1>2. /\ ChainEnds(d) = (ChainEnds(l) \ {p}) \cup {n} /\ Changes(d) = Changes(l)
      /\ OriginalsOK(d) /\ OneEnd(d)
      /\ ChainEnds(l) \subseteq Numbers(l) /\ Changes(l) \subseteq Numbers(l)
  BY <1>1, ExtendedEnds DEF ChainEnds, Changes, DoneEnds
<1>3. DoneEnds(d) = DoneEnds(l) \ {p}
  BY <1>1, <1>2 DEF DoneEnds, InEffect
<1>4. UndoneEnds(d) = UndoneEnds(l) \cup {n}
  BY <1>1, <1>2 DEF UndoneEnds
<1>5. DoneEnds(l) \subseteq Numbers(l) /\ UndoneEnds(l) \subseteq Numbers(l)
  BY <1>2 DEF DoneEnds, UndoneEnds
<1>6. \A k \in DoneEnds(d) : k < p /\ k \in DoneEnds(l)
  BY <1>1, <1>3, <1>5
<1>7. \A k \in DoneEnds(d) : l.original[k] < l.original[p]
  <2> SUFFICES ASSUME NEW k \in DoneEnds(d) PROVE l.original[k] < l.original[p]
    OBVIOUS
  <2>1. k \in ChainEnds(l) /\ p \in ChainEnds(l) /\ k \in Numbers(l) /\ k # p
    BY <1>3, <1>5 DEF DoneEnds
  <2>2. l.original[k] # l.original[p]
    BY <2>1 DEF LinearLog, OneEnd
  <2>3. ~(l.original[p] < l.original[k])
    BY <1>1, <1>6, <2>1 DEF LinearLog, EndsInOrder
  <2> QED BY <1>1, <2>1, <2>2, <2>3
<1>8. EndsUncovered(d)
  <2>1. /\ Uncovered(d, n, "UNDO") /\ Uncovered(d, n, "REDO")
        /\ \A k \in Numbers(l) : Uncovered(l, k, "REDO") => Uncovered(d, k, "REDO")
        /\ \A k \in Numbers(l) :
             Uncovered(l, k, "UNDO") /\ k < p => Uncovered(d, k, "UNDO")
    BY <1>1, ExtendedUncovered
  <2> QED BY <1>2, <1>3, <1>4, <1>5, <1>6, <2>1 DEF EndsUncovered, LinearLog
<1>9. EndsInOrder(d)
  <2>1. ASSUME NEW j \in DoneEnds(d), NEW k \in DoneEnds(d),
               d.original[j] < d.original[k]
        PROVE  j < k
    BY <1>1, <1>3, <1>5, <2>1 DEF LinearLog, EndsInOrder
  <2>2. ASSUME NEW j \in UndoneEnds(d), NEW k \in UndoneEnds(d),
               d.original[j] < d.original[k]
        PROVE  k < j
    <3>1. CASE j \in UndoneEnds(l) /\ k \in UndoneEnds(l)
      BY <1>1, <1>5, <2>2, <3>1 DEF LinearLog, EndsInOrder
    <3>2. CASE j = n /\ k \in UndoneEnds(l)
      BY <1>1, <1>5, <3>2
    <3>3. CASE k = n /\ j \in UndoneEnds(l)
      <4>1. l.original[p] < l.original[j] /\ j \in Numbers(l)
        BY <1>5, <3>3 DEF LinearLog, EndsInOrder
      <4> QED BY <1>1, <2>2, <3>3, <4>1
    <3>4. CASE j = n /\ k = n
      BY <1>1, <2>2, <3>4
    <3> QED BY <1>4, <3>1, <3>2, <3>3, <3>4
  <2>3. ASSUME NEW j \in DoneEnds(d), NEW k \in UndoneEnds(d)
        PROVE  d.original[j] < d.original[k]
    <3>1. CASE k = n
      BY <1>1, <1>3, <1>5, <1>7, <3>1
    <3>2. CASE k \in UndoneEnds(l)
      BY <1>1, <1>3, <1>5, <3>2 DEF LinearLog, EndsInOrder
    <3> QED BY <1>4, <3>1, <3>2
  <2> QED BY <2>1, <2>2, <2>3 DEF EndsInOrder
<1>10. \A k \in DoneEnds(l) : l.original[k] <= l.original[p]
  BY <1>1, <1>3, <1>5, <1>7
<1> QED BY <1>2, <1>3, <1>4, <1>8, <1>9, <1>10 DEF LinearLog

\* The oldest change that can be redone is redone, and becomes the newest in effect.
LEMMA RedoLinear ==
  ASSUME NEW d, NEW l, NEW n, NEW p, GoodLog(l), LinearLog(l),
         Extended(d, l, n, "REDO", p), p \in UndoneEnds(l),
         \A k \in UndoneEnds(l) : k <= p
  PROVE  /\ LinearLog(d)
         /\ DoneEnds(d) = DoneEnds(l) \cup {n} /\ UndoneEnds(d) = UndoneEnds(l) \ {p}
         /\ \A k \in UndoneEnds(l) : l.original[p] <= l.original[k]
<1>1. /\ n \in Nat /\ None \notin Nat /\ Numbers(l) \subseteq Nat /\ n \notin Numbers(l)
      /\ p \in Numbers(l) /\ p # None /\ TypeOf(l, p) = "UNDO"
      /\ \A m \in Numbers(l) : m < n /\ TypeOf(d, m) = TypeOf(l, m)
                               /\ d.original[m] = l.original[m]
      /\ TypeOf(d, n) = "REDO" /\ d.original[n] = l.original[p]
      /\ \A m \in Numbers(l) : l.original[m] \in Numbers(l)
      /\ \A m \in Changes(l) : m < p
  BY DEF Extended, None, UndoneEnds, ChainEnds, LinearLog, OriginalsOK, Changes
<1>2. /\ ChainEnds(d) = (ChainEnds(l) \ {p}) \cup {n} /\ Changes(d) = Changes(l)
      /\ OriginalsOK(d) /\ OneEnd(d)
      /\ ChainEnds(l) \subseteq Numbers(l) /\ Changes(l) \subseteq Numbers(l)
  BY <1>1, ExtendedEnds DEF ChainEnds, Changes, UndoneEnds
<1>3. DoneEnds(d) = DoneEnds(l) \cup {n}
  BY <1>1, <1>2 DEF DoneEnds, InEffect
<1>4. UndoneEnds(d) = UndoneEnds(l) \ {p}
  BY <1>1, <1>2 DEF UndoneEnds
<1>5. DoneEnds(l) \subseteq Numbers(l) /\ UndoneEnds(l) \subseteq Numbers(l)
  BY <1>2 DEF DoneEnds, UndoneEnds
<1>6. \A k \in UndoneEnds(d) : k < p /\ k \in UndoneEnds(l)
  BY <1>1, <1>4, <1>5
<1>7. \A k \in UndoneEnds(d) : l.original[p] < l.original[k]
  <2> SUFFICES ASSUME NEW k \in UndoneEnds(d) PROVE l.original[p] < l.original[k]
    OBVIOUS
  <2>1. k \in ChainEnds(l) /\ p \in ChainEnds(l) /\ k \in Numbers(l) /\ k # p
    BY <1>4, <1>5 DEF UndoneEnds
  <2>2. l.original[k] # l.original[p]
    BY <2>1 DEF LinearLog, OneEnd
  <2>3. ~(l.original[k] < l.original[p])
    BY <1>1, <1>6, <2>1 DEF LinearLog, EndsInOrder
  <2> QED BY <1>1, <2>1, <2>2, <2>3
<1>8. EndsUncovered(d)
  <2>1. /\ Uncovered(d, n, "UNDO") /\ Uncovered(d, n, "REDO")
        /\ \A k \in Numbers(l) : Uncovered(l, k, "UNDO") => Uncovered(d, k, "UNDO")
        /\ \A k \in Numbers(l) :
             Uncovered(l, k, "REDO") /\ k < p => Uncovered(d, k, "REDO")
    BY <1>1, ExtendedUncovered
  <2> QED BY <1>1, <1>2, <1>3, <1>4, <1>5, <1>6, <2>1 DEF EndsUncovered, LinearLog
<1>9. EndsInOrder(d)
  <2>1. ASSUME NEW j \in DoneEnds(d), NEW k \in DoneEnds(d),
               d.original[j] < d.original[k]
        PROVE  j < k
    <3>1. CASE j \in DoneEnds(l) /\ k \in DoneEnds(l)
      BY <1>1, <1>5, <2>1, <3>1 DEF LinearLog, EndsInOrder
    <3>2. CASE k = n /\ j \in DoneEnds(l)
      BY <1>1, <1>5, <3>2
    <3>3. CASE j = n /\ k \in DoneEnds(l)
      <4>1. l.original[k] < l.original[p] /\ k \in Numbers(l)
        BY <1>5, <3>3 DEF LinearLog, EndsInOrder
      <4> QED BY <1>1, <2>1, <3>3, <4>1
    <3>4. CASE j = n /\ k = n
      BY <1>1, <2>1, <3>4
    <3> QED BY <1>3, <3>1, <3>2, <3>3, <3>4
  <2>2. ASSUME NEW j \in UndoneEnds(d), NEW k \in UndoneEnds(d),
               d.original[j] < d.original[k]
        PROVE  k < j
    BY <1>1, <1>4, <1>5, <2>2 DEF LinearLog, EndsInOrder
  <2>3. ASSUME NEW j \in DoneEnds(d), NEW k \in UndoneEnds(d)
        PROVE  d.original[j] < d.original[k]
    <3>1. CASE j = n
      BY <1>1, <1>4, <1>5, <1>7, <3>1
    <3>2. CASE j \in DoneEnds(l)
      BY <1>1, <1>4, <1>5, <3>2 DEF LinearLog, EndsInOrder
    <3> QED BY <1>3, <3>1, <3>2
  <2> QED BY <2>1, <2>2, <2>3 DEF EndsInOrder
<1>10. \A k \in UndoneEnds(l) : l.original[p] <= l.original[k]
  BY <1>1, <1>4, <1>5, <1>7
<1> QED BY <1>2, <1>3, <1>4, <1>8, <1>9, <1>10 DEF LinearLog

\* Forgetting the oldest requests removes whole chains.
LEMMA RemoveLinear ==
  ASSUME NEW l, GoodLog(l), LinearLog(l), NEW up_to, CanRemove(l, up_to),
         NEW d, d = RemoveRequests(l, up_to)
  PROVE  /\ LinearLog(d)
         /\ d.original = [k \in Numbers(d) |-> l.original[k]]
         /\ DoneEnds(d) = {k \in DoneEnds(l) : k >= up_to}
         /\ UndoneEnds(d) = {k \in UndoneEnds(l) : k >= up_to}
         /\ \A k \in Numbers(l) : k >= up_to <=> l.original[k] >= up_to
<1> DEFINE N == up_to .. (l.end - 1)
<1>1. /\ up_to \in Nat /\ l.begin <= up_to /\ up_to <= l.end
      /\ l.begin \in Nat /\ l.end \in Nat /\ Numbers(l) \subseteq Nat
      /\ N = {k \in Numbers(l) : k >= up_to}
  BY DEF CanRemove, GoodLog, LogType, Numbers
<1>2. /\ Numbers(d) = N
      /\ d.request = [k \in N |-> l.request[k]]
      /\ d.original = [k \in N |-> l.original[k]]
      /\ d.prev = [k \in N |-> l.prev[k]]
      /\ d.next = [k \in N |-> l.next[k]]
  BY DEF RemoveRequests, Numbers
<1>3. GoodLog(d)
  BY RemoveGood
<1> HIDE DEF N
<1>4. \A k \in N : l.original[k] \in N
  BY <1>2, <1>3 DEF GoodLog, LogType
<1>5. \A k \in Numbers(l) : l.original[k] \in Numbers(l) /\ l.original[k] <= k
  BY DEF LinearLog, OriginalsOK, Changes
<1>6. \A k \in Numbers(l) : k >= up_to <=> l.original[k] >= up_to
  <2> SUFFICES ASSUME NEW k \in Numbers(l)
               PROVE  k >= up_to <=> l.original[k] >= up_to
    OBVIOUS
  <2>1. k \in Nat /\ l.original[k] \in Nat /\ l.original[k] <= k
    BY <1>1, <1>5
  <2>2. k >= up_to => l.original[k] >= up_to
    BY <1>1, <1>4
  <2> QED BY <1>1, <2>1, <2>2
<1>7. \A k \in N : TypeOf(d, k) = TypeOf(l, k)
  BY <1>2 DEF TypeOf
<1>8. ChainEnds(d) = {k \in ChainEnds(l) : k >= up_to}
  BY <1>1, <1>2 DEF ChainEnds
<1>9. Changes(d) = {k \in Changes(l) : k >= up_to}
  BY <1>1, <1>2, <1>7 DEF Changes
<1>10. DoneEnds(d) = {k \in DoneEnds(l) : k >= up_to}
  BY <1>1, <1>2, <1>7, <1>8 DEF DoneEnds, ChainEnds
<1>11. UndoneEnds(d) = {k \in UndoneEnds(l) : k >= up_to}
  <2>1. ASSUME NEW k \in ChainEnds(l), k >= up_to
        PROVE  (\A m \in Changes(d) : m < k) <=> (\A m \in Changes(l) : m < k)
    <3>1. \A m \in Changes(l) : m \in Nat /\ (m >= up_to \/ m < up_to) /\ k \in Nat
      BY <1>1 DEF Changes, ChainEnds
    <3> QED BY <1>1, <1>9, <2>1, <3>1
  <2> QED BY <1>1, <1>2, <1>7, <1>8, <2>1 DEF UndoneEnds, ChainEnds
<1>12. OriginalsOK(d)
  BY <1>1, <1>2, <1>4, <1>9 DEF LinearLog, OriginalsOK
<1>13. OneEnd(d)
  BY <1>1, <1>2, <1>8 DEF LinearLog, OneEnd, ChainEnds
<1>14. \A k \in N : \A t : Uncovered(l, k, t) => Uncovered(d, k, t)
  BY <1>1, <1>2, <1>7 DEF Uncovered
<1>15. /\ DoneEnds(d) \subseteq N /\ UndoneEnds(d) \subseteq N /\ Changes(d) \subseteq N
       /\ \A k \in N : d.original[k] = l.original[k]
  BY <1>2 DEF DoneEnds, UndoneEnds, ChainEnds, Changes
<1>16. EndsUncovered(d)
  BY <1>9, <1>10, <1>11, <1>14, <1>15 DEF LinearLog, EndsUncovered
<1>17. EndsInOrder(d)
  BY <1>10, <1>11, <1>15 DEF LinearLog, EndsInOrder
<1> QED BY <1>2, <1>6, <1>10, <1>11, <1>12, <1>13, <1>16, <1>17 DEF LinearLog

\* A log without entries has no history.
LEMMA NoEntriesLinear ==
  ASSUME NEW l, LogType(l), IsEmpty(l)
  PROVE  /\ LinearLog(l) /\ DoneEnds(l) = {} /\ UndoneEnds(l) = {}
         /\ UndoableChanges(l) = {} /\ RedoableChanges(l) = {}
<1>1. Numbers(l) = {}
  BY DEF LogType, IsEmpty, Numbers
<1>2. ChainEnds(l) = {} /\ Changes(l) = {} /\ DoneEnds(l) = {} /\ UndoneEnds(l) = {}
  BY <1>1 DEF ChainEnds, Changes, DoneEnds, UndoneEnds
<1>3. LinearLog(l)
  BY <1>1, <1>2 DEF LinearLog, OriginalsOK, OneEnd, EndsUncovered, EndsInOrder
<1> QED BY <1>2, <1>3 DEF UndoableChanges, RedoableChanges

\* The abstract history names a chain by its change, the log by its end.
LEMMA HistoryOfEnds ==
  ASSUME NEW l, LinearLog(l)
  PROVE  /\ UndoableChanges(l) = {l.original[k] : k \in DoneEnds(l)}
         /\ RedoableChanges(l) = {l.original[k] : k \in UndoneEnds(l)}
<1>1. \A k \in Numbers(l) : l.original[k] \in Changes(l)
  BY DEF LinearLog, OriginalsOK
<1>2. UndoableChanges(l) = {l.original[k] : k \in DoneEnds(l)}
  BY <1>1 DEF UndoableChanges, EndsWith, DoneEnds, ChainEnds
<1>3. RedoableChanges(l) = {l.original[k] : k \in UndoneEnds(l)}
  BY <1>1 DEF RedoableChanges, UndoneEnds, ChainEnds
<1> QED BY <1>2, <1>3
------------------------------------------------------------------------------
\* The inductive invariant of the walks, the cuts and the undo history.
HistoryInv == IInv /\ PointersExact(log) /\ LinearLog(log)

\* What a step does to a log that satisfies the invariant, for any type of request.
LEMMA AddKeeps ==
  ASSUME NEW l, GoodLog(l), PointersExact(l), LinearLog(l),
         NEW type \in RequestTypes, NEW n \in Nat, CanAdd(l, n),
         type = "UNDO" => l.next_undo # None, type = "REDO" => l.next_redo # None,
         NEW d, d = AddRequest(l, [type |-> type], n)
  PROVE  PointersExact(d) /\ LinearLog(d)
<1> DEFINE r == [type |-> type]
<1>1. r \in Requests /\ r.type = type
  BY DEF Requests
<1>2. Extended(d, l, n, type, Candidate(l, type))
  BY AddExtends
<1>3. CASE type = "DO"
  <2>1. d = AddDo(l, r, n) /\ Candidate(l, type) = None
    BY <1>1, <1>3 DEF AddRequest, Candidate
  <2> QED BY <1>1, <1>2, <1>3, <2>1, AddDoExact, DoLinear
<1>4. CASE type = "UNDO"
  <2>1. d = AddUndo(l, r, n) /\ Candidate(l, type) = l.next_undo
    BY <1>1, <1>4 DEF AddRequest, Candidate
  <2> QED BY <1>1, <1>2, <1>4, <2>1, AddUndoExact, NextUndoIsEnd, UndoLinear
<1>5. CASE type = "REDO"
  <2>1. d = AddRedo(l, r, n) /\ Candidate(l, type) = l.next_redo
    BY <1>1, <1>5 DEF AddRequest, Candidate
  <2> QED BY <1>1, <1>2, <1>5, <2>1, AddRedoExact, NextRedoIsEnd, RedoLinear
<1> QED BY <1>3, <1>4, <1>5 DEF RequestTypes

\* It holds initially, and every operation of the log keeps it.
THEOREM HistoryInvariance == Spec => []HistoryInv
<1>1. Init => PointersExact(log) /\ LinearLog(log)
  <2>1. GoodLog(EmptyLog(0)) /\ IsEmpty(EmptyLog(0))
    BY EmptyGood DEF EmptyLog, IsEmpty
  <2> QED BY <2>1, NoEntriesExact, NoEntriesLinear DEF Init, GoodLog
<1>2. HistoryInv /\ [Next]_log => (PointersExact(log) /\ LinearLog(log))'
  <2> SUFFICES ASSUME HistoryInv, [Next]_log
               PROVE  PointersExact(log') /\ LinearLog(log')
    BY DEF PointersExact, LinearLog, WalkFinds, FreeUpTo, Found, OriginalsOK, OneEnd,
           EndsUncovered, EndsInOrder, DoneEnds, UndoneEnds, ChainEnds, Changes,
           Uncovered, Numbers, TypeOf, StopsAt, IsGreatest
  <2>1. GoodLog(log) /\ PointersExact(log) /\ LinearLog(log)
    BY DEF HistoryInv, IInv
  <2>2. CASE AddDoRequest
    BY <2>1, <2>2, MaxEndAssumption, AddKeeps DEF AddDoRequest, Add, RequestTypes
  <2>3. CASE AddUndoRequest
    BY <2>1, <2>3, MaxEndAssumption, AddKeeps DEF AddUndoRequest, Add, RequestTypes
  <2>4. CASE AddRedoRequest
    BY <2>1, <2>4, MaxEndAssumption, AddKeeps DEF AddRedoRequest, Add, RequestTypes
  <2>5. CASE Remove
    BY <2>1, <2>5, RemoveExact, RemoveLinear DEF Remove
  <2>6. CASE Restart
    <3>1. PICK n \in 0 .. MaxEnd : IsEmpty(log) /\ log' = SetBegin(log, n)
      BY <2>6 DEF Restart
    <3>2. GoodLog(log') /\ n \in Nat
      BY <2>1, <3>1, MaxEndAssumption, SetBeginGood
    <3>3. IsEmpty(log')
      BY <3>1 DEF SetBegin, IsEmpty
    <3> QED BY <3>2, <3>3, NoEntriesExact, NoEntriesLinear DEF GoodLog
  <2>7. CASE UNCHANGED log
    BY <2>1, <2>7
  <2> QED BY <2>2, <2>3, <2>4, <2>5, <2>6, <2>7 DEF Next
<1> QED BY <1>1, <1>2, Invariance, PTL DEF Spec, HistoryInv

\* At any time next_undo and next_redo are what find_associated's loop would
\* find in the log as it is, and from a place where the log can be cut
\* upper_related leads to the next one.
THEOREM LogExactAlways == Spec => []LogExact
<1>1. HistoryInv => LogExact
  <2> SUFFICES ASSUME HistoryInv PROVE CachesExact /\ CutsAtChains
    BY DEF LogExact
  <2>1. GoodLog(log) /\ PointersExact(log)
    BY DEF HistoryInv, IInv
  <2>2. CachesExact
    BY <2>1, WalkFound DEF CachesExact, GoodLog, PointersExact
  <2>3. CutsAtChains
    BY <2>1, CutsFound DEF CutsAtChains
  <2> QED BY <2>2, <2>3
<1> QED BY <1>1, HistoryInvariance, PTL

------------------------------------------------------------------------------
(* The log implements the linear undo history. *)

\* Steps of the abstract history, from the sets before and after.
DoStep(u, r, v, s) == \E n \in 0 .. MaxEnd :
  (\A m \in u \cup r : m < n) /\ v = u \cup {n} /\ s = {}
UndoStep(u, r, v, s) == \E n \in u :
  (\A m \in u : m <= n) /\ v = u \ {n} /\ s = r \cup {n}
RedoStep(u, r, v, s) == \E n \in r :
  (\A m \in r : n <= m) /\ v = u \cup {n} /\ s = r \ {n}
ForgetStep(u, r, v, s) == \E up_to \in 0 .. MaxEnd :
  v = {n \in u : n >= up_to} /\ s = {n \in r : n >= up_to} /\ s \in {r, {}}

\* A new change is done in the history.
LEMMA DoRefines ==
  ASSUME NEW l, GoodLog(l), PointersExact(l), LinearLog(l),
         NEW n \in 0 .. (MaxEnd - 1), CanAdd(l, n),
         NEW d, d = AddRequest(l, [type |-> "DO"], n)
  PROVE  DoStep(UndoableChanges(l), RedoableChanges(l),
                UndoableChanges(d), RedoableChanges(d))
<1>1. Extended(d, l, n, "DO", None) /\ n \in Nat /\ n \in 0 .. MaxEnd
  BY AddExtends, MaxEndAssumption DEF RequestTypes, Candidate
<1>2. /\ LinearLog(d) /\ DoneEnds(d) = DoneEnds(l) \cup {n} /\ UndoneEnds(d) = {}
  BY <1>1, DoLinear
<1>3. /\ d.original[n] = n
      /\ \A m \in Numbers(l) : d.original[m] = l.original[m] /\ m < n
      /\ DoneEnds(l) \subseteq Numbers(l)
      /\ \A k \in Changes(l) : k \in Numbers(l)
  BY <1>1 DEF Extended, DoneEnds, ChainEnds, Changes
<1>4. /\ UndoableChanges(l) \subseteq Changes(l) /\ RedoableChanges(l) \subseteq Changes(l)
  BY DEF UndoableChanges, RedoableChanges
<1>5. RedoableChanges(d) = {}
  BY <1>2, HistoryOfEnds
<1>6. UndoableChanges(d) = UndoableChanges(l) \cup {n}
  BY <1>2, <1>3, HistoryOfEnds
<1> QED BY <1>1, <1>3, <1>4, <1>5, <1>6 DEF DoStep

\* An undo takes back the newest change in effect.
LEMMA UndoRefines ==
  ASSUME NEW l, GoodLog(l), PointersExact(l), LinearLog(l), l.next_undo # None,
         NEW n \in Nat, CanAdd(l, n),
         NEW d, d = AddRequest(l, [type |-> "UNDO"], n)
  PROVE  UndoStep(UndoableChanges(l), RedoableChanges(l),
                  UndoableChanges(d), RedoableChanges(d))
<1> DEFINE p == l.next_undo
           c == l.original[p]
<1>1. Extended(d, l, n, "UNDO", p)
  BY AddExtends DEF RequestTypes, Candidate
<1>2. p \in DoneEnds(l) /\ \A k \in DoneEnds(l) : k <= p
  BY NextUndoIsEnd
<1> HIDE DEF p
<1>3. /\ LinearLog(d) /\ DoneEnds(d) = DoneEnds(l) \ {p}
      /\ UndoneEnds(d) = UndoneEnds(l) \cup {n}
      /\ \A k \in DoneEnds(l) : l.original[k] <= l.original[p]
  BY <1>1, <1>2, UndoLinear
<1>4. /\ d.original[n] = c
      /\ \A m \in Numbers(l) : d.original[m] = l.original[m]
      /\ DoneEnds(l) \subseteq ChainEnds(l) /\ UndoneEnds(l) \subseteq ChainEnds(l)
      /\ ChainEnds(l) \subseteq Numbers(l)
  <2>1. /\ DoneEnds(l) \subseteq ChainEnds(l) /\ UndoneEnds(l) \subseteq ChainEnds(l)
        /\ ChainEnds(l) \subseteq Numbers(l)
    BY DEF DoneEnds, UndoneEnds, ChainEnds
  <2>2. p # None
    BY <1>2, <2>1, <1>1 DEF Extended, None
  <2> QED BY <1>1, <2>1, <2>2 DEF Extended
<1>5. \A k \in DoneEnds(l) : l.original[k] = c => k = p
  BY <1>2, <1>4 DEF LinearLog, OneEnd
<1>6. UndoableChanges(d) = UndoableChanges(l) \ {c}
  BY <1>2, <1>3, <1>4, <1>5, HistoryOfEnds
<1>7. RedoableChanges(d) = RedoableChanges(l) \cup {c}
  BY <1>3, <1>4, HistoryOfEnds
<1>8. c \in UndoableChanges(l) /\ \A m \in UndoableChanges(l) : m <= c
  BY <1>2, <1>3, HistoryOfEnds
<1> QED BY <1>6, <1>7, <1>8 DEF UndoStep

\* A redo brings back the oldest change that was taken back.
LEMMA RedoRefines ==
  ASSUME NEW l, GoodLog(l), PointersExact(l), LinearLog(l), l.next_redo # None,
         NEW n \in Nat, CanAdd(l, n),
         NEW d, d = AddRequest(l, [type |-> "REDO"], n)
  PROVE  RedoStep(UndoableChanges(l), RedoableChanges(l),
                  UndoableChanges(d), RedoableChanges(d))
<1> DEFINE p == l.next_redo
           c == l.original[p]
<1>1. Extended(d, l, n, "REDO", p)
  BY AddExtends DEF RequestTypes, Candidate
<1>2. p \in UndoneEnds(l) /\ \A k \in UndoneEnds(l) : k <= p
  BY NextRedoIsEnd
<1> HIDE DEF p
<1>3. /\ LinearLog(d) /\ DoneEnds(d) = DoneEnds(l) \cup {n}
      /\ UndoneEnds(d) = UndoneEnds(l) \ {p}
      /\ \A k \in UndoneEnds(l) : l.original[p] <= l.original[k]
  BY <1>1, <1>2, RedoLinear
<1>4. /\ d.original[n] = c
      /\ \A m \in Numbers(l) : d.original[m] = l.original[m]
      /\ DoneEnds(l) \subseteq ChainEnds(l) /\ UndoneEnds(l) \subseteq ChainEnds(l)
      /\ ChainEnds(l) \subseteq Numbers(l)
  <2>1. /\ DoneEnds(l) \subseteq ChainEnds(l) /\ UndoneEnds(l) \subseteq ChainEnds(l)
        /\ ChainEnds(l) \subseteq Numbers(l)
    BY DEF DoneEnds, UndoneEnds, ChainEnds
  <2>2. p # None
    BY <1>2, <2>1, <1>1 DEF Extended, None
  <2> QED BY <1>1, <2>1, <2>2 DEF Extended
<1>5. \A k \in UndoneEnds(l) : l.original[k] = c => k = p
  BY <1>2, <1>4 DEF LinearLog, OneEnd
<1>6. UndoableChanges(d) = UndoableChanges(l) \cup {c}
  BY <1>3, <1>4, HistoryOfEnds
<1>7. RedoableChanges(d) = RedoableChanges(l) \ {c}
  BY <1>2, <1>3, <1>4, <1>5, HistoryOfEnds
<1>8. c \in RedoableChanges(l) /\ \A m \in RedoableChanges(l) : c <= m
  BY <1>2, <1>3, HistoryOfEnds
<1> QED BY <1>6, <1>7, <1>8 DEF RedoStep

\* Of what can be redone, all or nothing is forgotten: the chain of an older
\* change ends after those of newer ones.
LEMMA ForgetRefines ==
  ASSUME NEW l, GoodLog(l), LinearLog(l), l.end <= MaxEnd,
         NEW up_to, CanRemove(l, up_to), NEW d, d = RemoveRequests(l, up_to)
  PROVE  ForgetStep(UndoableChanges(l), RedoableChanges(l),
                    UndoableChanges(d), RedoableChanges(d))
<1>1. /\ LinearLog(d)
      /\ d.original = [k \in Numbers(d) |-> l.original[k]]
      /\ DoneEnds(d) = {k \in DoneEnds(l) : k >= up_to}
      /\ UndoneEnds(d) = {k \in UndoneEnds(l) : k >= up_to}
      /\ \A k \in Numbers(l) : k >= up_to <=> l.original[k] >= up_to
  BY RemoveLinear
<1>2. /\ DoneEnds(l) \subseteq Numbers(l) /\ UndoneEnds(l) \subseteq Numbers(l)
      /\ DoneEnds(d) \subseteq Numbers(d) /\ UndoneEnds(d) \subseteq Numbers(d)
  BY DEF DoneEnds, UndoneEnds, ChainEnds
<1>3. up_to \in Nat /\ up_to \in 0 .. MaxEnd /\ Numbers(l) \subseteq Nat
  BY MaxEndAssumption DEF CanRemove, GoodLog, LogType, Numbers
<1>4. \A k \in Numbers(l) : l.original[k] \in Nat /\ l.original[k] <= k
  BY <1>3 DEF LinearLog, OriginalsOK, Changes
<1>5. UndoableChanges(d) = {n \in UndoableChanges(l) : n >= up_to}
  BY <1>1, <1>2, HistoryOfEnds
<1>6. RedoableChanges(d) = {n \in RedoableChanges(l) : n >= up_to}
  BY <1>1, <1>2, HistoryOfEnds
<1>7. RedoableChanges(d) \in {RedoableChanges(l), {}}
  <2> SUFFICES ASSUME NEW j \in UndoneEnds(l), j < up_to,
                      NEW k \in UndoneEnds(l), k >= up_to
               PROVE  FALSE
    <3>1. \A k \in UndoneEnds(l) : k < up_to \/ k >= up_to
      BY <1>2, <1>3
    <3>2. UndoneEnds(d) = UndoneEnds(l) \/ UndoneEnds(d) = {}
      BY <1>1, <3>1
    <3>3. CASE UndoneEnds(d) = {}
      BY <1>1, <3>3, HistoryOfEnds
    <3>4. CASE UndoneEnds(d) = UndoneEnds(l)
      <4>1. \A k \in UndoneEnds(d) : d.original[k] = l.original[k]
        BY <1>1, <1>2
      <4>2. RedoableChanges(d) = {l.original[k] : k \in UndoneEnds(l)}
        BY <1>1, <3>4, <4>1, HistoryOfEnds
      <4> QED BY <4>2, HistoryOfEnds
    <3> QED BY <3>2, <3>3, <3>4
  <2>1. ~(l.original[j] >= up_to) /\ l.original[k] >= up_to
    BY <1>1, <1>2, <1>3
  <2>2. l.original[j] < l.original[k]
    BY <1>2, <1>3, <1>4, <2>1
  <2>3. k < j
    BY <2>2 DEF LinearLog, EndsInOrder
  <2> QED BY <1>2, <1>3, <2>3
<1> QED BY <1>3, <1>5, <1>6, <1>7 DEF ForgetStep

\* Every history of operations on a log, removals included, is a history of the
\* linear undo model: what was undone last is redone first, a new change drops
\* what could be redone, and forgetting drops all of that or nothing.
THEOREM ImplementsHistory == Spec => ImplementsUndoHistory
<1>1. Init => History!Init
  <2>1. GoodLog(EmptyLog(0)) /\ IsEmpty(EmptyLog(0))
    BY EmptyGood DEF EmptyLog, IsEmpty
  <2> QED BY <2>1, NoEntriesLinear DEF Init, GoodLog, History!Init
<1>2. HistoryInv /\ [Next]_log => [History!Next]_(History!history)
  <2> SUFFICES ASSUME HistoryInv, [Next]_log
               PROVE  [History!Next]_(History!history)
    OBVIOUS
  <2> DEFINE u == UndoableChanges(log)
             r == RedoableChanges(log)
             v == UndoableChanges(log')
             s == RedoableChanges(log')
  <2>1. u' = v /\ r' = s
    BY DEF UndoableChanges, RedoableChanges, Changes, EndsWith, Numbers, TypeOf
  <2>2. GoodLog(log) /\ PointersExact(log) /\ LinearLog(log) /\ log.end <= MaxEnd
    BY DEF HistoryInv, IInv
  <2>3. ASSUME DoStep(u, r, v, s) PROVE History!Next
    BY <2>1, <2>3 DEF DoStep, History!Next, History!Do
  <2>4. ASSUME UndoStep(u, r, v, s) PROVE History!Next
    BY <2>1, <2>4 DEF UndoStep, History!Next, History!Undo, History!IsNewest
  <2>5. ASSUME RedoStep(u, r, v, s) PROVE History!Next
    BY <2>1, <2>5 DEF RedoStep, History!Next, History!Redo, History!IsOldest
  <2>6. ASSUME ForgetStep(u, r, v, s) PROVE History!Next
    BY <2>1, <2>6 DEF ForgetStep, History!Next, History!Forget
  <2> HIDE DEF u, r, v, s
  <2>7. CASE AddDoRequest
    <3>1. DoStep(u, r, v, s)
      BY <2>2, <2>7, DoRefines DEF AddDoRequest, Add, u, r, v, s
    <3> QED BY <2>3, <3>1
  <2>8. CASE AddUndoRequest
    <3>1. UndoStep(u, r, v, s)
      BY <2>2, <2>8, MaxEndAssumption, UndoRefines DEF AddUndoRequest, Add, u, r, v, s
    <3> QED BY <2>4, <3>1
  <2>9. CASE AddRedoRequest
    <3>1. RedoStep(u, r, v, s)
      BY <2>2, <2>9, MaxEndAssumption, RedoRefines DEF AddRedoRequest, Add, u, r, v, s
    <3> QED BY <2>5, <3>1
  <2>10. CASE Remove
    <3>1. ForgetStep(u, r, v, s)
      BY <2>2, <2>10, ForgetRefines DEF Remove, u, r, v, s
    <3> QED BY <2>6, <3>1
  <2>11. CASE Restart
    <3>1. PICK n \in 0 .. MaxEnd : IsEmpty(log) /\ log' = SetBegin(log, n)
      BY <2>11 DEF Restart
    <3>2. LogType(log) /\ LogType(log') /\ IsEmpty(log')
      BY <2>2, <3>1, MaxEndAssumption, SetBeginGood DEF GoodLog, SetBegin, IsEmpty
    <3>3. u = {} /\ r = {} /\ v = {} /\ s = {}
      BY <3>1, <3>2, NoEntriesLinear DEF u, r, v, s
    <3> QED BY <2>1, <3>3 DEF History!history, u, r
  <2>12. CASE UNCHANGED log
    <3>1. v = u /\ s = r
      BY <2>12 DEF u, r, v, s
    <3> QED BY <2>1, <3>1 DEF History!history, u, r
  <2> QED BY <2>7, <2>8, <2>9, <2>10, <2>11, <2>12 DEF Next
<1> QED BY <1>1, <1>2, HistoryInvariance, PTL DEF Spec, ImplementsUndoHistory, History!Spec
==============================================================================
