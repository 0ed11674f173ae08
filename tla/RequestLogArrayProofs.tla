------------------------ MODULE RequestLogArrayProofs ------------------------
(***************************************************************************)
(* For any step in which the array grows, and wherever the allocator puts  *)
(* it, RequestLogArray implements RequestLog: what the cells and pointers  *)
(* stand for is a log, which changes as RequestLog says, and not at all    *)
(* when the cells are moved to make room.                                  *)
(***************************************************************************)
EXTENDS RequestLogProofs

CONSTANTS Inc, Addresses
VARIABLE a

A == INSTANCE RequestLogArray

------------------------------------------------------------------------------
(* The inductive invariant, on a value of the structure. *)

\* What a pointer may be: NULL, or an entry that is in use.
Targets(s) == {A!Null} \cup {A!Ptr(s.entries, i) : i \in A!UsedCells(s)}

Entries(s) ==
  [type : RequestTypes, original : Targets(s), prev : Targets(s), next : Targets(s)]

\* The entries lie within the array and point to each other.
Sound(s) ==
  /\ s.begin \in Nat /\ s.end \in Nat /\ s.begin <= s.end
  /\ s.offset \in Nat /\ s.alloc \in Nat /\ s.offset + A!Count(s) <= s.alloc
  /\ DOMAIN s.cell = A!CellsOf(s)
  /\ \A i \in A!UsedCells(s) : s.cell[i] \in Entries(s)
  /\ s.next_undo \in Targets(s) /\ s.next_redo \in Targets(s)

\* The number of the request that a pointer, or a cell, stands for; and the log that
\* the structure stands for.
Number(s, p) ==
  IF p = A!Null THEN -1
  ELSE IF p.at = s.entries THEN s.begin + (p.index - s.offset) ELSE -2

At(s, n) == s.cell[s.offset + (n - s.begin)]

LogOf(s) ==
  [begin     |-> s.begin,
   end       |-> s.end,
   request   |-> [n \in s.begin .. (s.end - 1) |-> [type |-> At(s, n).type]],
   original  |-> [n \in s.begin .. (s.end - 1) |-> Number(s, At(s, n).original)],
   prev      |-> [n \in s.begin .. (s.end - 1) |-> Number(s, At(s, n).prev)],
   next      |-> [n \in s.begin .. (s.end - 1) |-> Number(s, At(s, n).next)],
   next_undo |-> Number(s, s.next_undo),
   next_redo |-> Number(s, s.next_redo)]

\* The structure has the fields of InfAdoptedRequestLogPrivate.
Structures(s) ==
  s = [entries |-> s.entries, alloc |-> s.alloc, offset |-> s.offset, begin |-> s.begin,
       end |-> s.end, cell |-> s.cell, next_undo |-> s.next_undo, next_redo |-> s.next_redo]

ArrayInv == Structures(a) /\ Sound(a) /\ GoodLog(LogOf(a))

------------------------------------------------------------------------------
(* Pointers and numbers *)

\* Cells that are in use and requests that are stored are in order.
LEMMA CellOfNumber ==
  ASSUME NEW s, Sound(s), NEW n \in s.begin .. (s.end - 1)
  PROVE  /\ s.offset + (n - s.begin) \in A!UsedCells(s)
         /\ At(s, n) \in Entries(s)
<1>1. s.offset + (n - s.begin) \in A!UsedCells(s)
  BY DEF Sound, A!UsedCells, A!Count
<1> QED BY <1>1 DEF Sound, At

\* A pointer stands for NULL, or for the request whose cell it points to.
LEMMA NumberOfTarget ==
  ASSUME NEW s, Sound(s), NEW p \in Targets(s)
  PROVE  \/ p = A!Null /\ Number(s, p) = None
         \/ /\ p # A!Null /\ p.index \in A!UsedCells(s) /\ p = A!Ptr(s.entries, p.index)
            /\ Number(s, p) = s.begin + (p.index - s.offset)
            /\ Number(s, p) \in s.begin .. (s.end - 1) /\ Number(s, p) # None
            /\ s.offset + (Number(s, p) - s.begin) = p.index
<1>1. CASE p = A!Null
  BY <1>1 DEF Number, None
<1>2. CASE p # A!Null
  <2>1. PICK i \in A!UsedCells(s) : p = A!Ptr(s.entries, i)
    BY <1>2 DEF Targets
  <2>2. p.index = i
    BY <2>1 DEF A!Ptr
  <2>3. Number(s, p) = s.begin + (p.index - s.offset)
    BY <1>2, <2>1, <2>2 DEF Number, A!Ptr
  <2>4. i \in Int /\ s.offset <= i /\ i <= s.offset + (s.end - s.begin) - 1
        /\ s.offset \in Nat /\ s.begin \in Nat /\ s.end \in Nat
    BY DEF Sound, A!UsedCells, A!Count
  <2> QED BY <1>2, <2>1, <2>2, <2>3, <2>4 DEF None
<1> QED BY <1>1, <1>2

\* Different pointers stand for different numbers.
LEMMA NumberInjective ==
  ASSUME NEW s, Sound(s), NEW p \in Targets(s), NEW q \in Targets(s),
         Number(s, p) = Number(s, q)
  PROVE  p = q
<1>1. \A t \in Targets(s) :
         \/ t = A!Null /\ Number(s, t) = None
         \/ /\ t = A!Ptr(s.entries, t.index) /\ Number(s, t) # None
            /\ s.offset + (Number(s, t) - s.begin) = t.index
  BY NumberOfTarget
<1> QED BY <1>1

\* The fields of the log, one by one.
LEMMA LogFields ==
  ASSUME NEW s
  PROVE  /\ LogOf(s).begin = s.begin /\ LogOf(s).end = s.end
         /\ Numbers(LogOf(s)) = s.begin .. (s.end - 1)
         /\ \A n \in s.begin .. (s.end - 1) :
              /\ LogOf(s).request[n] = [type |-> At(s, n).type]
              /\ TypeOf(LogOf(s), n) = At(s, n).type
              /\ LogOf(s).original[n] = Number(s, At(s, n).original)
              /\ LogOf(s).prev[n] = Number(s, At(s, n).prev)
              /\ LogOf(s).next[n] = Number(s, At(s, n).next)
         /\ LogOf(s).next_undo = Number(s, s.next_undo)
         /\ LogOf(s).next_redo = Number(s, s.next_redo)
BY DEF LogOf, Numbers, TypeOf

------------------------------------------------------------------------------
(* Making room *)

\* r is s with its entries at another place: cell i of s is cell i - by of r, and the
\* pointers have moved along.
Moved(r, s, by) ==
  /\ by \in 0 .. s.offset /\ r.begin = s.begin /\ r.end = s.end /\ r.offset = s.offset - by
  /\ \A i \in A!UsedCells(s) : r.cell[i - by] = A!AdjustEntry(s.cell[i], r.entries, by)
  /\ r.next_undo = A!Adjust(s.next_undo, r.entries, by)
  /\ r.next_redo = A!Adjust(s.next_redo, r.entries, by)

\* A pointer that moved along stands for the same request.
LEMMA AdjustKeepsNumber ==
  ASSUME NEW s, Sound(s), NEW r, NEW by, Moved(r, s, by), NEW p \in Targets(s)
  PROVE  /\ A!Adjust(p, r.entries, by) \in Targets(r)
         /\ Number(r, A!Adjust(p, r.entries, by)) = Number(s, p)
<1> DEFINE q == A!Adjust(p, r.entries, by)
<1>1. /\ s.begin \in Nat /\ s.end \in Nat /\ s.offset \in Nat
      /\ by \in Int /\ by <= s.offset
      /\ r.begin = s.begin /\ r.end = s.end /\ r.offset = s.offset - by
  BY DEF Sound, Moved
<1>2. CASE p = A!Null
  <2>1. q = A!Null
    BY <1>2 DEF A!Adjust
  <2> QED BY <1>2, <2>1 DEF Targets, Number
<1>3. CASE p # A!Null
  <2>1. /\ p.index \in A!UsedCells(s) /\ p.index \in Int
        /\ Number(s, p) = s.begin + (p.index - s.offset)
        /\ q = A!Ptr(r.entries, p.index - by)
    BY <1>3, NumberOfTarget DEF A!Adjust, A!UsedCells
  <2>2. p.index - by \in A!UsedCells(r)
    BY <1>1, <2>1 DEF A!UsedCells, A!Count
  <2>3. q \in Targets(r) /\ q.index = p.index - by
    BY <2>1, <2>2 DEF Targets, A!Ptr
  <2>4. q # A!Null
    <3>1. p.index - by # -1
      BY <1>1, <2>1 DEF A!UsedCells
    <3> QED BY <2>1, <3>1 DEF A!Ptr, A!Null
  <2> HIDE DEF q
  <2>5. Number(r, q) = r.begin + (q.index - r.offset)
    BY <2>1, <2>3, <2>4 DEF Number, A!Ptr
  <2> QED BY <1>1, <2>1, <2>3, <2>5 DEF q
<1> QED BY <1>2, <1>3

\* Entries that moved along are as sound, and the same log, if there is room for them.
LEMMA MovedSame ==
  ASSUME NEW s, Sound(s), NEW r, NEW by, Moved(r, s, by),
         r.alloc \in Nat, r.offset + A!Count(s) <= r.alloc, DOMAIN r.cell = A!CellsOf(r)
  PROVE  Sound(r) /\ LogOf(r) = LogOf(s)
<1>1. /\ s.begin \in Nat /\ s.end \in Nat /\ s.offset \in Nat /\ s.begin <= s.end
      /\ by \in Int /\ by <= s.offset
      /\ r.begin = s.begin /\ r.end = s.end /\ r.offset = s.offset - by /\ r.offset \in Nat
  BY DEF Sound, Moved
<1>2. A!Count(r) = A!Count(s)
  BY <1>1 DEF A!Count
<1>3. ASSUME NEW i \in A!UsedCells(s)
      PROVE  /\ r.cell[i - by].type = s.cell[i].type
             /\ r.cell[i - by].original = A!Adjust(s.cell[i].original, r.entries, by)
             /\ r.cell[i - by].prev = A!Adjust(s.cell[i].prev, r.entries, by)
             /\ r.cell[i - by].next = A!Adjust(s.cell[i].next, r.entries, by)
             /\ r.cell[i - by] \in Entries(r)
  <2> DEFINE e == s.cell[i]
             f == A!AdjustEntry(e, r.entries, by)
  <2>1. r.cell[i - by] = f
    BY <1>3 DEF Moved
  <2>2. e \in Entries(s)
    BY <1>3 DEF Sound
  <2> HIDE DEF e
  <2>3. /\ f.type = e.type /\ f.original = A!Adjust(e.original, r.entries, by)
        /\ f.prev = A!Adjust(e.prev, r.entries, by)
        /\ f.next = A!Adjust(e.next, r.entries, by)
        /\ f = [type |-> f.type, original |-> f.original, prev |-> f.prev, next |-> f.next]
    BY DEF A!AdjustEntry
  <2>4. e.type \in RequestTypes /\ e.original \in Targets(s) /\ e.prev \in Targets(s)
        /\ e.next \in Targets(s)
    BY <2>2 DEF Entries
  <2>5. /\ A!Adjust(e.original, r.entries, by) \in Targets(r)
        /\ A!Adjust(e.prev, r.entries, by) \in Targets(r)
        /\ A!Adjust(e.next, r.entries, by) \in Targets(r)
    BY <2>4, AdjustKeepsNumber
  <2> HIDE DEF f
  <2>6. f \in Entries(r)
    BY <2>3, <2>4, <2>5 DEF Entries
  <2> QED BY <2>1, <2>3, <2>6 DEF e
<1>4. \A i \in A!UsedCells(r) : i + by \in A!UsedCells(s) /\ (i + by) - by = i
  BY <1>1, <1>2 DEF A!UsedCells, A!Count
<1>5. /\ r.next_undo \in Targets(r) /\ Number(r, r.next_undo) = Number(s, s.next_undo)
      /\ r.next_redo \in Targets(r) /\ Number(r, r.next_redo) = Number(s, s.next_redo)
  <2>1. /\ s.next_undo \in Targets(s) /\ s.next_redo \in Targets(s)
        /\ r.next_undo = A!Adjust(s.next_undo, r.entries, by)
        /\ r.next_redo = A!Adjust(s.next_redo, r.entries, by)
    BY DEF Moved, Sound
  <2> QED BY <2>1, AdjustKeepsNumber
<1>6. Sound(r)
  BY <1>1, <1>2, <1>3, <1>4, <1>5 DEF Sound
<1>7. ASSUME NEW n \in s.begin .. (s.end - 1)
      PROVE  /\ At(r, n).type = At(s, n).type
             /\ Number(r, At(r, n).original) = Number(s, At(s, n).original)
             /\ Number(r, At(r, n).prev) = Number(s, At(s, n).prev)
             /\ Number(r, At(r, n).next) = Number(s, At(s, n).next)
  <2> DEFINE i == s.offset + (n - s.begin)
  <2>1. i \in A!UsedCells(s) /\ At(s, n) = s.cell[i] /\ s.cell[i] \in Entries(s)
    BY CellOfNumber DEF At
  <2>2. At(r, n) = r.cell[i - by]
    BY <1>1 DEF At
  <2> HIDE DEF i
  <2>3. /\ s.cell[i].original \in Targets(s) /\ s.cell[i].prev \in Targets(s)
        /\ s.cell[i].next \in Targets(s)
    BY <2>1 DEF Entries
  <2> QED BY <1>3, <2>1, <2>2, <2>3, AdjustKeepsNumber
<1>8. LogOf(r) = LogOf(s)
  BY <1>1, <1>5, <1>7 DEF LogOf
<1> QED BY <1>6, <1>8

\* Moving the cells to the start of the array, or enlarging it wherever it may be then,
\* changes nothing for the log, and leaves room for one entry more.
LEMMA RoomIsMade ==
  ASSUME NEW s, Structures(s), Sound(s), Inc \in Nat \ {0}, NEW at, NEW r,
         r = A!MadeRoom(s, at)
  PROVE  /\ Structures(r) /\ Sound(r) /\ LogOf(r) = LogOf(s)
         /\ r.begin = s.begin /\ r.end = s.end
         /\ r.offset + A!Count(r) < r.alloc
<1>1. /\ s.begin \in Nat /\ s.end \in Nat /\ s.offset \in Nat /\ s.alloc \in Nat
      /\ s.begin <= s.end /\ s.offset + A!Count(s) <= s.alloc
      /\ A!Count(s) = s.end - s.begin
  BY DEF Sound, A!Count
<1>2. CASE ~A!Full(s)
  <2>1. r = s /\ s.offset + A!Count(s) # s.alloc
    BY <1>2 DEF A!MadeRoom, A!Full
  <2> QED BY <1>1, <2>1
<1>3. CASE A!Full(s) /\ s.offset > 0
  <2>1. /\ r.begin = s.begin /\ r.end = s.end /\ r.offset = 0 /\ r.alloc = s.alloc
        /\ r.entries = s.entries
        /\ r.cell = [i \in A!CellsOf(s) |->
                       IF i < A!Count(s)
                       THEN A!AdjustEntry(s.cell[i + s.offset], s.entries, s.offset)
                       ELSE A!Junk]
        /\ r.next_undo = A!Adjust(s.next_undo, s.entries, s.offset)
        /\ r.next_redo = A!Adjust(s.next_redo, s.entries, s.offset)
        /\ Structures(r)
    BY <1>3 DEF A!MadeRoom, A!Compact, Structures
  <2>2. \A i \in A!UsedCells(s) : /\ i - s.offset \in A!CellsOf(s)
                                  /\ i - s.offset < A!Count(s)
                                  /\ (i - s.offset) + s.offset = i
    BY <1>1, <1>3 DEF A!UsedCells, A!CellsOf
  <2>3. Moved(r, s, s.offset)
    BY <1>1, <2>1, <2>2 DEF Moved
  <2>4. /\ r.alloc \in Nat /\ r.offset + A!Count(s) <= r.alloc
        /\ r.offset + A!Count(s) < r.alloc /\ A!Count(r) = A!Count(s)
        /\ DOMAIN r.cell = A!CellsOf(r)
    BY <1>1, <1>3, <2>1 DEF A!CellsOf, A!Full, A!Count
  <2> QED BY <2>1, <2>3, <2>4, MovedSame
<1>4. CASE A!Full(s) /\ ~(s.offset > 0)
  <2>1. /\ r.begin = s.begin /\ r.end = s.end /\ r.offset = s.offset
        /\ r.alloc = s.alloc + Inc /\ r.entries = at
        /\ r.cell = [i \in 0 .. (s.alloc + Inc - 1) |->
                       IF i < s.alloc THEN A!AdjustEntry(s.cell[i], at, 0) ELSE A!Junk]
        /\ r.next_undo = A!Adjust(s.next_undo, at, 0)
        /\ r.next_redo = A!Adjust(s.next_redo, at, 0)
        /\ Structures(r)
    BY <1>4 DEF A!MadeRoom, A!Enlarge, Structures
  <2>2. \A i \in A!UsedCells(s) : i - 0 = i /\ i < s.alloc /\ i \in 0 .. (s.alloc + Inc - 1)
    BY <1>1 DEF A!UsedCells
  <2>3. Moved(r, s, 0)
    BY <1>1, <2>1, <2>2 DEF Moved
  <2>4. /\ r.alloc \in Nat /\ r.offset + A!Count(s) <= r.alloc
        /\ r.offset + A!Count(s) < r.alloc /\ A!Count(r) = A!Count(s)
        /\ DOMAIN r.cell = A!CellsOf(r)
    <3>1. s.offset + A!Count(s) = s.alloc /\ s.offset = 0
      BY <1>1, <1>4 DEF A!Full
    <3>2. A!Count(r) = A!Count(s)
      BY <2>1 DEF A!Count
    <3>3. DOMAIN r.cell = 0 .. (s.alloc + Inc - 1)
      BY <2>1
    <3> QED BY <1>1, <2>1, <3>1, <3>2, <3>3 DEF A!CellsOf
  <2> QED BY <2>1, <2>3, <2>4, MovedSame
<1> QED BY <1>2, <1>3, <1>4

------------------------------------------------------------------------------
(* Appending an entry *)

\* Behind an entry that is appended and refers to p, everything else stays where it is;
\* what p stands for gets the new entry as its next one.
LEMMA AppendedIsLinked ==
  ASSUME NEW s, Structures(s), Sound(s), s.offset + A!Count(s) < s.alloc,
         NEW n \in Nat, s.begin = s.end \/ n = s.end, NEW type \in RequestTypes,
         NEW p \in Targets(s), NEW k, k = A!Appended(s, n, type, p)
  PROVE  /\ Structures(k) /\ Sound(k) /\ k.begin < k.end /\ k.end = n + 1
         /\ k.next_undo = s.next_undo /\ k.next_redo = s.next_redo
         /\ LogOf(k) = Linked(LogOf(s), [type |-> type], n, Number(s, p))
         /\ A!Newest(k) \in Targets(k) /\ Number(k, A!Newest(k)) = n
<1> DEFINE j == s.offset + A!Count(s)
           b == IF s.begin = s.end THEN n ELSE s.begin
           q == A!Ptr(s.entries, j)
           new == [type |-> type, prev |-> p, next |-> A!Null,
                   original |-> IF p = A!Null THEN q ELSE s.cell[p.index].original]
<1>1. /\ s.begin \in Nat /\ s.end \in Nat /\ s.offset \in Nat /\ s.alloc \in Nat
      /\ s.begin <= s.end /\ A!Count(s) = s.end - s.begin
      /\ b \in Nat /\ b <= n /\ (n + 1) - b = A!Count(s) + 1
      /\ DOMAIN s.cell = A!CellsOf(s)
  BY DEF Sound, A!Count
<1>2. /\ Structures(k) /\ k.begin = b /\ k.end = n + 1 /\ k.offset = s.offset
      /\ k.alloc = s.alloc /\ k.entries = s.entries
      /\ k.next_undo = s.next_undo /\ k.next_redo = s.next_redo
      /\ k.cell = [i \in A!CellsOf(s) |->
                     IF i = j THEN new
                     ELSE IF p # A!Null /\ i = p.index THEN [s.cell[i] EXCEPT !.next = q]
                     ELSE s.cell[i]]
  BY DEF A!Appended, Structures
<1>3. /\ A!Count(k) = A!Count(s) + 1 /\ j \in A!CellsOf(s)
      /\ A!UsedCells(k) = A!UsedCells(s) \cup {j} /\ j \notin A!UsedCells(s)
      /\ A!UsedCells(s) \subseteq A!CellsOf(s)
  <2>1. A!Count(k) = A!Count(s) + 1
    BY <1>1, <1>2 DEF A!Count
  <2>2. /\ A!UsedCells(s) = s.offset .. (j - 1) /\ j \in Nat /\ s.offset <= j
        /\ A!CellsOf(s) = 0 .. (s.alloc - 1) /\ j < s.alloc
    BY <1>1 DEF A!UsedCells, A!CellsOf
  <2>3. A!UsedCells(k) = s.offset .. j
    BY <1>1, <1>2, <2>1 DEF A!UsedCells
  <2> HIDE DEF j
  <2> QED BY <1>1, <2>1, <2>2, <2>3
<1>4. Targets(k) = Targets(s) \cup {q} /\ A!Newest(k) = q
  <2>1. k.offset + A!Count(k) - 1 = j
    BY <1>1, <1>2, <1>3
  <2> QED BY <1>2, <1>3, <2>1 DEF Targets, A!Newest
<1> HIDE DEF new, q, j, b
<1>5. new \in Entries(k)
  <2>1. p # A!Null => p.index \in A!UsedCells(s) /\ s.cell[p.index].original \in Targets(s)
    BY NumberOfTarget DEF Sound, Entries
  <2> QED BY <1>4, <2>1 DEF new, Entries, Targets
<1>6. ASSUME NEW i \in A!UsedCells(s)
      PROVE  /\ k.cell[i] \in Entries(k) /\ k.cell[i].type = s.cell[i].type
             /\ k.cell[i].original = s.cell[i].original /\ k.cell[i].prev = s.cell[i].prev
             /\ k.cell[i].next = IF p # A!Null /\ i = p.index THEN q ELSE s.cell[i].next
  <2>1. s.cell[i] \in Entries(s)
    BY DEF Sound
  <2>2. s.cell[i] \in Entries(k)
    BY <1>4, <2>1 DEF Entries
  <2>3. k.cell[i] = IF p # A!Null /\ i = p.index THEN [s.cell[i] EXCEPT !.next = q]
                    ELSE s.cell[i]
    BY <1>2, <1>3
  <2> QED BY <1>4, <2>2, <2>3 DEF Entries
<1>7. Sound(k)
  <2>1. \A i \in A!UsedCells(k) : k.cell[i] \in Entries(k)
    BY <1>2, <1>3, <1>5, <1>6
  <2>2. k.begin \in Nat /\ k.end \in Nat /\ k.begin <= k.end /\ k.offset \in Nat
        /\ k.alloc \in Nat /\ k.offset + A!Count(k) <= k.alloc
    BY <1>1, <1>2, <1>3
  <2>3. DOMAIN k.cell = A!CellsOf(k)
    BY <1>2 DEF A!CellsOf
  <2> QED BY <1>2, <1>4, <2>1, <2>2, <2>3 DEF Sound
<1>8. \A t \in Targets(s) : Number(k, t) = Number(s, t)
  <2> SUFFICES ASSUME NEW t \in Targets(s), t # A!Null PROVE Number(k, t) = Number(s, t)
    BY DEF Number
  <2>1. t.index \in A!UsedCells(s)
    BY NumberOfTarget
  <2>2. s.begin # s.end
    BY <1>1, <2>1 DEF A!UsedCells
  <2>3. b = s.begin
    BY <2>2 DEF b
  <2> QED BY <1>2, <2>3 DEF Number
<1>9. Number(k, q) = n /\ q # A!Null
  <2>1. q.index = j /\ q.at = s.entries /\ j \in Nat
    BY <1>1 DEF q, A!Ptr, j
  <2>2. q # A!Null
    BY <2>1 DEF A!Null
  <2>3. b + (j - s.offset) = n
    BY <1>1 DEF j
  <2> QED BY <1>2, <2>1, <2>2, <2>3 DEF Number
<1> DEFINE l == LogOf(s)
           d == Linked(l, [type |-> type], n, Number(s, p))
           nums == b .. n
<1>10. /\ l.begin = s.begin /\ l.end = s.end /\ (IsEmpty(l) <=> s.begin = s.end)
       /\ Numbers(l) = s.begin .. (s.end - 1)
  BY LogFields DEF IsEmpty
<1>11. d = [begin |-> b, end |-> n + 1,
            request |-> [m \in nums |-> IF m = n THEN [type |-> type] ELSE l.request[m]],
            original |-> [m \in nums |->
               IF m < n THEN l.original[m]
               ELSE IF Number(s, p) = None THEN n ELSE l.original[Number(s, p)]],
            prev |-> [m \in nums |-> IF m = n THEN Number(s, p) ELSE l.prev[m]],
            next |-> [m \in nums |-> IF m = n THEN None
                                     ELSE IF m = Number(s, p) THEN n ELSE l.next[m]],
            next_undo |-> l.next_undo, next_redo |-> l.next_redo]
  <2>1. b = IF IsEmpty(l) THEN n ELSE l.begin
    <3> HIDE DEF l
    <3> QED BY <1>10 DEF b
  <2> HIDE DEF l
  <2> QED BY <2>1 DEF Linked
<1> HIDE DEF d
<1>12. At(k, n) = new
  <2>1. k.offset + (n - b) = j
    BY <1>1, <1>2 DEF j
  <2>2. At(k, n) = k.cell[j]
    BY <1>2, <2>1 DEF At
  <2> QED BY <1>2, <1>3, <2>2
<1>13. Number(k, new.original) = IF Number(s, p) = None THEN n ELSE l.original[Number(s, p)]
  <2>1. CASE p = A!Null
    <3>1. new.original = q /\ Number(s, p) = None
      BY <2>1 DEF new, Number, None
    <3> QED BY <1>9, <3>1
  <2>2. CASE p # A!Null
    <3>1. /\ Number(s, p) \in s.begin .. (s.end - 1) /\ Number(s, p) # None
          /\ s.offset + (Number(s, p) - s.begin) = p.index
          /\ p.index \in A!UsedCells(s)
      BY <2>2, NumberOfTarget
    <3>2. At(s, Number(s, p)) = s.cell[p.index]
      BY <3>1 DEF At
    <3>3. l.original[Number(s, p)] = Number(s, s.cell[p.index].original)
      BY <3>1, <3>2, LogFields
    <3>4. s.cell[p.index].original \in Targets(s)
      BY <3>1 DEF Sound, Entries
    <3>5. new.original = s.cell[p.index].original
      BY <2>2 DEF new
    <3> QED BY <1>8, <3>1, <3>3, <3>4, <3>5
  <2> QED BY <2>1, <2>2
<1>14. ASSUME NEW m \in nums, m # n
       PROVE  /\ At(k, m).type = l.request[m].type
              /\ l.request[m] = [type |-> At(k, m).type]
              /\ Number(k, At(k, m).original) = l.original[m]
              /\ Number(k, At(k, m).prev) = l.prev[m]
              /\ Number(k, At(k, m).next) = IF m = Number(s, p) THEN n ELSE l.next[m]
  <2>1. s.begin # s.end /\ b = s.begin /\ m \in s.begin .. (s.end - 1)
    BY <1>1, <1>14 DEF b
  <2> DEFINE i == s.offset + (m - s.begin)
  <2>2. i \in A!UsedCells(s) /\ At(s, m) = s.cell[i] /\ s.cell[i] \in Entries(s)
    BY <2>1, CellOfNumber DEF At
  <2>3. At(k, m) = k.cell[i]
    BY <1>2, <2>1 DEF At
  <2>4. /\ l.request[m] = [type |-> s.cell[i].type]
        /\ l.original[m] = Number(s, s.cell[i].original)
        /\ l.prev[m] = Number(s, s.cell[i].prev)
        /\ l.next[m] = Number(s, s.cell[i].next)
    BY <2>1, <2>2, LogFields
  <2>5. (p # A!Null /\ i = p.index) <=> m = Number(s, p)
    <3>1. CASE p = A!Null
      <4>1. Number(s, p) = None /\ m \in Nat
        BY <1>1, <2>1, <3>1 DEF Number, None
      <4> QED BY <3>1, <4>1 DEF None
    <3>2. CASE p # A!Null
      <4>1. /\ Number(s, p) \in Int /\ p.index = s.offset + (Number(s, p) - s.begin)
            /\ m \in Int
        BY <1>1, <2>1, <3>2, NumberOfTarget
      <4> QED BY <1>1, <3>2, <4>1
    <3> QED BY <3>1, <3>2
  <2> HIDE DEF i, l
  <2>6. /\ s.cell[i].original \in Targets(s) /\ s.cell[i].prev \in Targets(s)
        /\ s.cell[i].next \in Targets(s)
    BY <2>2 DEF Entries
  <2> QED BY <1>6, <1>8, <1>9, <2>2, <2>3, <2>4, <2>5, <2>6
<1>15. LogOf(k) = d
  <2>1. \A m \in nums : m \in Int /\ m <= n /\ (m # n => m < n)
    BY <1>1
  <2>2. n \in nums
    BY <1>1
  <2>3. /\ Number(k, new.prev) = Number(s, p) /\ Number(k, new.next) = None
        /\ new.type = type
    BY <1>8 DEF new, Number, None
  <2>4. /\ Number(k, k.next_undo) = l.next_undo /\ Number(k, k.next_redo) = l.next_redo
    BY <1>2, <1>8, LogFields DEF Sound
  <2>5. k.begin = b /\ k.end = n + 1 /\ (n + 1) - 1 = n
    BY <1>2
  <2> HIDE DEF l, nums
  <2>6. LogOf(k) =
          [begin |-> b, end |-> n + 1,
           request |-> [m \in nums |-> [type |-> At(k, m).type]],
           original |-> [m \in nums |-> Number(k, At(k, m).original)],
           prev |-> [m \in nums |-> Number(k, At(k, m).prev)],
           next |-> [m \in nums |-> Number(k, At(k, m).next)],
           next_undo |-> l.next_undo, next_redo |-> l.next_redo]
    BY <2>4, <2>5 DEF LogOf, nums
  <2>7. \A m \in nums :
          /\ [type |-> At(k, m).type] = IF m = n THEN [type |-> type] ELSE l.request[m]
          /\ Number(k, At(k, m).original) =
               IF m < n THEN l.original[m]
               ELSE IF Number(s, p) = None THEN n ELSE l.original[Number(s, p)]
          /\ Number(k, At(k, m).prev) = IF m = n THEN Number(s, p) ELSE l.prev[m]
          /\ Number(k, At(k, m).next) = IF m = n THEN None
                                        ELSE IF m = Number(s, p) THEN n ELSE l.next[m]
    BY <1>12, <1>13, <1>14, <2>1, <2>3
  <2> QED BY <1>11, <2>6, <2>7
<1> QED BY <1>1, <1>2, <1>4, <1>7, <1>9, <1>15 DEF d

------------------------------------------------------------------------------
(* The walk over the cells. *)

\* The request in a cell.
InCell(s, i) == s.begin + (i - s.offset)

\* p points to what the walk from the request in cell i finds.
Finds(s, type, i, p) ==
  p \in Targets(s) /\ WalkFinds(LogOf(s), type, InCell(s, i), Number(s, p))

\* Where the loop is, and what it returns if it does not leap.
Walked(s) == (s.offset - 1) .. (s.offset + A!Count(s) - 1)

Stop(s, type, i) ==
  IF s.cell[i].type = "DO" /\ type = "REDO" THEN A!Null ELSE A!Ptr(s.entries, i)

\* A cell that is in use, as a request of the log.
LEMMA CellIsRequest ==
  ASSUME NEW s, Sound(s), NEW i \in Walked(s), i >= s.offset
  PROVE  /\ i \in A!UsedCells(s) /\ InCell(s, i) \in Numbers(LogOf(s))
         /\ s.cell[i] \in Entries(s)
         /\ TypeOf(LogOf(s), InCell(s, i)) = s.cell[i].type
         /\ LogOf(s).prev[InCell(s, i)] = Number(s, s.cell[i].prev)
         /\ A!Ptr(s.entries, i) \in Targets(s)
         /\ Number(s, A!Ptr(s.entries, i)) = InCell(s, i)
<1>1. /\ i \in A!UsedCells(s) /\ InCell(s, i) \in s.begin .. (s.end - 1)
      /\ s.offset + (InCell(s, i) - s.begin) = i /\ i # -1
  BY DEF Sound, Walked, A!UsedCells, A!Count, InCell
<1>2. At(s, InCell(s, i)) = s.cell[i]
  BY <1>1 DEF At
<1>3. A!Ptr(s.entries, i) # A!Null
  BY <1>1 DEF A!Ptr, A!Null
<1>4. Number(s, A!Ptr(s.entries, i)) = InCell(s, i)
  BY <1>3 DEF Number, A!Ptr, InCell
<1>5. s.cell[i] \in Entries(s) /\ A!Ptr(s.entries, i) \in Targets(s)
  BY <1>1 DEF Sound, Targets
<1>6. /\ InCell(s, i) \in Numbers(LogOf(s))
      /\ TypeOf(LogOf(s), InCell(s, i)) = At(s, InCell(s, i)).type
      /\ LogOf(s).prev[InCell(s, i)] = Number(s, At(s, InCell(s, i)).prev)
  BY <1>1, LogFields
<1> QED BY <1>1, <1>2, <1>4, <1>5, <1>6

\* At every cell there is something, and one thing only, that the walk finds.
LEMMA FindsSomethingOnce ==
  ASSUME NEW s, Sound(s), LogType(LogOf(s)), NEW type, NEW i \in Walked(s)
  PROVE  /\ \E p : Finds(s, type, i, p)
         /\ \A p, q : Finds(s, type, i, p) /\ Finds(s, type, i, q) => p = q
<1> DEFINE l == LogOf(s)
           n == InCell(s, i)
<1>1. n \in Int /\ s.begin \in Nat /\ s.end \in Nat /\ s.offset \in Nat /\ n <= s.end - 1
  BY DEF Sound, Walked, A!Count, InCell
<1> HIDE DEF n
<1>2. \A p, q : Finds(s, type, i, p) /\ Finds(s, type, i, q) => p = q
  <2> SUFFICES ASSUME NEW p, NEW q, Finds(s, type, i, p), Finds(s, type, i, q) PROVE p = q
    OBVIOUS
  <2>1. Number(s, p) = Number(s, q)
    BY <1>1, WalkFindsOne DEF Finds, n
  <2> QED BY <2>1, NumberInjective DEF Finds
<1>3. \E p : Finds(s, type, i, p)
  <2>1. PICK r : WalkFinds(l, type, n, r)
    BY <1>1, WalkFindsSome
  <2>2. r = None \/ r \in s.begin .. n
    BY <2>1, LogFields DEF WalkFinds, Found, FreeUpTo
  <2>3. CASE r = None
    <3>1. A!Null \in Targets(s) /\ Number(s, A!Null) = r
      BY <2>3 DEF Targets, Number, None
    <3> QED BY <2>1, <3>1 DEF Finds, n
  <2>4. CASE r \in s.begin .. n
    <3> DEFINE j == s.offset + (r - s.begin)
    <3>1. j \in Walked(s) /\ j >= s.offset /\ InCell(s, j) = r
      BY <1>1, <2>4 DEF Walked, A!Count, InCell
    <3> HIDE DEF j
    <3>2. A!Ptr(s.entries, j) \in Targets(s) /\ Number(s, A!Ptr(s.entries, j)) = r
      BY <3>1, CellIsRequest
    <3> QED BY <2>1, <3>2 DEF Finds, n
  <2> QED BY <2>2, <2>3, <2>4
<1> QED BY <1>2, <1>3

\* One step of the loop.
LEMMA LoopStep ==
  ASSUME NEW s, Sound(s), LogType(LogOf(s)), ChainsOK(LogOf(s)), NoCrossing(LogOf(s)),
         NEW type \in {"UNDO", "REDO"}, NEW i \in Walked(s)
  PROVE  /\ i < s.offset => Finds(s, type, i, A!Null)
         /\ i >= s.offset /\ s.cell[i].type = type =>
              /\ s.cell[i].prev.index - 1 \in Walked(s) /\ s.cell[i].prev.index - 1 < i
              /\ \A p : Finds(s, type, s.cell[i].prev.index - 1, p) => Finds(s, type, i, p)
         /\ i >= s.offset /\ s.cell[i].type # type =>
              Finds(s, type, i, Stop(s, type, i))
<1> DEFINE l == LogOf(s)
           n == InCell(s, i)
<1>1. /\ n \in Int /\ i \in Int /\ s.begin \in Nat /\ s.end \in Nat /\ s.offset \in Nat
      /\ n <= s.end - 1 /\ s.begin <= s.end /\ i <= s.offset + (s.end - s.begin) - 1
      /\ n = s.begin + (i - s.offset)
      /\ l.begin = s.begin
  BY LogFields DEF Sound, Walked, A!Count, InCell
<1>2. ASSUME i < s.offset PROVE Finds(s, type, i, A!Null)
  <2>1. A!Null \in Targets(s) /\ Number(s, A!Null) = None
    BY DEF Targets, Number, None
  <2>2. n < l.begin
    BY <1>1, <1>2
  <2>3. WalkFinds(l, type, n, None)
    BY <1>1, <2>2, WalkRunsOut
  <2> QED BY <2>1, <2>3 DEF Finds
<1>3. ASSUME i >= s.offset, s.cell[i].type = type
      PROVE  /\ s.cell[i].prev.index - 1 \in Walked(s) /\ s.cell[i].prev.index - 1 < i
             /\ \A p : Finds(s, type, s.cell[i].prev.index - 1, p) => Finds(s, type, i, p)
  <2> DEFINE x == s.cell[i].prev
             j == x.index - 1
  <2>1. /\ n \in Numbers(l) /\ TypeOf(l, n) = type /\ l.prev[n] = Number(s, x)
        /\ x \in Targets(s)
    BY <1>3, CellIsRequest DEF Entries
  <2>2. /\ l.prev[n] - 1 \in (l.begin - 1) .. (n - 1)
        /\ FreeUpTo(l, type, n) = FreeUpTo(l, type, l.prev[n] - 1)
    BY <2>1, WalkLeaps
  <2> HIDE DEF x, l, n
  <2>3. x # A!Null
    <3>1. Number(s, x) # None
      BY <1>1, <2>1, <2>2 DEF None
    <3> QED BY <3>1 DEF Number, None
  <2>4. /\ Number(s, x) = s.begin + (x.index - s.offset) /\ x.index \in Int
        /\ x.index \in A!UsedCells(s)
    BY <2>1, <2>3, NumberOfTarget DEF A!UsedCells
  <2>5. j \in Walked(s) /\ j < i /\ InCell(s, j) = l.prev[n] - 1
    BY <1>1, <2>1, <2>2, <2>4 DEF Walked, A!Count, InCell
  <2>6. \A p : Finds(s, type, j, p) => Finds(s, type, i, p)
    BY <2>2, <2>5 DEF Finds, WalkFinds, l, n
  <2> QED BY <2>5, <2>6 DEF x
<1>4. ASSUME i >= s.offset, s.cell[i].type # type
      PROVE  Finds(s, type, i, Stop(s, type, i))
  <2>1. /\ n \in Numbers(l) /\ TypeOf(l, n) = s.cell[i].type
        /\ s.cell[i].type \in RequestTypes
        /\ A!Ptr(s.entries, i) \in Targets(s) /\ Number(s, A!Ptr(s.entries, i)) = n
    BY <1>4, CellIsRequest DEF Entries
  <2>2. WalkFinds(l, type, n, Found(l, type, n))
    BY <1>4, <2>1, WalkStops
  <2>3. A!Null \in Targets(s) /\ Number(s, A!Null) = None
    BY DEF Targets, Number, None
  <2> HIDE DEF l, n
  <2>4. Number(s, Stop(s, type, i)) = Found(l, type, n) /\ Stop(s, type, i) \in Targets(s)
    BY <1>4, <2>1, <2>3 DEF Stop, Found, StopsAt, RequestTypes
  <2> QED BY <2>2, <2>4 DEF Finds, l, n
<1> QED BY <1>2, <1>3, <1>4

\* The loop over the cells returns a pointer to what find_associated of the log finds.
LEMMA LoopFinds ==
  ASSUME NEW s, Sound(s), LogType(LogOf(s)), ChainsOK(LogOf(s)), NoCrossing(LogOf(s)),
         s.begin < s.end, NEW type \in {"UNDO", "REDO"}
  PROVE  /\ A!FindAssociated(s, type) \in Targets(s)
         /\ Number(s, A!FindAssociated(s, type)) = FindAssociated(LogOf(s), type)
<1> DEFINE S == (s.offset - 1) .. (s.offset + A!Count(s) - 1)
           Round(f) == [i \in S |->
              IF i < s.offset THEN A!Null
              ELSE IF s.cell[i].type = type THEN f[s.cell[i].prev.index - 1]
              ELSE IF s.cell[i].type = "DO" /\ type = "REDO" THEN A!Null
              ELSE A!Ptr(s.entries, i)]
           F == [i \in S |-> CHOOSE p : Finds(s, type, i, p)]
           from == CHOOSE f : f = Round(f)
           last == s.offset + A!Count(s) - 1
<1>1. A!FindAssociated(s, type) = from[last]
  BY DEF A!FindAssociated
<1>2. /\ S = Walked(s) /\ last \in S /\ InCell(s, last) = LogOf(s).end - 1
      /\ \A i \in S : /\ i \in Int /\ (i >= s.offset => i \in Nat)
                        /\ (i < s.offset \/ i >= s.offset)
  BY LogFields DEF Sound, Walked, InCell, A!Count
<1> HIDE DEF S, last
<1>3. \A i \in S : Finds(s, type, i, F[i])
  BY <1>2, FindsSomethingOnce
<1>4. F = Round(F)
  <2>1. ASSUME NEW i \in S PROVE F[i] = Round(F)[i]
    <3>1. CASE i < s.offset
      <4>1. Finds(s, type, i, A!Null)
        BY <1>2, <3>1, LoopStep
      <4>2. F[i] = A!Null
        BY <1>2, <1>3, <4>1, FindsSomethingOnce
      <4> HIDE DEF F
      <4> QED BY <3>1, <4>2
    <3>2. CASE i >= s.offset /\ s.cell[i].type = type
      <4>1. /\ s.cell[i].prev.index - 1 \in S
            /\ Finds(s, type, i, F[s.cell[i].prev.index - 1])
        BY <1>2, <1>3, <3>2, LoopStep
      <4>2. F[i] = F[s.cell[i].prev.index - 1]
        BY <1>2, <1>3, <4>1, FindsSomethingOnce
      <4>3. ~(i < s.offset)
        BY <1>2, <3>2 DEF Sound
      <4> HIDE DEF F
      <4> QED BY <3>2, <4>2, <4>3
    <3>3. CASE i >= s.offset /\ s.cell[i].type # type
      <4>1. Finds(s, type, i, Stop(s, type, i))
        BY <1>2, <3>3, LoopStep
      <4>2. F[i] = Stop(s, type, i)
        BY <1>2, <1>3, <4>1, FindsSomethingOnce
      <4>3. ~(i < s.offset)
        BY <1>2, <3>3 DEF Sound
      <4> HIDE DEF F
      <4> QED BY <3>3, <4>2, <4>3 DEF Stop
    <3> QED BY <1>2, <3>1, <3>2, <3>3
  <2> QED BY <2>1
<1>5. from = Round(from)
  BY <1>4
<1> HIDE DEF F, from
<1>6. \A i \in S : Finds(s, type, i, from[i])
  <2> DEFINE Wrong == {i \in S : i >= s.offset /\ ~Finds(s, type, i, from[i])}
  <2>1. ASSUME NEW i \in S, i < s.offset PROVE Finds(s, type, i, from[i])
    <3>1. from[i] = A!Null
      BY <1>5, <2>1
    <3> QED BY <1>2, <2>1, <3>1, LoopStep
  <2>2. ASSUME Wrong # {} PROVE FALSE
    <3>1. PICK i \in Wrong : \A m \in Wrong : i <= m
      BY <1>2, <2>2, Least
    <3>2. i \in S /\ i >= s.offset /\ i \in Nat /\ ~Finds(s, type, i, from[i])
      BY <1>2, <3>1
    <3>3. ~(i < s.offset)
      BY <3>2 DEF Sound
    <3>4. CASE s.cell[i].type = type
      <4> DEFINE j == s.cell[i].prev.index - 1
      <4>1. /\ j \in S /\ j < i /\ j \in Int
            /\ Finds(s, type, j, from[j]) => Finds(s, type, i, from[j])
        BY <1>2, <3>2, <3>4, LoopStep
      <4>2. from[i] = from[j]
        <5>1. from[i] = Round(from)[i]
          BY <1>5
        <5>2. Round(from)[i] = from[s.cell[i].prev.index - 1]
          BY <3>2, <3>3, <3>4
        <5> QED BY <5>1, <5>2
      <4> HIDE DEF j
      <4>3. j \notin Wrong
        BY <3>1, <3>2, <4>1
      <4>4. Finds(s, type, j, from[j])
        BY <1>2, <2>1, <4>1, <4>3
      <4> QED BY <3>2, <4>1, <4>2, <4>4
    <3>5. CASE s.cell[i].type # type
      <4>1. from[i] = Stop(s, type, i)
        BY <1>5, <3>2, <3>3, <3>5 DEF Stop
      <4> QED BY <1>2, <3>2, <3>5, <4>1, LoopStep
    <3> QED BY <3>4, <3>5
  <2> QED BY <1>2, <2>1, <2>2
<1>7. Finds(s, type, last, from[last])
  BY <1>2, <1>6
<1>8. WalkFinds(LogOf(s), type, LogOf(s).end - 1, FindAssociated(LogOf(s), type))
  BY LogFields, FindAssociatedExact
<1>9. LogOf(s).end - 1 \in Int
  BY LogFields DEF Sound
<1> QED BY <1>1, <1>2, <1>7, <1>8, <1>9, WalkFindsOne DEF Finds

------------------------------------------------------------------------------
(* The operations *)

WithPointers(s, u, v) == [s EXCEPT !.next_undo = u, !.next_redo = v]

\* Setting the two pointers of the log object sets those of the log.
LEMMA PointersSet ==
  ASSUME NEW k, Structures(k), Sound(k), NEW u \in Targets(k), NEW v \in Targets(k),
         NEW d, d = WithPointers(k, u, v)
  PROVE  /\ Structures(d) /\ Sound(d) /\ d.end = k.end
         /\ LogOf(d) = WithPointers(LogOf(k), Number(k, u), Number(k, v))
<1> DEFINE m == WithPointers(LogOf(k), Number(k, u), Number(k, v))
<1>1. /\ d = [entries |-> k.entries, alloc |-> k.alloc, offset |-> k.offset,
              begin |-> k.begin, end |-> k.end, cell |-> k.cell,
              next_undo |-> u, next_redo |-> v]
  <2> DEFINE t1 == k.entries t2 == k.alloc t3 == k.offset t4 == k.begin t5 == k.end
             t6 == k.cell t7 == k.next_undo t8 == k.next_redo
  <2>1. k = [entries |-> t1, alloc |-> t2, offset |-> t3, begin |-> t4, end |-> t5,
             cell |-> t6, next_undo |-> t7, next_redo |-> t8]
    BY DEF Structures
  <2> HIDE DEF t1, t2, t3, t4, t5, t6, t7, t8
  <2>2. d = [entries |-> t1, alloc |-> t2, offset |-> t3, begin |-> t4, end |-> t5,
             cell |-> t6, next_undo |-> u, next_redo |-> v]
    BY <2>1 DEF WithPointers
  <2> QED BY <2>2 DEF t1, t2, t3, t4, t5, t6
<1>2. /\ d.entries = k.entries /\ d.alloc = k.alloc /\ d.offset = k.offset
      /\ d.begin = k.begin /\ d.end = k.end /\ d.cell = k.cell
      /\ d.next_undo = u /\ d.next_redo = v /\ Structures(d)
  BY <1>1 DEF Structures
<1>3. /\ A!Count(d) = A!Count(k) /\ A!UsedCells(d) = A!UsedCells(k)
      /\ A!CellsOf(d) = A!CellsOf(k) /\ Targets(d) = Targets(k) /\ Entries(d) = Entries(k)
      /\ \A p : Number(d, p) = Number(k, p)
      /\ \A n : At(d, n) = At(k, n)
  <2>1. A!Count(d) = A!Count(k) /\ A!CellsOf(d) = A!CellsOf(k)
    BY <1>2 DEF A!Count, A!CellsOf
  <2>2. A!UsedCells(d) = A!UsedCells(k)
    BY <1>2, <2>1 DEF A!UsedCells
  <2>3. Targets(d) = Targets(k)
    BY <1>2, <2>2 DEF Targets
  <2>4. Entries(d) = Entries(k)
    BY <2>3 DEF Entries
  <2>5. \A p : Number(d, p) = Number(k, p)
    BY <1>2 DEF Number
  <2>6. \A n : At(d, n) = At(k, n)
    BY <1>2 DEF At
  <2> QED BY <2>4, <2>5, <2>6, <2>1, <2>2, <2>3
<1>4. Sound(d)
  BY <1>2, <1>3 DEF Sound
<1> DEFINE nums == k.begin .. (k.end - 1)
           request == [n \in nums |-> [type |-> At(k, n).type]]
           original == [n \in nums |-> Number(k, At(k, n).original)]
           prev == [n \in nums |-> Number(k, At(k, n).prev)]
           next == [n \in nums |-> Number(k, At(k, n).next)]
           b == k.begin
           e == k.end
           w == Number(k, k.next_undo)
           x == Number(k, k.next_redo)
           y == Number(k, u)
           z == Number(k, v)
<1>5. LogOf(k) = [begin |-> b, end |-> e, request |-> request, original |-> original,
                  prev |-> prev, next |-> next, next_undo |-> w, next_redo |-> x]
  BY DEF LogOf
<1>6. LogOf(d) = [begin |-> b, end |-> e, request |-> request, original |-> original,
                  prev |-> prev, next |-> next, next_undo |-> y, next_redo |-> z]
  <2>1. /\ request = [n \in nums |-> [type |-> At(d, n).type]]
        /\ original = [n \in nums |-> Number(d, At(d, n).original)]
        /\ prev = [n \in nums |-> Number(d, At(d, n).prev)]
        /\ next = [n \in nums |-> Number(d, At(d, n).next)]
    BY <1>3
  <2>2. y = Number(d, u) /\ z = Number(d, v)
    BY <1>3
  <2> HIDE DEF request, original, prev, next, y, z
  <2> QED BY <1>2, <2>1, <2>2 DEF LogOf
<1> HIDE DEF request, original, prev, next, b, e, w, x, y, z
<1>7. m = [begin |-> b, end |-> e, request |-> request, original |-> original,
           prev |-> prev, next |-> next,
           next_undo |-> y, next_redo |-> z]
  <2> DEFINE lk == LogOf(k)
  <2>1. lk = [begin |-> b, end |-> e, request |-> request, original |-> original,
              prev |-> prev, next |-> next, next_undo |-> w, next_redo |-> x]
    BY <1>5
  <2> HIDE DEF lk
  <2>2. m = [lk EXCEPT !.next_undo = y, !.next_redo = z]
    BY DEF WithPointers, lk, y, z
  <2> HIDE DEF m
  <2> QED BY <2>1, <2>2
<1> QED BY <1>2, <1>4, <1>6, <1>7

\* Adding a request to a structure that has room for it is adding it to the log.
LEMMA AddedIsAdded ==
  ASSUME NEW s, Structures(s), Sound(s), GoodLog(LogOf(s)), s.offset + A!Count(s) < s.alloc,
         NEW n \in Nat, CanAdd(LogOf(s), n), NEW type \in RequestTypes,
         type # "DO" => Candidate(LogOf(s), type) # None,
         NEW d, d = A!AddRequest(s, n, type)
  PROVE  /\ Structures(d) /\ Sound(d) /\ d.end = n + 1
         /\ LogOf(d) = AddRequest(LogOf(s), [type |-> type], n) /\ GoodLog(LogOf(d))
<1> DEFINE l == LogOf(s)
           r == [type |-> type]
<1>1. s.begin = s.end \/ n = s.end
  BY LogFields DEF CanAdd, IsEmpty
<1>2. /\ A!Null \in Targets(s) /\ s.next_undo \in Targets(s) /\ s.next_redo \in Targets(s)
      /\ Number(s, A!Null) = None
      /\ l.next_undo = Number(s, s.next_undo) /\ l.next_redo = Number(s, s.next_redo)
  BY LogFields DEF Sound, Targets, Number, None
<1>3. r \in Requests /\ r.type = type
  BY DEF Requests
<1>4. LogType(l) /\ ChainsOK(l) /\ NoCrossing(l) /\ None \in Pointers(l)
      /\ l.next_undo \in Pointers(l) /\ l.next_redo \in Pointers(l)
  BY DEF GoodLog, LogType, Pointers
<1> HIDE DEF l, r
<1>5. CASE type = "DO"
  <2> DEFINE k == A!Appended(s, n, "DO", A!Null)
             m == AddDo(l, r, n)
  <2>1. /\ Structures(k) /\ Sound(k) /\ k.end = n + 1
        /\ LogOf(k) = Linked(l, r, n, None)
        /\ A!Newest(k) \in Targets(k) /\ Number(k, A!Newest(k)) = n
    BY <1>1, <1>2, <1>5, AppendedIsLinked DEF l, r
  <2>2. d = WithPointers(k, A!Newest(k), A!Null)
    BY <1>5 DEF A!AddRequest, WithPointers
  <2>3. A!Null \in Targets(k) /\ Number(k, A!Null) = None
    BY DEF Targets, Number, None
  <2> HIDE DEF k
  <2>4. m = WithPointers(LogOf(k), Number(k, A!Newest(k)), Number(k, A!Null))
    BY <2>1, <2>3 DEF AddDo, WithPointers
  <2>5. m = AddRequest(l, r, n) /\ GoodLog(m)
    BY <1>3, <1>5, AddDoGood DEF AddRequest, l
  <2> HIDE DEF m
  <2>6. Structures(d) /\ Sound(d) /\ d.end = k.end /\ LogOf(d) = m
    BY <2>1, <2>2, <2>3, <2>4, PointersSet
  <2> QED BY <2>1, <2>5, <2>6 DEF l, r
<1>6. CASE type = "UNDO"
  <2> DEFINE k == A!Appended(s, n, "UNDO", s.next_undo)
             f == A!FindAssociated(k, "UNDO")
             m == AddUndo(l, r, n)
  <2>1. /\ Structures(k) /\ Sound(k) /\ k.end = n + 1 /\ k.begin < k.end
        /\ LogOf(k) = Linked(l, r, n, l.next_undo)
        /\ A!Newest(k) \in Targets(k) /\ Number(k, A!Newest(k)) = n
    BY <1>1, <1>2, <1>6, AppendedIsLinked DEF l, r
  <2>2. d = WithPointers(k, f, A!Newest(k))
    BY <1>6 DEF A!AddRequest, WithPointers
  <2> HIDE DEF k
  <2>3. l.next_undo # None
    BY <1>6 DEF Candidate, l
  <2>4. LogType(LogOf(k)) /\ ChainsOK(LogOf(k)) /\ NoCrossing(LogOf(k))
    <3>1. TypeOf(l, l.next_undo) \in InEffect /\ Uncovered(l, l.next_undo, "UNDO")
      BY <2>3 DEF GoodLog, CachesOK, l
    <3>2. CanAdd(l, n)
      BY DEF l
    <3> QED BY <1>3, <1>4, <1>6, <2>1, <2>3, <3>1, <3>2, LinkedType, LinkedChains
  <2>5. f \in Targets(k) /\ Number(k, f) = FindAssociated(LogOf(k), "UNDO")
    BY <2>1, <2>4, LoopFinds
  <2> HIDE DEF f
  <2>6. m = WithPointers(LogOf(k), Number(k, f), Number(k, A!Newest(k)))
    BY <2>1, <2>5 DEF AddUndo, WithPointers
  <2>7. m = AddRequest(l, r, n) /\ GoodLog(m)
    BY <1>3, <1>6, <2>3, AddUndoGood DEF AddRequest, l
  <2> HIDE DEF m
  <2>8. Structures(d) /\ Sound(d) /\ d.end = k.end /\ LogOf(d) = m
    BY <2>1, <2>2, <2>5, <2>6, PointersSet
  <2> QED BY <2>1, <2>7, <2>8 DEF l, r
<1>7. CASE type = "REDO"
  <2> DEFINE k == A!Appended(s, n, "REDO", s.next_redo)
             f == A!FindAssociated(k, "REDO")
             m == AddRedo(l, r, n)
  <2>1. /\ Structures(k) /\ Sound(k) /\ k.end = n + 1 /\ k.begin < k.end
        /\ LogOf(k) = Linked(l, r, n, l.next_redo)
        /\ A!Newest(k) \in Targets(k) /\ Number(k, A!Newest(k)) = n
    BY <1>1, <1>2, <1>7, AppendedIsLinked DEF l, r
  <2>2. d = WithPointers(k, A!Newest(k), f)
    BY <1>7 DEF A!AddRequest, WithPointers
  <2> HIDE DEF k
  <2>3. l.next_redo # None
    BY <1>7 DEF Candidate, l
  <2>4. LogType(LogOf(k)) /\ ChainsOK(LogOf(k)) /\ NoCrossing(LogOf(k))
    <3>1. TypeOf(l, l.next_redo) = "UNDO" /\ Uncovered(l, l.next_redo, "REDO")
      BY <2>3 DEF GoodLog, CachesOK, l
    <3>2. TypeOf(l, l.next_redo) \notin InEffect
      BY <3>1 DEF InEffect
    <3>3. CanAdd(l, n)
      BY DEF l
    <3> QED BY <1>3, <1>4, <1>7, <2>1, <2>3, <3>1, <3>2, <3>3, LinkedType, LinkedChains
  <2>5. f \in Targets(k) /\ Number(k, f) = FindAssociated(LogOf(k), "REDO")
    BY <2>1, <2>4, LoopFinds
  <2> HIDE DEF f
  <2>6. m = WithPointers(LogOf(k), Number(k, A!Newest(k)), Number(k, f))
    BY <2>1, <2>5 DEF AddRedo, WithPointers
  <2>7. m = AddRequest(l, r, n) /\ GoodLog(m)
    BY <1>3, <1>7, <2>3, AddRedoGood DEF AddRequest, l
  <2> HIDE DEF m
  <2>8. Structures(d) /\ Sound(d) /\ d.end = k.end /\ LogOf(d) = m
    BY <2>1, <2>2, <2>5, <2>6, PointersSet
  <2> QED BY <2>1, <2>7, <2>8 DEF l, r
<1> QED BY <1>5, <1>6, <1>7 DEF RequestTypes

\* Removing requests that no remaining one is linked to removes them from the log.
LEMMA RemovedIsRemoved ==
  ASSUME NEW s, Structures(s), Sound(s), GoodLog(LogOf(s)),
         NEW up_to \in s.begin .. s.end, ~A!IsRelated(s, up_to),
         NEW d, d = A!RemoveRequests(s, up_to)
  PROVE  /\ Structures(d) /\ Sound(d) /\ d.end = s.end
         /\ CanRemove(LogOf(s), up_to) /\ LogOf(d) = RemoveRequests(LogOf(s), up_to)
         /\ GoodLog(LogOf(d))
<1> DEFINE l == LogOf(s)
           first == s.offset + (up_to - s.begin)
           nums == up_to .. (s.end - 1)
           Keep(p) == IF p # A!Null /\ p.index < first THEN A!Null ELSE p
<1>1. /\ s.begin \in Nat /\ s.end \in Nat /\ s.offset \in Nat /\ s.alloc \in Nat
      /\ up_to \in Nat /\ s.begin <= up_to /\ up_to <= s.end
      /\ s.offset + A!Count(s) <= s.alloc /\ A!Count(s) = s.end - s.begin
  BY DEF Sound, A!Count
<1>2. /\ d.entries = s.entries /\ d.alloc = s.alloc /\ d.offset = first /\ d.begin = up_to
      /\ d.end = s.end /\ d.cell = s.cell /\ Structures(d)
      /\ d.next_undo = Keep(s.next_undo) /\ d.next_redo = Keep(s.next_redo)
  BY DEF A!RemoveRequests, Structures
<1> HIDE DEF Keep
<1>3. /\ first \in Nat /\ A!Count(d) = s.end - up_to
      /\ A!UsedCells(d) = first .. (s.offset + A!Count(s) - 1)
      /\ A!UsedCells(s) = s.offset .. (s.offset + A!Count(s) - 1)
      /\ d.offset + A!Count(d) <= d.alloc
      /\ s.offset <= first /\ first = s.offset + (up_to - s.begin)
  <2>1. A!Count(d) = s.end - up_to /\ first \in Nat
    BY <1>1, <1>2 DEF A!Count
  <2>2. first + (s.end - up_to) = s.offset + A!Count(s)
    BY <1>1
  <2>3. d.offset + A!Count(d) = s.offset + A!Count(s)
    BY <1>2, <2>1, <2>2
  <2>4. A!UsedCells(d) = first .. (s.offset + A!Count(s) - 1)
    <3>1. d.offset = first /\ d.offset \in Nat /\ A!Count(d) \in Int /\ A!Count(s) \in Int
      BY <1>1, <1>2, <2>1
    <3>2. A!UsedCells(d) = d.offset .. (d.offset + A!Count(d) - 1)
      BY DEF A!UsedCells
    <3> HIDE DEF first
    <3> QED BY <1>1, <2>3, <3>1, <3>2
  <2>5. d.offset + A!Count(d) <= d.alloc
    BY <1>1, <1>2, <2>1, <2>2
  <2>6. s.offset <= first
    BY <1>1
  <2> QED BY <2>1, <2>4, <2>5, <2>6 DEF A!UsedCells
<1>4. CanRemove(l, up_to)
  <2>1. ASSUME NEW n \in s.begin .. (up_to - 1) PROVE ~(l.next[n] >= up_to)
    <3> DEFINE i == s.offset + (n - s.begin)
    <3>1. n \in s.begin .. (s.end - 1)
      BY <1>1
    <3>2. At(s, n) = s.cell[i] /\ At(s, n) \in Entries(s)
      BY <3>1, CellOfNumber DEF At
    <3>3. l.next[n] = Number(s, At(s, n).next)
      BY <3>1, LogFields
    <3>4. i \in s.offset .. (s.offset + (up_to - s.begin) - 1)
      BY <1>1
    <3> HIDE DEF i, l
    <3>5. s.cell[i].next \in Targets(s) /\ l.next[n] = Number(s, s.cell[i].next)
      BY <3>2, <3>3 DEF Entries
    <3>6. \/ s.cell[i].next = A!Null
          \/ ~(s.begin + (s.cell[i].next.index - s.offset) >= up_to)
      BY <3>4 DEF A!IsRelated
    <3>7. CASE s.cell[i].next = A!Null
      BY <1>1, <3>5, <3>7 DEF Number
    <3>8. CASE s.cell[i].next # A!Null
      BY <3>5, <3>6, <3>8, NumberOfTarget
    <3> QED BY <3>7, <3>8
  <2>2. l.begin = s.begin /\ l.end = s.end
    BY LogFields
  <2> QED BY <2>1, <2>2 DEF CanRemove, IsRelated
<1>5. GoodLog(RemoveRequests(l, up_to))
  BY <1>4, RemoveGood
<1> HIDE DEF first
<1>6. ASSUME NEW p \in Targets(s)
      PROVE  /\ Number(d, p) = Number(s, p)
             /\ Number(s, p) \in nums \cup {None} => p \in Targets(d)
             /\ Keep(p) \in Targets(d) /\ Number(d, Keep(p)) = Kept(Number(s, p), up_to)
  <2>1. CASE p = A!Null
    <3>1. p \in Targets(d) /\ Number(d, p) = None /\ Number(s, p) = None /\ Keep(p) = p
      BY <2>1 DEF Targets, Number, None, Keep
    <3> QED BY <3>1 DEF Kept
  <2>2. CASE p # A!Null
    <3> DEFINE x == p.index
               m == Number(s, p)
    <3>1. /\ x \in A!UsedCells(s) /\ p = A!Ptr(s.entries, x) /\ m = s.begin + (x - s.offset)
          /\ m \in s.begin .. (s.end - 1)
      BY <2>2, NumberOfTarget
    <3>2. p.at = s.entries
      BY <3>1 DEF A!Ptr
    <3>3. Number(d, p) = up_to + (x - first)
      BY <1>2, <2>2, <3>2 DEF Number
    <3> HIDE DEF x, m
    <3>4. x \in Int /\ Number(d, p) = m /\ (x < first <=> m < up_to)
      <4>1. x \in Int
        BY <1>1, <1>3, <3>1
      <4> QED BY <1>1, <3>1, <3>3, <4>1 DEF first
    <3>5. ~(x < first) => x \in A!UsedCells(d)
      BY <1>1, <1>3, <3>1, <3>4
    <3>6. ~(x < first) => p \in Targets(d)
      BY <1>2, <3>1, <3>5 DEF Targets
    <3>7. m \in nums \cup {None} => ~(m < up_to)
      BY <1>1, <3>1 DEF None
    <3>8. Keep(p) = IF x < first THEN A!Null ELSE p
      BY <2>2 DEF Keep, x
    <3>9. A!Null \in Targets(d) /\ Number(d, A!Null) = None
      BY DEF Targets, Number, None
    <3>10. Keep(p) \in Targets(d) /\ Number(d, Keep(p)) = Kept(m, up_to)
      BY <3>4, <3>6, <3>8, <3>9 DEF Kept
    <3> QED BY <3>4, <3>6, <3>7, <3>10 DEF m
  <2> QED BY <2>1, <2>2
<1>7. ASSUME NEW n \in nums
      PROVE  /\ At(d, n) = At(s, n) /\ At(d, n) \in Entries(d)
             /\ l.request[n] = [type |-> At(d, n).type]
             /\ l.original[n] = Number(d, At(d, n).original)
             /\ l.prev[n] = Number(d, At(d, n).prev)
             /\ l.next[n] = Number(d, At(d, n).next)
  <2>1. n \in s.begin .. (s.end - 1) /\ first + (n - up_to) = s.offset + (n - s.begin)
    BY <1>1 DEF first
  <2>2. At(d, n) = At(s, n)
    BY <1>2, <2>1 DEF At
  <2> DEFINE e == At(s, n)
  <2>3. e \in Entries(s)
    BY <2>1, CellOfNumber
  <2>4. /\ l.request[n] = [type |-> e.type] /\ l.original[n] = Number(s, e.original)
        /\ l.prev[n] = Number(s, e.prev) /\ l.next[n] = Number(s, e.next)
    BY <2>1, LogFields
  <2>5. /\ l.original[n] \in nums \cup {None} /\ l.prev[n] \in nums \cup {None}
        /\ l.next[n] \in nums \cup {None}
    <3> DEFINE m == RemoveRequests(l, up_to)
    <3>1. /\ m.original = [i \in nums |-> l.original[i]] /\ m.prev = [i \in nums |-> l.prev[i]]
          /\ m.next = [i \in nums |-> l.next[i]] /\ Numbers(m) = nums
      BY LogFields DEF RemoveRequests, Numbers
    <3> HIDE DEF m, nums, l
    <3>2. /\ m.original \in [nums -> nums] /\ m.prev \in [nums -> nums \cup {None}]
          /\ m.next \in [nums -> nums \cup {None}]
      BY <1>5, <3>1 DEF GoodLog, LogType, Pointers, m
    <3> QED BY <1>7, <3>1, <3>2
  <2> HIDE DEF e, l, nums
  <2>6. /\ e.type \in RequestTypes /\ e.original \in Targets(s) /\ e.prev \in Targets(s)
        /\ e.next \in Targets(s)
        /\ e = [type |-> e.type, original |-> e.original, prev |-> e.prev, next |-> e.next]
    BY <2>3 DEF Entries
  <2>7. e \in Entries(d)
    BY <1>6, <2>4, <2>5, <2>6 DEF Entries
  <2> QED BY <1>6, <2>2, <2>4, <2>6, <2>7 DEF e
<1>8. ASSUME NEW i \in A!UsedCells(d) PROVE d.cell[i] \in Entries(d)
  <2> DEFINE n == up_to + (i - first)
  <2>1. n \in nums /\ first + (n - up_to) = i
    <3>1. i \in Int /\ first <= i /\ i <= s.offset + (s.end - s.begin) - 1
      BY <1>1, <1>3
    <3> QED BY <1>1, <3>1 DEF first
  <2>2. At(d, n) = d.cell[i]
    BY <1>2, <2>1 DEF At
  <2> HIDE DEF n
  <2> QED BY <1>7, <2>1, <2>2
<1>9. s.next_undo \in Targets(s) /\ s.next_redo \in Targets(s)
  BY DEF Sound
<1>10. Sound(d)
  <2>1. DOMAIN d.cell = A!CellsOf(d)
    BY <1>2 DEF Sound, A!CellsOf
  <2>2. d.next_undo \in Targets(d) /\ d.next_redo \in Targets(d)
    BY <1>2, <1>6, <1>9
  <2> QED BY <1>1, <1>2, <1>3, <1>8, <2>1, <2>2 DEF Sound
<1>11. LogOf(d) = RemoveRequests(l, up_to)
  <2>1. /\ l.end = s.end /\ l.next_undo = Number(s, s.next_undo)
        /\ l.next_redo = Number(s, s.next_redo)
    BY LogFields
  <2>2. /\ Number(d, d.next_undo) = Kept(l.next_undo, up_to)
        /\ Number(d, d.next_redo) = Kept(l.next_redo, up_to)
    BY <1>2, <1>6, <1>9, <2>1
  <2> HIDE DEF l
  <2>3. RemoveRequests(l, up_to) =
          [begin |-> up_to, end |-> s.end,
           request |-> [n \in nums |-> l.request[n]],
           original |-> [n \in nums |-> l.original[n]],
           prev |-> [n \in nums |-> l.prev[n]], next |-> [n \in nums |-> l.next[n]],
           next_undo |-> Kept(l.next_undo, up_to), next_redo |-> Kept(l.next_redo, up_to)]
    BY <2>1 DEF RemoveRequests
  <2>4. LogOf(d) =
          [begin |-> up_to, end |-> s.end,
           request |-> [n \in nums |-> [type |-> At(d, n).type]],
           original |-> [n \in nums |-> Number(d, At(d, n).original)],
           prev |-> [n \in nums |-> Number(d, At(d, n).prev)],
           next |-> [n \in nums |-> Number(d, At(d, n).next)],
           next_undo |-> Kept(l.next_undo, up_to), next_redo |-> Kept(l.next_redo, up_to)]
    BY <1>2, <2>2 DEF LogOf
  <2> HIDE DEF nums
  <2> QED BY <1>7, <2>3, <2>4
<1> QED BY <1>2, <1>4, <1>5, <1>10, <1>11

\* set_begin of an empty structure sets the beginning of the empty log.
LEMMA BeginIsSet ==
  ASSUME NEW s, Structures(s), Sound(s), GoodLog(LogOf(s)), s.begin = s.end, NEW n \in Nat,
         NEW d, d = [s EXCEPT !.begin = n, !.end = n]
  PROVE  /\ Structures(d) /\ Sound(d) /\ GoodLog(LogOf(d))
         /\ IsEmpty(LogOf(s)) /\ LogOf(d) = SetBegin(LogOf(s), n)
<1> DEFINE l == LogOf(s)
<1>1. /\ d.entries = s.entries /\ d.alloc = s.alloc /\ d.offset = s.offset /\ d.begin = n
      /\ d.end = n /\ d.cell = s.cell /\ d.next_undo = s.next_undo
      /\ d.next_redo = s.next_redo /\ Structures(d)
  BY DEF Structures
<1>2. /\ A!Count(s) = 0 /\ A!Count(d) = 0 /\ A!UsedCells(s) = {} /\ A!UsedCells(d) = {}
  <2>1. A!Count(s) = 0 /\ A!Count(d) = 0 /\ s.offset \in Nat
    BY <1>1 DEF Sound, A!Count
  <2> QED BY <1>1, <2>1 DEF A!UsedCells
<1>3. Targets(s) = {A!Null} /\ Targets(d) = {A!Null}
  BY <1>2 DEF Targets
<1>4. s.next_undo = A!Null /\ s.next_redo = A!Null
  BY <1>3 DEF Sound
<1>5. Sound(d)
  <2>1. DOMAIN d.cell = A!CellsOf(d)
    BY <1>1 DEF Sound, A!CellsOf
  <2> QED BY <1>1, <1>2, <1>3, <1>4, <2>1 DEF Sound
<1>6. s.begin .. (s.end - 1) = {} /\ n .. (n - 1) = {}
  BY DEF Sound
<1>7. /\ l.request = [m \in {} |-> [type |-> At(s, m).type]]
      /\ l.original = [m \in {} |-> Number(s, At(s, m).original)]
      /\ l.prev = [m \in {} |-> Number(s, At(s, m).prev)]
      /\ l.next = [m \in {} |-> Number(s, At(s, m).next)]
      /\ l.next_undo = None /\ l.next_redo = None /\ l.begin = s.begin /\ l.end = s.end
  BY <1>4, <1>6 DEF LogOf, Number, None
<1>8. LogOf(d) =
        [begin |-> n, end |-> n,
         request |-> [m \in {} |-> [type |-> At(d, m).type]],
         original |-> [m \in {} |-> Number(d, At(d, m).original)],
         prev |-> [m \in {} |-> Number(d, At(d, m).prev)],
         next |-> [m \in {} |-> Number(d, At(d, m).next)],
         next_undo |-> None, next_redo |-> None]
  BY <1>1, <1>4, <1>6 DEF LogOf, Number, None
<1>9. IsEmpty(l)
  BY <1>7 DEF IsEmpty
<1> HIDE DEF l
<1>10. SetBegin(l, n) =
        [begin |-> n, end |-> n, request |-> l.request, original |-> l.original,
         prev |-> l.prev, next |-> l.next, next_undo |-> None, next_redo |-> None]
  BY <1>7 DEF SetBegin
<1>11. LogOf(d) = SetBegin(l, n)
  BY <1>7, <1>8, <1>10
<1>12. GoodLog(SetBegin(l, n))
  BY <1>9, SetBeginGood DEF l
<1> QED BY <1>1, <1>5, <1>9, <1>11, <1>12 DEF l

\* A new structure stands for the empty log.
LEMMA NewIsEmpty ==
  ASSUME Inc \in Nat \ {0}, A!Init
  PROVE  ArrayInv /\ LogOf(a) = EmptyLog(0)
<1>1. PICK at \in Addresses :
        a = [entries |-> at, alloc |-> Inc, offset |-> 0, begin |-> 0, end |-> 0,
             cell |-> [i \in 0 .. (Inc - 1) |-> A!Junk],
             next_undo |-> A!Null, next_redo |-> A!Null]
  BY DEF A!Init
<1>2. /\ a.alloc = Inc /\ a.offset = 0 /\ a.begin = 0 /\ a.end = 0
      /\ a.cell = [i \in 0 .. (Inc - 1) |-> A!Junk]
      /\ a.next_undo = A!Null /\ a.next_redo = A!Null /\ Structures(a)
  BY <1>1 DEF Structures
<1>3. A!UsedCells(a) = {} /\ A!Count(a) = 0
  BY <1>2 DEF A!UsedCells, A!Count
<1>4. Sound(a)
  BY <1>2, <1>3 DEF Sound, Targets, A!CellsOf
<1>5. Number(a, A!Null) = None /\ 0 .. (0 - 1) = {}
  BY DEF Number, None
<1>6. LogOf(a) =
        [begin |-> 0, end |-> 0,
         request |-> [m \in {} |-> [type |-> At(a, m).type]],
         original |-> [m \in {} |-> Number(a, At(a, m).original)],
         prev |-> [m \in {} |-> Number(a, At(a, m).prev)],
         next |-> [m \in {} |-> Number(a, At(a, m).next)],
         next_undo |-> None, next_redo |-> None]
  BY <1>2, <1>5 DEF LogOf
<1>7. LogOf(a) = EmptyLog(0)
  BY <1>6 DEF EmptyLog
<1> QED BY <1>2, <1>4, <1>7, EmptyGood DEF ArrayInv

------------------------------------------------------------------------------
(* The refinement *)

\* RequestLogArray means the same log operations.
LEMMA SameOps ==
  ASSUME NEW l, NEW r, NEW n
  PROVE  /\ A!Log!AddRequest(l, r, n) = AddRequest(l, r, n)
         /\ A!Log!RemoveRequests(l, n) = RemoveRequests(l, n)
         /\ A!Log!SetBegin(l, n) = SetBegin(l, n)
         /\ A!Log!EmptyLog(n) = EmptyLog(n)
         /\ A!Log!CanAdd(l, n) = CanAdd(l, n)
         /\ A!Log!CanRemove(l, n) = CanRemove(l, n)
         /\ A!Log!IsEmpty(l) = IsEmpty(l) /\ A!Log!None = None
<1>1. \A ll, type : A!Log!FindAssociated(ll, type) = FindAssociated(ll, type)
  BY DEF A!Log!FindAssociated, FindAssociated, A!Log!Visited, Visited,
         A!Log!ClosedUnderLeap, ClosedUnderLeap, A!Log!Leaps, Leaps, A!Log!StopsAt, StopsAt,
         A!Log!TypeOf, TypeOf, A!Log!Numbers, Numbers, A!Log!None, None
<1>2. \A nn, p : A!Log!Linked(l, r, nn, p) = Linked(l, r, nn, p)
  BY DEF A!Log!Linked, Linked, A!Log!IsEmpty, IsEmpty, A!Log!None, None
<1>3. A!Log!AddDo(l, r, n) = AddDo(l, r, n)
  BY <1>2 DEF A!Log!AddDo, AddDo, A!Log!None, None
<1>4. A!Log!AddUndo(l, r, n) = AddUndo(l, r, n)
  BY <1>1, <1>2 DEF A!Log!AddUndo, AddUndo
<1>5. A!Log!AddRedo(l, r, n) = AddRedo(l, r, n)
  BY <1>1, <1>2 DEF A!Log!AddRedo, AddRedo
<1>6. A!Log!AddRequest(l, r, n) = AddRequest(l, r, n)
  BY <1>3, <1>4, <1>5 DEF A!Log!AddRequest, AddRequest
<1>7. A!Log!RemoveRequests(l, n) = RemoveRequests(l, n)
  BY DEF A!Log!RemoveRequests, RemoveRequests, A!Log!Kept, Kept, A!Log!None, None
<1>8. A!Log!SetBegin(l, n) = SetBegin(l, n)
  BY DEF A!Log!SetBegin, SetBegin
<1>9. A!Log!EmptyLog(n) = EmptyLog(n)
  BY DEF A!Log!EmptyLog, EmptyLog, A!Log!None, None
<1>10. A!Log!CanAdd(l, n) = CanAdd(l, n) /\ A!Log!IsEmpty(l) = IsEmpty(l)
  BY DEF A!Log!CanAdd, CanAdd, A!Log!IsEmpty, IsEmpty
<1>11. A!Log!CanRemove(l, n) = CanRemove(l, n)
  BY DEF A!Log!CanRemove, CanRemove, A!Log!IsRelated, IsRelated
<1> QED BY <1>6, <1>7, <1>8, <1>9, <1>10, <1>11 DEF A!Log!None, None

\* The steps of a log.
LogNext(l, k) ==
  \/ \E type \in RequestTypes, n \in 0 .. (MaxEnd - 1) :
       /\ type # "DO" => Candidate(l, type) # None
       /\ CanAdd(l, n) /\ k = AddRequest(l, [type |-> type], n)
  \/ \E up_to \in l.begin .. l.end : CanRemove(l, up_to) /\ k = RemoveRequests(l, up_to)
  \/ \E n \in 0 .. MaxEnd : IsEmpty(l) /\ k = SetBegin(l, n)

\* The log of the refinement mapping.
MappedLog ==
  [begin     |-> a.begin,
   end       |-> a.end,
   request   |-> A!Field(LAMBDA e : [type |-> e.type]),
   original  |-> A!Field(LAMBDA e : A!NumberOf(e.original)),
   prev      |-> A!Field(LAMBDA e : A!NumberOf(e.prev)),
   next      |-> A!Field(LAMBDA e : A!NumberOf(e.next)),
   next_undo |-> A!NumberOf(a.next_undo),
   next_redo |-> A!NumberOf(a.next_redo)]

\* A step of the log that the structure stands for is a step of RequestLog.
LEMMA LogNextIsNext ==
  ASSUME LogNext(LogOf(a), LogOf(a)') PROVE A!Log!Next
<1> DEFINE lg == MappedLog
<1>1. lg = LogOf(a)
  BY DEF MappedLog, A!Field, A!NumberOf, Number, At, LogOf
<1>2. lg' = LogOf(a)'
  BY DEF MappedLog, A!Field, A!NumberOf, Number, At, LogOf
<1>3. ASSUME NEW type \in RequestTypes, NEW n \in 0 .. (MaxEnd - 1),
             type # "DO" => Candidate(LogOf(a), type) # None,
             CanAdd(LogOf(a), n), LogOf(a)' = AddRequest(LogOf(a), [type |-> type], n)
      PROVE A!Log!Next
  <2>1. A!Log!CanAdd(lg, n) /\ lg' = A!Log!AddRequest(lg, [type |-> type], n)
    BY <1>1, <1>2, <1>3, SameOps
  <2>2. A!Log!Add(type)
    BY <2>1 DEF A!Log!Add, MappedLog
  <2>3. CASE type = "DO"
    BY <2>2, <2>3 DEF A!Log!Next, A!Log!AddDoRequest
  <2>4. CASE type = "UNDO"
    <3>1. lg.next_undo # A!Log!None
      BY <1>1, <1>3, <2>4, SameOps DEF Candidate
    <3> QED BY <2>2, <2>4, <3>1 DEF A!Log!Next, A!Log!AddUndoRequest, MappedLog
  <2>5. CASE type = "REDO"
    <3>1. lg.next_redo # A!Log!None
      BY <1>1, <1>3, <2>5, SameOps DEF Candidate
    <3> QED BY <2>2, <2>5, <3>1 DEF A!Log!Next, A!Log!AddRedoRequest, MappedLog
  <2> QED BY <1>3, <2>3, <2>4, <2>5 DEF RequestTypes
<1>4. ASSUME NEW up_to \in LogOf(a).begin .. LogOf(a).end, CanRemove(LogOf(a), up_to),
             LogOf(a)' = RemoveRequests(LogOf(a), up_to)
      PROVE A!Log!Next
  <2>1. A!Log!CanRemove(lg, up_to) /\ lg' = A!Log!RemoveRequests(lg, up_to)
        /\ up_to \in lg.begin .. lg.end
    BY <1>1, <1>2, <1>4, SameOps
  <2> QED BY <2>1 DEF A!Log!Next, A!Log!Remove, MappedLog
<1>5. ASSUME NEW n \in 0 .. MaxEnd, IsEmpty(LogOf(a)),
             LogOf(a)' = SetBegin(LogOf(a), n)
      PROVE A!Log!Next
  <2>1. A!Log!IsEmpty(lg) /\ lg' = A!Log!SetBegin(lg, n)
    BY <1>1, <1>2, <1>5, SameOps
  <2> QED BY <2>1 DEF A!Log!Next, A!Log!Restart, MappedLog
<1> QED BY <1>3, <1>4, <1>5 DEF LogNext

\* A step of the array is a step of the log that it stands for, and keeps the invariant.
LEMMA ArrayStep ==
  ASSUME Inc \in Nat \ {0}, ArrayInv, A!Next
  PROVE  ArrayInv' /\ LogNext(LogOf(a), LogOf(a)')
<1>1. Structures(a) /\ Sound(a) /\ GoodLog(LogOf(a)) /\ a.begin \in Nat /\ a.end \in Nat
  BY DEF ArrayInv, Sound
<1>2. /\ LogOf(a).begin = a.begin /\ LogOf(a).end = a.end
      /\ LogOf(a).next_undo = Number(a, a.next_undo)
      /\ LogOf(a).next_redo = Number(a, a.next_redo)
  BY LogFields
<1>3. ASSUME NEW type \in RequestTypes, A!Add(type),
             type # "DO" => Candidate(LogOf(a), type) # None
      PROVE  ArrayInv' /\ LogNext(LogOf(a), LogOf(a)')
  <2>1. PICK n \in 0 .. (MaxEnd - 1), at \in Addresses :
          (a.begin = a.end \/ n = a.end) /\ a' = A!AddRequest(A!MadeRoom(a, at), n, type)
    BY <1>3 DEF A!Add
  <2> DEFINE r == A!MadeRoom(a, at)
  <2>2. /\ Structures(r) /\ Sound(r) /\ LogOf(r) = LogOf(a)
        /\ r.offset + A!Count(r) < r.alloc
    BY <1>1, RoomIsMade
  <2>3. n \in Nat /\ CanAdd(LogOf(a), n)
    BY <1>2, <2>1, MaxEndAssumption DEF CanAdd, IsEmpty
  <2> HIDE DEF r
  <2>4. a' = A!AddRequest(r, n, type)
    BY <2>1 DEF r
  <2>5. /\ Structures(a') /\ Sound(a') /\ GoodLog(LogOf(a'))
        /\ LogOf(a') = AddRequest(LogOf(a), [type |-> type], n)
    BY <1>1, <1>3, <2>2, <2>3, <2>4, AddedIsAdded
  <2> QED BY <1>3, <2>1, <2>3, <2>5 DEF ArrayInv, LogNext
<1>4. CASE A!AddDo
  BY <1>3, <1>4 DEF A!AddDo, RequestTypes
<1>5. CASE A!AddUndo
  <2>1. Candidate(LogOf(a), "UNDO") # None
    BY <1>1, <1>2, <1>5, NumberOfTarget DEF A!AddUndo, Candidate, Sound
  <2> QED BY <1>3, <1>5, <2>1 DEF A!AddUndo, RequestTypes
<1>6. CASE A!AddRedo
  <2>1. Candidate(LogOf(a), "REDO") # None
    BY <1>1, <1>2, <1>6, NumberOfTarget DEF A!AddRedo, Candidate, Sound
  <2> QED BY <1>3, <1>6, <2>1 DEF A!AddRedo, RequestTypes
<1>7. CASE A!Remove
  <2>1. PICK up_to \in a.begin .. a.end :
          ~A!IsRelated(a, up_to) /\ a' = A!RemoveRequests(a, up_to)
    BY <1>7 DEF A!Remove
  <2>2. /\ Structures(a') /\ Sound(a') /\ GoodLog(LogOf(a')) /\ CanRemove(LogOf(a), up_to)
        /\ LogOf(a') = RemoveRequests(LogOf(a), up_to)
    BY <1>1, <2>1, RemovedIsRemoved
  <2> QED BY <1>2, <2>1, <2>2 DEF ArrayInv, LogNext
<1>8. CASE A!SetBegin
  <2>1. PICK n \in 0 .. MaxEnd : a.begin = a.end /\ a' = [a EXCEPT !.begin = n, !.end = n]
    BY <1>8 DEF A!SetBegin
  <2>2. n \in Nat
    BY MaxEndAssumption
  <2>3. /\ Structures(a') /\ Sound(a') /\ GoodLog(LogOf(a')) /\ IsEmpty(LogOf(a))
        /\ LogOf(a') = SetBegin(LogOf(a), n)
    BY <1>1, <2>1, <2>2, BeginIsSet
  <2> QED BY <2>1, <2>3 DEF ArrayInv, LogNext
<1> QED BY <1>4, <1>5, <1>6, <1>7, <1>8 DEF A!Next

\* What the structure stands for does not change unless the structure does.
LEMMA LogStutters ==
  ASSUME UNCHANGED a PROVE (ArrayInv => ArrayInv') /\ UNCHANGED MappedLog
<1>1. (ArrayInv => ArrayInv')
  BY DEF ArrayInv
<1>2. UNCHANGED MappedLog
  BY DEF MappedLog, A!Field, A!NumberOf
<1> QED BY <1>1, <1>2

\* At any time the entries in use lie within the array, every pointer is NULL or points to
\* one of them where the array is now, and what they stand for is a well-formed log.
THEOREM ArraySound == ASSUME A!ArrayAssumption PROVE A!Spec => []ArrayInv
<1>1. A!Init => ArrayInv
  BY NewIsEmpty DEF A!ArrayAssumption
<1>2. ArrayInv /\ [A!Next]_a => ArrayInv'
  BY ArrayStep, LogStutters DEF A!ArrayAssumption
<1> QED BY <1>1, <1>2, PTL DEF A!Spec

\* Whether the cells of the array are moved or the array is, each operation of
\* inf-adopted-request-log.c does to the log what RequestLog says.
THEOREM ArrayImplementsLog ==
  ASSUME A!ArrayAssumption PROVE A!Spec => A!ImplementsRequestLog
<1>1. A!Init => A!Log!Init
  <2> SUFFICES ASSUME A!Init PROVE A!Log!Init
    OBVIOUS
  <2>1. LogOf(a) = EmptyLog(0)
    BY NewIsEmpty DEF A!ArrayAssumption
  <2>2. MappedLog = LogOf(a)
    BY DEF MappedLog, A!Field, A!NumberOf, Number, At, LogOf
  <2>3. MappedLog = A!Log!EmptyLog(0)
    BY <2>1, <2>2, SameOps
  <2> QED BY <2>3 DEF A!Log!Init, MappedLog
<1>2. ArrayInv /\ [A!Next]_a => [A!Log!Next]_MappedLog
  BY ArrayStep, LogNextIsNext, LogStutters DEF A!ArrayAssumption
<1>3. A!Spec => []ArrayInv
  BY ArraySound
<1> QED BY <1>1, <1>2, <1>3, PTL
        DEF A!Spec, A!ImplementsRequestLog, A!Log!Spec, MappedLog, A!Field
==============================================================================
