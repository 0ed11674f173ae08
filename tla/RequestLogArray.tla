--------------------------- MODULE RequestLogArray ---------------------------
(***************************************************************************)
(* How inf-adopted-request-log.c keeps a log in memory: an array of which  *)
(* the cells offset .. offset + (end - begin) - 1 are in use, with         *)
(* pointers from cell to cell.  Removing requests advances the offset;     *)
(* when the array is full, the cells move to its start or the array is     *)
(* enlarged, perhaps elsewhere, and every pointer has to move along.       *)
(* It implements RequestLog, whose pointers are request numbers.           *)
(***************************************************************************)
EXTENDS Integers

CONSTANTS MaxEnd,     \* bound on the request numbers
          Inc,        \* INF_ADOPTED_REQUEST_LOG_INC
          Addresses   \* where the allocator can place the array

ArrayAssumption ==
  MaxEnd \in Nat /\ Inc \in Nat \ {0} /\ Addresses # {}

RequestTypes == {"DO", "UNDO", "REDO"}

VARIABLE a   \* the private structure of the log object

\* A pointer is a cell of the array at some address, or NULL.
Null == [at |-> "NULL", index |-> -1]
Ptr(at, i) == [at |-> at, index |-> i]

Count(s) == s.end - s.begin
Full(s) == s.offset + Count(s) = s.alloc
CellsOf(s) == 0 .. (s.alloc - 1)
UsedCells(s) == s.offset .. (s.offset + Count(s) - 1)

\* The content of a cell nobody wrote yet, or whose request was released.
Junk == [type |-> "NONE", original |-> Null, prev |-> Null, next |-> Null]

Init == \E at \in Addresses :
  a = [entries |-> at, alloc |-> Inc, offset |-> 0, begin |-> 0, end |-> 0,
       cell |-> [i \in 0 .. (Inc - 1) |-> Junk],
       next_undo |-> Null, next_redo |-> Null]

------------------------------------------------------------------------------
(* Making room *)

\* A pointer after its entry has moved by so many cells, to the array at `at`.
Adjust(p, at, by) == IF p = Null THEN Null ELSE Ptr(at, p.index - by)

AdjustEntry(e, at, by) ==
  [type |-> e.type, original |-> Adjust(e.original, at, by),
   prev |-> Adjust(e.prev, at, by), next |-> Adjust(e.next, at, by)]

\* g_memmove to the start of the array, then subtract the offset everywhere.
\* What the move leaves behind the last entry is never read.
Compact(s) ==
  LET cell == [i \in CellsOf(s) |->
                 IF i < Count(s) THEN AdjustEntry(s.cell[i + s.offset], s.entries, s.offset)
                 ELSE Junk]
  IN  [s EXCEPT !.offset = 0, !.cell = cell,
                !.next_undo = Adjust(@, s.entries, s.offset),
                !.next_redo = Adjust(@, s.entries, s.offset)]

\* g_realloc, which may or may not move the array.  The offset is 0, and the
\* array is full: all of its cells hold entries.
Enlarge(s, at) ==
  [s EXCEPT
    !.entries = at,
    !.alloc = @ + Inc,
    !.cell = [i \in 0 .. (s.alloc + Inc - 1) |->
                IF i < s.alloc THEN AdjustEntry(s.cell[i], at, 0) ELSE Junk],
    !.next_undo = Adjust(@, at, 0),
    !.next_redo = Adjust(@, at, 0)]

MadeRoom(s, at) ==
  IF ~Full(s) THEN s ELSE IF s.offset > 0 THEN Compact(s) ELSE Enlarge(s, at)

------------------------------------------------------------------------------
(* Adding and removing requests *)

\* The loop of find_associated, from the newest cell down to the offset.
FindAssociated(s, type) ==
  LET from[i \in (s.offset - 1) .. (s.offset + Count(s) - 1)] ==
        IF i < s.offset THEN Null
        ELSE IF s.cell[i].type = type THEN from[s.cell[i].prev.index - 1]
        ELSE IF s.cell[i].type = "DO" /\ type = "REDO" THEN Null
        ELSE Ptr(s.entries, i)
  IN  from[s.offset + Count(s) - 1]

\* The tail of add_request_handler: a fresh entry behind the last one, p being
\* the entry that it undoes or redoes.
Appended(s, n, type, p) ==
  LET b     == IF s.begin = s.end THEN n ELSE s.begin
      i     == s.offset + Count(s)
      entry == [type |-> type, prev |-> p, next |-> Null,
                original |-> IF p = Null THEN Ptr(s.entries, i)
                             ELSE s.cell[p.index].original]
  IN  [s EXCEPT
        !.begin = b, !.end = n + 1,
        !.cell = [k \in CellsOf(s) |->
                    IF k = i THEN entry
                    ELSE IF p # Null /\ k = p.index
                         THEN [@[k] EXCEPT !.next = Ptr(s.entries, i)]
                    ELSE @[k]]]

Newest(s) == Ptr(s.entries, s.offset + Count(s) - 1)

AddRequest(s, n, type) ==
  CASE type = "DO" ->
         LET k == Appended(s, n, type, Null)
         IN  [k EXCEPT !.next_undo = Newest(k), !.next_redo = Null]
    [] type = "UNDO" ->
         LET k == Appended(s, n, type, s.next_undo)
         IN  [k EXCEPT !.next_undo = FindAssociated(k, type), !.next_redo = Newest(k)]
    [] type = "REDO" ->
         LET k == Appended(s, n, type, s.next_redo)
         IN  [k EXCEPT !.next_undo = Newest(k), !.next_redo = FindAssociated(k, type)]

Add(type) == \E n \in 0 .. (MaxEnd - 1), at \in Addresses :
  /\ a.begin = a.end \/ n = a.end
  /\ a' = AddRequest(MadeRoom(a, at), n, type)

AddDo == Add("DO")
AddUndo == a.next_undo # Null /\ Add("UNDO")
AddRedo == a.next_redo # Null /\ Add("REDO")

\* is_related turns the pointer back into a request number to compare it.
IsRelated(s, up_to) ==
  \E i \in s.offset .. (s.offset + (up_to - s.begin) - 1) :
    /\ s.cell[i].next # Null
    /\ s.begin + (s.cell[i].next.index - s.offset) >= up_to

RemoveRequests(s, up_to) ==
  LET first == s.offset + (up_to - s.begin)
      Keep(p) == IF p # Null /\ p.index < first THEN Null ELSE p
  IN  [s EXCEPT !.begin = up_to, !.offset = first,
                !.next_undo = Keep(@), !.next_redo = Keep(@)]

Remove == \E up_to \in a.begin .. a.end :
  /\ ~IsRelated(a, up_to)
  /\ a' = RemoveRequests(a, up_to)

SetBegin == \E n \in 0 .. MaxEnd :
  /\ a.begin = a.end
  /\ a' = [a EXCEPT !.begin = n, !.end = n]

Next == AddDo \/ AddUndo \/ AddRedo \/ Remove \/ SetBegin

Spec == Init /\ [][Next]_a

------------------------------------------------------------------------------
(* Properties *)

\* The request number a pointer stands for; none if it points to where the array
\* was before it moved.
NumberOf(p) ==
  IF p = Null THEN -1
  ELSE IF p.at = a.entries THEN a.begin + (p.index - a.offset) ELSE -2

Field(F(_)) == [n \in a.begin .. (a.end - 1) |-> F(a.cell[a.offset + (n - a.begin)])]

Log == INSTANCE RequestLog WITH log <-
  [begin     |-> a.begin,
   end       |-> a.end,
   request   |-> Field(LAMBDA e : [type |-> e.type]),
   original  |-> Field(LAMBDA e : NumberOf(e.original)),
   prev      |-> Field(LAMBDA e : NumberOf(e.prev)),
   next      |-> Field(LAMBDA e : NumberOf(e.next)),
   next_undo |-> NumberOf(a.next_undo),
   next_redo |-> NumberOf(a.next_redo)]

\* Whatever the layout, the operations do to the log what RequestLog says,
\* across moves of the cells and of the array.
ImplementsRequestLog == Log!Spec
==============================================================================
