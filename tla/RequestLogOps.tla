---------------------------- MODULE RequestLogOps ----------------------------
(***************************************************************************)
(* The log that libinfinity keeps for every user of a session              *)
(* (inf-adopted-request-log.c), as a value and the operators on it.        *)
(*                                                                         *)
(* Requests are numbered by their user's component of the state vector.    *)
(* The entry pointers of the C structure are these numbers, NULL is None;  *)
(* how the numbers are laid out in memory is RequestLogArray's subject.    *)
(***************************************************************************)
EXTENDS Integers

None == -1          \* the NULL entry pointer

RequestTypes == {"DO", "UNDO", "REDO"}

(***************************************************************************)
(* A log is a record of                                                    *)
(*   begin, end            the requests begin .. end-1 are stored          *)
(*   request               the requests themselves (a record with a type)  *)
(*   original              the DO request at the start of the chain        *)
(*   prev, next            the neighbours in a do/undo/redo chain          *)
(*   next_undo, next_redo  what the next UNDO or REDO would refer to       *)
(***************************************************************************)
Numbers(l) == l.begin .. (l.end - 1)
TypeOf(l, n) == l.request[n].type

EmptyLog(n) ==
  [begin |-> n, end |-> n, request |-> [k \in {} |-> k],
   original |-> [k \in {} |-> k], prev |-> [k \in {} |-> k],
   next |-> [k \in {} |-> k], next_undo |-> None, next_redo |-> None]

IsEmpty(l) == l.begin = l.end

(***************************************************************************)
(* find_associated(type) walks back from the newest entry and leaps over   *)
(* each UNDO (or REDO) entry together with what it undoes (redoes).  The   *)
(* entries the loop looks at are the least set that has the newest entry   *)
(* and is closed under that leap; it stops at the one it does not leap.    *)
(***************************************************************************)
Leaps(l, type, n) == TypeOf(l, n) = type

ClosedUnderLeap(l, type, S) ==
  \A n \in S : Leaps(l, type, n) /\ l.prev[n] - 1 >= l.begin
                 => l.prev[n] - 1 \in S

Visited(l, type) ==
  {n \in Numbers(l) :
     \A S \in SUBSET Numbers(l) :
        l.end - 1 \in S /\ ClosedUnderLeap(l, type, S) => n \in S}

StopsAt(l, type) ==
  IF type = "UNDO" THEN {"DO", "REDO"} ELSE {"UNDO"}

FindAssociated(l, type) ==
  LET hits == {n \in Visited(l, type) : TypeOf(l, n) \in StopsAt(l, type)}
  IN  IF hits = {} THEN None ELSE CHOOSE n \in hits : TRUE

(***************************************************************************)
(* add_request: the entry is appended, linked to the request it undoes or  *)
(* redoes (p), and the two cached pointers move.  An empty log starts over *)
(* at the number of the request.                                           *)
(***************************************************************************)
CanAdd(l, n) == IsEmpty(l) \/ n = l.end

\* Mutant: the chain is not followed to its start.
Linked_OriginalIsPrev(l, request, n, p) ==
  LET first == IF IsEmpty(l) THEN n ELSE l.begin
      nums  == first .. n
  IN  [begin     |-> first,
       end       |-> n + 1,
       request   |-> [k \in nums |-> IF k = n THEN request ELSE l.request[k]],
       original  |-> [k \in nums |-> IF k < n THEN l.original[k]
                                    ELSE IF p = None THEN n ELSE p],
       prev      |-> [k \in nums |-> IF k = n THEN p ELSE l.prev[k]],
       next      |-> [k \in nums |-> IF k = n THEN None
                                    ELSE IF k = p THEN n ELSE l.next[k]],
       next_undo |-> l.next_undo,
       next_redo |-> l.next_redo]

Linked(l, request, n, p) ==
  LET first == IF IsEmpty(l) THEN n ELSE l.begin
      nums  == first .. n
  IN  [begin     |-> first,
       end       |-> n + 1,
       request   |-> [k \in nums |-> IF k = n THEN request ELSE l.request[k]],
       original  |-> [k \in nums |-> IF k < n THEN l.original[k]
                                    ELSE IF p = None THEN n ELSE l.original[p]],
       prev      |-> [k \in nums |-> IF k = n THEN p ELSE l.prev[k]],
       next      |-> [k \in nums |-> IF k = n THEN None
                                    ELSE IF k = p THEN n ELSE l.next[k]],
       next_undo |-> l.next_undo,
       next_redo |-> l.next_redo]

\* Mutant: a new change leaves what could be redone before it.
AddDo_KeepsRedo(l, request, n) ==
  [Linked(l, request, n, None) EXCEPT !.next_undo = n]

AddDo(l, request, n) ==
  [Linked(l, request, n, None) EXCEPT !.next_undo = n, !.next_redo = None]

\* Mutant: the request before the undone one comes next, whatever it is.
AddUndo_NoLeap(l, request, n) ==
  LET k == Linked(l, request, n, l.next_undo)
  IN  [k EXCEPT !.next_undo = IF l.next_undo > l.begin THEN l.next_undo - 1 ELSE None,
                !.next_redo = n]

AddUndo(l, request, n) ==
  LET k == Linked(l, request, n, l.next_undo)
  IN  [k EXCEPT !.next_undo = FindAssociated(k, "UNDO"), !.next_redo = n]

AddRedo(l, request, n) ==
  LET k == Linked(l, request, n, l.next_redo)
  IN  [k EXCEPT !.next_undo = n, !.next_redo = FindAssociated(k, "REDO")]

AddRequest(l, request, n) ==
  CASE request.type = "DO"   -> AddDo(l, request, n)
    [] request.type = "UNDO" -> AddUndo(l, request, n)
    [] request.type = "REDO" -> AddRedo(l, request, n)

(***************************************************************************)
(* remove_requests(up_to) forgets the oldest requests.  It must not cut a  *)
(* chain in two: is_related tells whether it would.                        *)
(***************************************************************************)
IsRelated(l, up_to) == \E n \in l.begin .. (up_to - 1) : l.next[n] >= up_to

CanRemove(l, up_to) == up_to \in l.begin .. l.end /\ ~IsRelated(l, up_to)

\* Mutant: a cached pointer stays although its request is gone.
Kept_Always(pointer, up_to) == pointer

Kept(pointer, up_to) == IF pointer < up_to THEN None ELSE pointer

RemoveRequests(l, up_to) ==
  LET nums == up_to .. (l.end - 1)
  IN  [begin     |-> up_to,
       end       |-> l.end,
       request   |-> [k \in nums |-> l.request[k]],
       original  |-> [k \in nums |-> l.original[k]],
       prev      |-> [k \in nums |-> l.prev[k]],
       next      |-> [k \in nums |-> l.next[k]],
       next_undo |-> Kept(l.next_undo, up_to),
       next_redo |-> Kept(l.next_redo, up_to)]

(***************************************************************************)
(* upper_related(n): the newest request that n .. itself are linked to,    *)
(* the first m at which nothing in n .. m points beyond m.                 *)
(***************************************************************************)
ClosedUpTo(l, n, m) == \A k \in n .. m : l.next[k] <= m

UpperRelated(l, n) ==
  CHOOSE m \in n .. (l.end - 1) :
    ClosedUpTo(l, n, m) /\ \A k \in n .. (m - 1) : ~ClosedUpTo(l, n, k)

(***************************************************************************)
(* set_begin: an empty log is told the number its next request will have.  *)
(***************************************************************************)
SetBegin(l, n) ==
  [begin |-> n, end |-> n, request |-> l.request, original |-> l.original,
   prev |-> l.prev, next |-> l.next,
   next_undo |-> l.next_undo, next_redo |-> l.next_redo]

(***************************************************************************)
(* prev_associated and original_request accept the request that would be   *)
(* appended next, and then answer from next_undo and next_redo.            *)
(***************************************************************************)
Candidate(l, type) ==
  CASE type = "DO" -> None [] type = "UNDO" -> l.next_undo
    [] type = "REDO" -> l.next_redo

PrevAssociated(l, type, n) ==
  IF n = l.end THEN Candidate(l, type) ELSE l.prev[n]

OriginalRequest(l, type, n) ==
  IF n < l.end THEN l.original[n]
  ELSE IF Candidate(l, type) = None THEN n ELSE l.original[Candidate(l, type)]
==============================================================================
