----------------------------- MODULE RequestLog -----------------------------
(***************************************************************************)
(* One user's request log as a state machine: the operations of            *)
(* inf-adopted-request-log.c in any order its guards allow.                *)
(***************************************************************************)
EXTENDS RequestLogOps

CONSTANT MaxEnd     \* bound on the request numbers

ASSUME MaxEndAssumption == MaxEnd \in Nat

VARIABLE log

Requests == [type : RequestTypes]

Init == log = EmptyLog(0)

Add(type) == \E n \in 0 .. (MaxEnd - 1) :
  /\ CanAdd(log, n)
  /\ log' = AddRequest(log, [type |-> type], n)

AddDoRequest == Add("DO")

\* The C code aborts when there is nothing to undo or redo: its callers
\* ask can_undo or can_redo first.
AddUndoRequest == log.next_undo # None /\ Add("UNDO")
AddRedoRequest == log.next_redo # None /\ Add("REDO")

Remove == \E up_to \in log.begin .. log.end :
  /\ CanRemove(log, up_to)
  /\ log' = RemoveRequests(log, up_to)

Restart == \E n \in 0 .. MaxEnd :
  /\ IsEmpty(log)
  /\ log' = SetBegin(log, n)

Next == AddDoRequest \/ AddUndoRequest \/ AddRedoRequest \/ Remove \/ Restart

Spec == Init /\ [][Next]_log

------------------------------------------------------------------------------
(* Properties *)

Pointers(l) == Numbers(l) \cup {None}

\* A log has consecutive numbers and every pointer is NULL or an entry.
TypeOK ==
  /\ log.begin \in 0 .. MaxEnd /\ log.end \in log.begin .. MaxEnd
  /\ log.request \in [Numbers(log) -> Requests]
  /\ log.original \in [Numbers(log) -> Numbers(log)]
  /\ log.prev \in [Numbers(log) -> Pointers(log)]
  /\ log.next \in [Numbers(log) -> Pointers(log)]
  /\ log.next_undo \in Pointers(log) /\ log.next_redo \in Pointers(log)

InEffect == {"DO", "REDO"}

\* Chains: prev and next are inverse, point back and forth in time, share
\* the original DO, and alternate DO UNDO REDO UNDO ... (what the assertions
\* at the end of add_request_handler say of single entries).
ChainsOK(l) ==
  \A n \in Numbers(l) :
    /\ l.prev[n] # None =>
         /\ l.prev[n] < n /\ l.next[l.prev[n]] = n
         /\ l.original[n] = l.original[l.prev[n]]
         /\ TypeOf(l, n) = "UNDO" <=> TypeOf(l, l.prev[n]) \in InEffect
    /\ l.next[n] # None => n < l.next[n] /\ l.prev[l.next[n]] = n
    /\ l.prev[n] = None <=> TypeOf(l, n) = "DO"
    /\ l.prev[n] = None <=> l.original[n] = n

\* No two UNDO links cross, and no two REDO links do: what was undone last
\* is redone first.  An UNDO link leads from an UNDO entry to its prev.
Crossing(l, m, n) ==
  /\ TypeOf(l, m) = TypeOf(l, n) /\ TypeOf(l, m) # "DO"
  /\ l.prev[m] < l.prev[n] /\ l.prev[n] < m /\ m < n

NoCrossing(l) == \A m, n \in Numbers(l) : ~Crossing(l, m, n)

ChainsNest == ChainsOK(log) /\ NoCrossing(log)

\* The pointers are caches: at any time, removals included, they are what a
\* fresh walk over the log finds.  remove_requests relies on it when it says
\* that no other entry can take the place of a removed next_undo.
\* (The walk is written here as the C loop runs it, step by step.)
Walk(l, type) ==
  LET from[n \in (l.begin - 1) .. (l.end - 1)] ==
        IF n < l.begin THEN None
        ELSE IF TypeOf(l, n) = type THEN from[l.prev[n] - 1]
        ELSE IF TypeOf(l, n) \in StopsAt(l, type) THEN n ELSE None
  IN  from[l.end - 1]

CachesExact ==
  log.next_undo = Walk(log, "UNDO") /\ log.next_redo = Walk(log, "REDO")

\* upper_related gives cleanup the next place where the log can be cut: what
\* ends there is not linked to what stays, and no shorter cut exists.
CutsAtChains == \A n \in Numbers(log) : CanRemove(log, n) =>
  /\ CanRemove(log, UpperRelated(log, n) + 1)
  /\ \A k \in (n + 1) .. UpperRelated(log, n) : ~CanRemove(log, k)

\* The log's cached pointers are what a walk over it finds, and it is cut only
\* between chains.
LogExact == CachesExact /\ CutsAtChains

(***************************************************************************)
(* The log implements a linear undo history.  A change is the number of    *)
(* its DO request; it is in effect when its chain ends with a DO or REDO,  *)
(* and can be redone when the chain ends with an UNDO that no later DO     *)
(* follows.                                                                *)
(***************************************************************************)
Changes(l) == {n \in Numbers(l) : TypeOf(l, n) = "DO"}

EndsWith(l, n, types) ==
  \E k \in Numbers(l) : /\ l.original[k] = n /\ l.next[k] = None
                        /\ TypeOf(l, k) \in types

UndoableChanges(l) == {n \in Changes(l) : EndsWith(l, n, InEffect)}

RedoableChanges(l) ==
  {n \in Changes(l) :
     \E k \in Numbers(l) : /\ l.original[k] = n /\ l.next[k] = None
                           /\ TypeOf(l, k) = "UNDO"
                           /\ \A m \in Changes(l) : m < k}

History == INSTANCE UndoHistory WITH Ids <- 0 .. MaxEnd,
                                     undoable <- UndoableChanges(log),
                                     redoable <- RedoableChanges(log)

\* Every history of log operations is a history of the linear undo model.
ImplementsUndoHistory == History!Spec
==============================================================================
