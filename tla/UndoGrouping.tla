------------------------------ MODULE UndoGrouping ------------------------------
(***************************************************************************)
(* Which changes of a local user are undone together.  The grouping keeps  *)
(* pointers into the user's request log, in a ring buffer that follows the *)
(* log: it is told of each request that is added, and forgets, by a        *)
(* reckoning of its own, what cannot be undone any more.                   *)
(* (inf-adopted-undo-grouping.c, with the parts of                         *)
(* inf-adopted-algorithm.c that it depends on)                             *)
(***************************************************************************)
EXTENDS RequestLogOps, FiniteSetsExt, SequencesExt

CONSTANTS MaxTotalLogSize,   \* of the algorithm
          FirstAlloc,        \* 16 in the code
          MaxOwn, MaxOthers, \* bounds on the requests
          MaxGroups          \* bound on the explicit groups

UndoGroupingAssumption ==
  /\ MaxTotalLogSize \in Nat \ {0} /\ FirstAlloc \in Nat \ {0}
  /\ MaxOwn \in Nat /\ MaxOthers \in Nat /\ MaxGroups \in Nat

VARIABLES log,      \* the user's; a request has the others' component of its vector
          others,   \* how many requests of others were executed
          known,    \* how many of the user's requests the others are known to have
          grouping,
          doing,    \* an undo or redo of a whole group, one step at a time
          ideal,    \* history: the changes as they can be undone and redone
          failure

groupingVars == <<log, others, known, grouping, doing, ideal, failure>>

Flags == [first_in |-> FALSE, first_after |-> FALSE, with_prev |-> FALSE, with_next |-> FALSE]

\* user: whether set_algorithm was called.  An item is the number of a request,
\* explicit is the group it was added in (history).
NoItems(g) == [g EXCEPT !.items = [i \in {} |-> i], !.n_items = 0, !.n_alloc = 0,
                        !.first_item = 0, !.item_pos = 0]

Init ==
  /\ log = EmptyLog(0) /\ others = 0 /\ known = 0
  /\ grouping = [user |-> FALSE, items |-> [i \in {} |-> i], n_items |-> 0, n_alloc |-> 0,
                 first_item |-> 0, item_pos |-> 0, group_ref |-> 0, flags |-> Flags,
                 groups |-> 0, late |-> FALSE]
  /\ doing = [what |-> "DO", left |-> 0]
  /\ ideal = [undo |-> <<>>, redo |-> <<>>]
  /\ failure = "none"

------------------------------------------------------------------------------
(* What the algorithm does with the log *)

\* The vector of a request is (number, others); of an UNDO or REDO, it is that of
\* the original but for the user's own component.
OthersAt(l, type, n) ==
  IF type = "DO" THEN others ELSE l.request[OriginalRequest(l, type, n)].others

Logged(type) ==
  AddRequest(log, [type |-> type, others |-> OthersAt(log, type, log.end)], log.end)

Vdiff(l, n, own, other) == (own - n) + (other - l.request[n].others)

CanUndoRedo(n) ==
  n # None /\ Vdiff(log, log.original[n], log.end, others) < MaxTotalLogSize

\* The others have executed all of the others' requests, and the first k of ours.
CleanLog(l, k, other) ==
  LET Droppable(n) == /\ UpperRelated(l, n) < k
                      /\ Vdiff(l, n, k, other) >= MaxTotalLogSize
      cut[n \in l.begin .. l.end] ==
        IF n < l.end /\ Droppable(n) THEN cut[UpperRelated(l, n) + 1] ELSE n
  IN  RemoveRequests(l, cut[l.begin])

------------------------------------------------------------------------------
(* The ring buffer *)

At(g, i) == (g.first_item + i) % g.n_alloc
Item(g, i) == g.items[At(g, i)]
Requests(g) == {Item(g, i).request : i \in 0 .. (g.n_items - 1)}

MaxAlloc == (MaxTotalLogSize \div 2) + 1
Least(a, b) == IF a < b THEN a ELSE b
Greatest(a, b) == IF a < b THEN b ELSE a

\* The array does not wrap around before it has its greatest size.
Enlarged(g) ==
  LET size == Greatest(Least(2 * g.n_alloc, MaxAlloc), Least(FirstAlloc, MaxAlloc))
      junk == [request |-> None, in_group |-> FALSE, explicit |-> 0]
  IN  IF g.first_item + g.item_pos = g.n_alloc /\ g.n_alloc < MaxAlloc
      THEN [g EXCEPT !.n_alloc = size,
                     !.items = [i \in 0 .. (size - 1) |-> IF i < g.n_alloc THEN g.items[i] ELSE junk]]
      ELSE g

\* What the signal handler would answer is related.
InGroup(g, related) ==
  /\ g.item_pos > 0
  /\ ~(g.flags.first_after /\ ~g.flags.with_next)
  /\ ~(g.group_ref > 0 /\ g.flags.first_in /\ ~g.flags.with_prev)
  /\ (g.group_ref > 0 /\ ~g.flags.first_in) \/ related

AddDoItem(g, n, related) ==
  LET e == Enlarged(g)
      item == [request |-> n, in_group |-> InGroup(g, related),
               explicit |-> IF g.group_ref > 0 THEN g.groups ELSE 0]
  IN  [e EXCEPT !.items[At(e, e.item_pos)] = item,
                !.item_pos = @ + 1, !.n_items = e.item_pos + 1,
                !.flags.first_in = FALSE, !.flags.first_after = FALSE]

\* The assertions of add_request.
AddFailure(g, type) ==
  CASE type = "DO" -> IF g.item_pos = Enlarged(g).n_alloc THEN "no room" ELSE "none"
    [] type = "UNDO" -> IF g.item_pos = 0 THEN "nothing to undo" ELSE "none"
    [] type = "REDO" -> IF g.item_pos = g.n_items THEN "nothing to redo" ELSE "none"

ItemAdded(g, type, n, related) ==
  CASE type = "DO" -> AddDoItem(g, n, related)
    [] type = "UNDO" -> [g EXCEPT !.item_pos = @ - 1]
    [] type = "REDO" -> [g EXCEPT !.item_pos = @ + 1]

\* Cleanup drops the first items as long as it is too late to undo them, had
\* everything behind them been undone before.  The user's vector is (l.end, other).
Age(l, other, g, i) == Vdiff(l, Item(g, i).request, l.end, other)

\* Mutant: the requests that undoing the others takes are not counted.
TooOld_AgeOnly(l, other, g, i) == Age(l, other, g, i) > MaxTotalLogSize

TooOld(l, other, g, i) == Age(l, other, g, i) + (g.item_pos - i) > MaxTotalLogSize

Cleanup(l, other, g) ==
  LET k == Min({i \in 0 .. g.item_pos : i = g.item_pos \/ ~TooOld(l, other, g, i)})
      rest == [g EXCEPT !.first_item = At(g, k), !.n_items = @ - k, !.item_pos = @ - k]
  IN  CASE g.n_items = 0 -> g
        [] g.n_items > 0 /\ (k = g.n_items \/ (k = g.item_pos /\ TooOld(l, other, g, k)))
             -> [g EXCEPT !.first_item = 0, !.n_items = 0, !.item_pos = 0]
        [] OTHER -> IF k > 0 THEN [rest EXCEPT !.items[At(g, k)].in_group = FALSE] ELSE g

\* Requests that are not in the log any more have been freed; as they are the
\* oldest ones, cleanup looks at one if there is one.
ReadsFreed(l, g) == g.user /\ \E n \in Requests(g) : n \notin Numbers(l)

------------------------------------------------------------------------------
(* Sizes *)

UndoSize(g) ==
  IF g.item_pos = 0 THEN 0
  ELSE g.item_pos - Max({i \in 0 .. (g.item_pos - 1) : i = 0 \/ ~Item(g, i).in_group})

RedoSize(g) ==
  IF g.item_pos = g.n_items THEN 0
  ELSE Min({i \in (g.item_pos + 1) .. g.n_items : i = g.n_items \/ ~Item(g, i).in_group})
         - g.item_pos

------------------------------------------------------------------------------
(* Actions *)

Alive == failure = "none"
Fails(what) == failure' = what /\ UNCHANGED <<log, others, known, grouping, ideal>>

Moved(type) ==
  CASE type = "DO" -> [undo |-> Append(ideal.undo, log.end), redo |-> <<>>]
    [] type = "UNDO" -> [undo |-> Front(ideal.undo), redo |-> <<Last(ideal.undo)>> \o ideal.redo]
    [] type = "REDO" -> [undo |-> Append(ideal.undo, Head(ideal.redo)), redo |-> Tail(ideal.redo)]

\* A request of the user: the log has it, then the grouping; the grouping is
\* cleaned up, then the log.
Generates(type, related) ==
  LET l == Logged(type)
      g == IF grouping.user THEN ItemAdded(grouping, type, log.end, related) ELSE grouping
      trouble == CASE ~grouping.user -> "none"
                   [] AddFailure(grouping, type) # "none" -> AddFailure(grouping, type)
                   [] ReadsFreed(l, g) -> "freed request"
                   [] OTHER -> "none"
  IN  IF trouble # "none" THEN Fails(trouble)
      ELSE /\ log' = CleanLog(l, known, others)
           /\ grouping' = IF g.user THEN Cleanup(l, others, g) ELSE g
           /\ ideal' = Moved(type)
           /\ UNCHANGED <<others, known, failure>>

Do == \E related \in BOOLEAN :
  /\ Alive /\ doing.left = 0 /\ log.end < MaxOwn
  /\ Generates("DO", related)
  /\ UNCHANGED doing

\* The program undoes as many requests as the grouping says, and redoes likewise.
Begin(what, size) ==
  /\ Alive /\ doing.left = 0 /\ grouping.user /\ size > 0 /\ log.end + size <= MaxOwn
  /\ doing' = [what |-> what, left |-> size]
  /\ UNCHANGED <<log, others, known, grouping, ideal, failure>>

BeginUndo == Begin("UNDO", UndoSize(grouping))
BeginRedo == Begin("REDO", RedoSize(grouping))

Candidates == [UNDO |-> log.next_undo, REDO |-> log.next_redo]

Step ==
  /\ Alive /\ doing.left > 0
  /\ IF CanUndoRedo(Candidates[doing.what])
     THEN Generates(doing.what, FALSE) /\ doing' = [doing EXCEPT !.left = @ - 1]
     ELSE Fails("impossible") /\ UNCHANGED doing

\* Another user's request, made when it had seen k of ours.
Receive == \E k \in known .. log.end :
  /\ Alive /\ doing.left = 0 /\ others < MaxOthers
  /\ IF ReadsFreed(log, grouping) THEN Fails("freed request")
     ELSE /\ others' = others + 1 /\ known' = k
          /\ grouping' = IF grouping.user THEN Cleanup(log, others + 1, grouping) ELSE grouping
          /\ log' = CleanLog(log, k, others + 1)
          /\ UNCHANGED <<ideal, failure>>
  /\ UNCHANGED doing

\* ... or a no-op, which tells how many it has seen.
ReceiveNoop == \E k \in (known + 1) .. log.end :
  /\ Alive /\ doing.left = 0
  /\ known' = k
  /\ log' = CleanLog(log, k, others)
  /\ UNCHANGED <<others, grouping, doing, ideal, failure>>

StartGroup == \E prev \in BOOLEAN :
  /\ Alive /\ doing.left = 0 /\ grouping.user /\ grouping.groups < MaxGroups
  /\ grouping' = IF grouping.group_ref > 0 THEN [grouping EXCEPT !.group_ref = @ + 1]
                 ELSE [grouping EXCEPT !.group_ref = 1, !.groups = @ + 1,
                         !.flags = [Flags EXCEPT !.first_in = TRUE, !.with_prev = prev]]
  /\ UNCHANGED <<log, others, known, doing, ideal, failure>>

EndGroup == \E next \in BOOLEAN :
  /\ Alive /\ doing.left = 0 /\ grouping.user /\ grouping.group_ref > 0
  /\ grouping' = IF grouping.group_ref > 1 THEN [grouping EXCEPT !.group_ref = @ - 1]
                 ELSE [grouping EXCEPT !.group_ref = 0,
                         !.flags = [Flags EXCEPT !.first_after = TRUE, !.with_next = next]]
  /\ UNCHANGED <<log, others, known, doing, ideal, failure>>

\* The whole log is gone through, with a cleanup after each request.  What has been
\* added so far is judged by the vector that the user has now.
Attach ==
  LET added[n \in log.begin .. log.end] ==
        IF n = log.begin THEN [g |-> [grouping EXCEPT !.user = TRUE], failure |-> "none"]
        ELSE LET before == added[n - 1]
                 type == TypeOf(log, n - 1)
             IN  IF before.failure # "none" THEN before
                 ELSE IF AddFailure(before.g, type) # "none"
                 THEN [before EXCEPT !.failure = AddFailure(before.g, type)]
                 ELSE [before EXCEPT !.g = Cleanup(log, others, ItemAdded(@, type, n - 1, FALSE))]
      after == added[log.end]
  IN  /\ Alive /\ doing.left = 0 /\ ~grouping.user
      /\ grouping' = [after.g EXCEPT !.late = log.end > 0]
      /\ failure' = IF after.failure = "none" THEN "none" ELSE "while attaching"
      /\ UNCHANGED <<log, others, known, doing, ideal>>

Detach ==
  /\ Alive /\ doing.left = 0 /\ grouping.user
  /\ grouping' = NoItems([grouping EXCEPT !.user = FALSE])
  /\ UNCHANGED <<log, others, known, doing, ideal, failure>>

Next == Do \/ BeginUndo \/ BeginRedo \/ Step \/ Receive \/ ReceiveNoop
          \/ StartGroup \/ EndGroup \/ Attach \/ Detach

Spec == Init /\ [][Next]_groupingVars

------------------------------------------------------------------------------
(* Properties *)

Undone(g) == [i \in 1 .. g.item_pos |-> Item(g, i - 1).request]
Redone(g) == [i \in 1 .. (g.n_items - g.item_pos) |-> Item(g, g.item_pos + i - 1).request]

\* How long a suffix of the changes can be undone, one after the other.
Undoable ==
  LET n == Len(ideal.undo)
      Possible(k) == ideal.undo[n - k + 1] \in Numbers(log)
                       /\ Vdiff(log, ideal.undo[n - k + 1], log.end, others) + k <= MaxTotalLogSize
  IN  Max({k \in 0 .. n : \A j \in 1 .. k : Possible(j)})

\* The grouping has exactly what can be undone and redone, one request after the
\* other, in its order; and no more than that when it was attached late.
ItemsExact ==
  Alive /\ grouping.user /\ doing.left = 0 =>
    /\ Undone(grouping) \in Suffixes(ideal.undo)
    /\ grouping.item_pos <= Undoable
    /\ ~grouping.late => grouping.item_pos = Undoable
    /\ Redone(grouping) \in {ideal.redo, <<>>}
    /\ ~grouping.late /\ CanUndoRedo(log.next_redo) => Redone(grouping) = ideal.redo

\* The requests of an explicit group are undone and redone together.
GroupsTogether ==
  Alive /\ doing.left = 0 =>
    \A i, j \in 0 .. (grouping.n_items - 1) :
      /\ Item(grouping, i).explicit = Item(grouping, j).explicit
      /\ Item(grouping, i).explicit > 0
      => (i < grouping.item_pos <=> j < grouping.item_pos)

\* A group can be undone and redone to the end, and nothing else fails: but for the
\* first change of all when everything was undone so long ago that it is just too
\* old, and a log that is gone through later.
OnlyKnownGroupingFailures ==
  /\ failure \in {"none", "freed request", "impossible", "while attaching"}
  /\ failure \in {"freed request", "impossible"} => grouping.item_pos = 0
  /\ failure = "impossible" => doing.what = "REDO"

\* "All requests in our buffers are still valid" when the grouping looks at them
\* (inf-adopted-undo-grouping.c:322).
RequestsValid == failure # "freed request"
=================================================================================
