----------------------------- MODULE UndoHistory -----------------------------
(***************************************************************************)
(* What the undo machinery promises one user: a linear history with a      *)
(* cursor.  Undo takes back the newest change that is in effect, redo      *)
(* brings back the oldest one that was taken back, a new change drops what *)
(* could be redone, and the oldest part of the history may be forgotten.   *)
(***************************************************************************)
EXTENDS Naturals

CONSTANT Ids    \* the numbers that changes can have

VARIABLES undoable,    \* numbers of the changes in effect
          redoable     \* numbers of the changes taken back

history == <<undoable, redoable>>

IsNewest(n, S) == n \in S /\ \A m \in S : m <= n
IsOldest(n, S) == n \in S /\ \A m \in S : n <= m

Init == undoable = {} /\ redoable = {}

Do == \E n \in Ids :
  /\ \A m \in undoable \cup redoable : m < n
  /\ undoable' = undoable \cup {n}
  /\ redoable' = {}

Undo == \E n \in undoable :
  /\ IsNewest(n, undoable)
  /\ undoable' = undoable \ {n}
  /\ redoable' = redoable \cup {n}

Redo == \E n \in redoable :
  /\ IsOldest(n, redoable)
  /\ undoable' = undoable \cup {n}
  /\ redoable' = redoable \ {n}

(***************************************************************************)
(* Forgetting starts at the old end: what remains to be redone is either   *)
(* everything or nothing, since a redo without its predecessors would be   *)
(* out of order.                                                           *)
(***************************************************************************)
Forget == \E up_to \in Ids :
  /\ undoable' = {n \in undoable : n >= up_to}
  /\ redoable' = {n \in redoable : n >= up_to}
  /\ redoable' \in {redoable, {}}

Next == Do \/ Undo \/ Redo \/ Forget

Spec == Init /\ [][Next]_history
==============================================================================
