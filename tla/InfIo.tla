--------------------------------- MODULE InfIo ---------------------------------
(***************************************************************************)
(* What InfIo promises to whoever adds a watch, a timeout or a dispatch:   *)
(* callbacks run one at a time, a timeout and a dispatch at most once, and *)
(* none after it was removed; the data that was passed with it is released *)
(* once, when no callback is using it any more.                            *)
(***************************************************************************)
CONSTANTS Watches, Timeouts, Dispatches

Handles == Watches \cup Timeouts \cup Dispatches

\* "new", "there", "called", "leaving" (removed while it is called) or "gone"
VARIABLE handle

Init == handle = [h \in Handles |-> "new"]

Goes(h, from, to) == handle[h] = from /\ handle' = [handle EXCEPT ![h] = to]

Add(h) == Goes(h, "new", "there")

Call(h) ==
  /\ \A k \in Handles : handle[k] \notin {"called", "leaving"}
  /\ Goes(h, "there", "called")

Remove(h) == Goes(h, "there", "gone") \/ (h \in Watches /\ Goes(h, "called", "leaving"))

Return(h) ==
  \/ h \in Watches /\ Goes(h, "called", "there")
  \/ h \notin Watches /\ Goes(h, "called", "gone")
  \/ Goes(h, "leaving", "gone")

\* The loop is disposed of, and everything that is still there goes with it.
Finalize ==
  /\ \A h \in Handles : handle[h] \notin {"called", "leaving"}
  /\ handle' = [h \in Handles |-> IF handle[h] = "there" THEN "gone" ELSE handle[h]]

Next == Finalize \/ \E h \in Handles : Add(h) \/ Call(h) \/ Remove(h) \/ Return(h)

Spec == Init /\ [][Next]_handle
================================================================================
