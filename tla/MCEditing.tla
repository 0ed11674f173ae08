------------------------------ MODULE MCEditing ------------------------------
(* Users of a short text, for TLC.  Two who undo and redo: as much as they like, *)
(* or with a log that holds three requests, when the text is saved from time to  *)
(* time; or as many as the constants say, who do what the constants say.  In a   *)
(* behavior one of this happens.                                                 *)
EXTENDS AdoptedReplicas

VARIABLE part

(* Values of the constants *)
TwoUsers == {1, 2}
ThreeUsers == {1, 2, 3}

\* The orders in which sites look at the users: the same or opposite ones.
Upwards == [s \in Sites |-> SetToSortSeq(Users, LAMBDA u, v : u < v)]
Mixed == [s \in Sites |->
            SetToSortSeq(Users, LAMBDA u, v : IF s % 2 = 0 THEN u < v ELSE u > v)]

OneChar == <<1>>
TwoChars == <<1, 2>>

OneEach == [u \in Users |-> 1]
TwoEach == [u \in Users |-> 2]
TwoOneOne == [u \in Users |-> IF u = 1 THEN 2 ELSE 1]
ZeroOneOne == [u \in Users |-> IF u = 1 THEN 0 ELSE 1]
JustOneEach == {OneEach}
JustTwoEach == {TwoEach}
JustTwoOneOne == {TwoOneOne}

------------------------------------------------------------------------------
(* The users of the constants *)

editingVars == <<part, vars>>

GivenInit == part = "given" /\ Init
InGiven == part = "given" /\ UNCHANGED part

GivenSpec == GivenInit /\ [][InGiven /\ Next]_editingVars

\* Users who only type.
Typing ==
  \/ \E u \in Users :
       \/ InGiven /\ InsertText(u)
       \/ InGiven /\ EraseText(u)
  \/ \E s \in Sites, u \in Users : InGiven /\ ReceiveFrom(s, u)
TypingSpec == GivenInit /\ [][Typing]_editingVars

------------------------------------------------------------------------------
(* Two users who undo *)

\* The two sites look at the users in opposite orders.
MixedOrders == [s \in {1, 2} |-> IF s = 1 THEN <<2, 1>> ELSE <<1, 2>>]

Long == INSTANCE AdoptedReplicas WITH
  Users <- {1, 2}, Observers <- {}, Orders <- MixedOrders,
  InitialText <- <<1, 2>>, MaxRequests <- {<<2, 2>>, <<3, 1>>}, MaxInserts <- <<1, 1>>,
  MaxErase <- 2, Kinds <- {"insert", "erase", "undo", "redo"}, MaxTotalLogSize <- 100

Short == INSTANCE AdoptedReplicas WITH
  Users <- {1, 2}, Observers <- {}, Orders <- MixedOrders,
  InitialText <- <<>>, MaxRequests <- {<<3, 2>>, <<4, 1>>}, MaxInserts <- <<2, 1>>,
  MaxErase <- 1, Kinds <- {"insert", "undo", "redo", "noop", "save"}, MaxTotalLogSize <- 3

EditingInit ==
  \/ part = "long" /\ Long!Init
  \/ part = "short" /\ Short!Init

InLong == part = "long" /\ UNCHANGED part
InShort == part = "short" /\ UNCHANGED part

LongMoves ==
  \/ \E u \in 1 .. 2 :
       \/ InLong /\ Long!InsertText(u)
       \/ InLong /\ Long!EraseText(u)
       \/ InLong /\ Long!Undo(u)
       \/ InLong /\ Long!Redo(u)
  \/ \E s, u \in 1 .. 2 : InLong /\ Long!ReceiveFrom(s, u)

ShortMoves ==
  \/ \E u \in 1 .. 2 :
       \/ InShort /\ Short!InsertText(u)
       \/ InShort /\ Short!Undo(u)
       \/ InShort /\ Short!Redo(u)
       \/ InShort /\ Short!SendNoop(u)
  \/ \E s, u \in 1 .. 2 : InShort /\ Short!ReceiveFrom(s, u)
  \/ \E s \in 1 .. 2 : InShort /\ Short!Save(s)

EditingSpec == EditingInit /\ [][LongMoves \/ ShortMoves]_editingVars

------------------------------------------------------------------------------
(* Properties, stated in AdoptedReplicas *)

\* A change that was undone leaves no trace.
UndoLeavesNoTrace == part = "long" => Long!UndoRestores

\* The sites' logs of a user agree, reconstructed deletions included, and a cached
\* translation is what a fresh one gives.
LogsExact == part = "long" => Long!LogsAgree /\ Long!CacheCoherent

\* No cleanup of the log takes what a message on its way, or an undo that is
\* allowed, refers to.
CleanupKeepsNeeded == part = "short" => Short!CleanupSafe

\* A buffer that is not marked modified is what was saved.
FlagTellsUnsaved == part = "short" => Short!UnmodifiedIsSaved
==============================================================================
