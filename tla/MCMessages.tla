------------------------------ MODULE MCMessages ------------------------------
(* Messages on their way, for TLC: a directory's group, which stays, and the     *)
(* group of a document send through the registry; and two users' requests reach  *)
(* each other and a site without a user. In a behavior one of both happens.      *)
EXTENDS CommunicationRegistry

VARIABLES part, site, sent, got, disk

replicaVars == <<site, sent, got, disk>>

D == INSTANCE AdoptedReplicas WITH
  Users <- {1, 2}, Observers <- {0},
  Orders <- [s \in 0 .. 2 |-> IF s = 1 THEN <<2, 1>> ELSE <<1, 2>>],
  InitialText <- <<1>>, MaxRequests <- {<<2, 1>>}, MaxInserts <- <<2, 1>>, MaxErase <- 1,
  Kinds <- {"insert", "erase", "undo"}, MaxTotalLogSize <- 100

MessagesInit == part \in {"registry", "delivery"} /\ Init /\ D!Init

InRegistry == part = "registry" /\ UNCHANGED <<part, replicaVars>>
InDelivery == part = "delivery" /\ UNCHANGED <<part, vars>>

RegistryMoves ==
  \/ InRegistry /\ ConnectionSent
  \/ InRegistry /\ Close
  \/ \E g \in Groups :
       \/ InRegistry /\ Send(g)
       \/ InRegistry /\ CancelMessages(g)
       \/ InRegistry /\ Register(g)
       \/ InRegistry /\ Unregister(g)
       \/ InRegistry /\ Report(g)
       \/ InRegistry /\ GroupUnrefed(g)

DeliveryMoves ==
  \/ \E u \in 1 .. 2 :
       \/ InDelivery /\ D!InsertText(u)
       \/ InDelivery /\ D!EraseText(u)
       \/ InDelivery /\ D!Undo(u)
  \/ \E s \in D!Sites, u \in 1 .. 2 : InDelivery /\ D!ReceiveFrom(s, u)

MessagesNext == RegistryMoves \/ DeliveryMoves

\* The connections send and deliver what they accepted, and methods return.
MessagesSpec ==
  /\ MessagesInit /\ [][MessagesNext]_<<part, vars, replicaVars>>
  /\ WF_vars(ConnectionSent) /\ WF_vars(\E g \in Groups : Report(g))
  /\ WF_got(\E s \in 0 .. 2, u \in 1 .. 2 : D!Delivers(s, u))

\* What a site believes the others to have seen, they have seen; and its queue holds
\* exactly the requests that came too early, once each.
ReceptionExact == D!BeliefsTrue /\ D!QueueExact

\* No queue stays for ever: neither one of messages to be sent, nor an entry that is
\* not needed any more, nor one of requests that came too early.
QueuesEmpty == EverythingLeaves /\ D!EverythingExecuted
================================================================================
