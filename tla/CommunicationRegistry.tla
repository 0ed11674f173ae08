------------------------ MODULE CommunicationRegistry ------------------------
(***************************************************************************)
(* InfCommunicationRegistry, for one connection and the groups that send   *)
(* over it.  Each group has an entry with a queue.  What is handed to the  *)
(* connection, a bunch at a time, is counted in inner_count until the      *)
(* connection has sent it.  An entry that is unregistered with messages    *)
(* pending stays until they are gone, and may be registered again before:  *)
(* activation_count then says how many of the messages to come belong to   *)
(* the time before.                                                        *)
(*                                                                         *)
(* The connection sends later than it is told to, as InfXmppConnection     *)
(* does.  "sent" is reported message by message, and the group's method,   *)
(* when it is called, may call the registry before it returns.             *)
(***************************************************************************)
EXTENDS Naturals, Sequences, FiniteSets

CONSTANTS Groups,           \* the groups of the connection
          Permanent,        \* those that it belongs to as long as it is open
          InnerQueueLimit,  \* INF_COMMUNICATION_REGISTRY_INNER_QUEUE_LIMIT
          MaxMessages,      \* bound on the messages of each group
          MaxPeriods,       \* bound on the registrations of each group
          NoGroup

ASSUME RegistryAssumption ==
  /\ IsFiniteSet(Groups) /\ NoGroup \notin Groups
  /\ Permanent \subseteq Groups /\ Permanent # {}
  /\ InnerQueueLimit \in Nat \ {0} /\ MaxMessages \in Nat /\ MaxPeriods \in Nat

VARIABLES status,         \* of the connection: "open" or "closed"
          registrations,  \* how many groups the connection is registered for
          first,          \* whose status handler runs before the registry's
          entry,          \* the registry's entry for every group
          wire,           \* bunches which the connection was told to send
          sending,        \* the bunch that is being reported as sent
          calling,        \* the method has been called and has not returned
          failed,         \* an assertion has failed
          period,         \* history: the registrations of every group so far
          scheduled,      \* history: the messages of every group so far
          forgotten       \* history: early messages were cancelled this period

vars == <<status, registrations, first, entry, wire, sending, calling, failed,
          period, scheduled, forgotten>>

\* A message knows its place among those of its group, and the registration
\* during which it was sent.
Messages == [number : Nat, period : Nat]
Bunches == [group : Groups \cup {NoGroup}, messages : Seq(Messages)]
Entries == [registered : BOOLEAN, inner_count : Nat, queue : Seq(Messages),
            activation_count : Nat]

Idle == [group |-> NoGroup, messages |-> <<>>]

\* Stands for a group that has no entry in the table.
NoEntry == [registered |-> FALSE, inner_count |-> 0, queue |-> <<>>,
            activation_count |-> 0]
NewEntry == [NoEntry EXCEPT !.registered = TRUE]

Registered == {g \in Groups : entry[g].registered}

\* The handlers are connected while some group is registered.
Listening == registrations > 0

Init ==
  /\ status = "open"
  /\ registrations = Cardinality(Permanent)
  /\ first \in Permanent
  /\ entry = [g \in Groups |-> IF g \in Permanent THEN NewEntry ELSE NoEntry]
  /\ wire = <<>> /\ sending = Idle /\ calling = FALSE /\ failed = FALSE
  /\ period = [g \in Groups |-> IF g \in Permanent THEN 1 ELSE 0]
  /\ scheduled = [g \in Groups |-> 0]
  /\ forgotten = [g \in Groups |-> FALSE]

------------------------------------------------------------------------------
(* Sending *)

\* How many messages send_real takes from the queue, and what it leaves.
BunchSize(e) == IF Len(e.queue) < InnerQueueLimit THEN Len(e.queue) ELSE InnerQueueLimit
Bunch(g, e) == [group |-> g, messages |-> SubSeq(e.queue, 1, BunchSize(e))]
\* Mutant: the last message of a bunch stays in the queue.
AfterBunch_OneTooFew(e) ==
  [e EXCEPT !.queue = SubSeq(@, BunchSize(e), Len(@)),
            !.inner_count = @ + BunchSize(e)]

AfterBunch(e) ==
  [e EXCEPT !.queue = SubSeq(@, BunchSize(e) + 1, Len(@)),
            !.inner_count = @ + BunchSize(e)]

\* Mutant: the next bunch does not wait for the one before.
StoreAndSend_AtOnce(g, e) ==
  IF e.queue # <<>>
  THEN /\ entry' = [entry EXCEPT ![g] = AfterBunch(e)]
       /\ wire' = Append(wire, Bunch(g, e))
  ELSE /\ entry' = [entry EXCEPT ![g] = e]
       /\ UNCHANGED wire

\* Entry e of group g is stored; if nothing of it is on its way any more, the
\* next messages are handed to the connection.
StoreAndSend(g, e) ==
  IF e.inner_count = 0 /\ e.queue # <<>>
  THEN /\ entry' = [entry EXCEPT ![g] = AfterBunch(e)]
       /\ wire' = Append(wire, Bunch(g, e))
  ELSE /\ entry' = [entry EXCEPT ![g] = e]
       /\ UNCHANGED wire

------------------------------------------------------------------------------
(* Calls of the registry: outside of its callbacks, or from the method's *)

MayCall == ~failed /\ (sending = Idle \/ calling)

Send(g) ==
  /\ MayCall /\ entry[g].registered
  /\ scheduled[g] < MaxMessages
  /\ scheduled' = [scheduled EXCEPT ![g] = @ + 1]
  /\ LET xml == [number |-> scheduled[g] + 1, period |-> period[g]]
     IN  StoreAndSend(g, [entry[g] EXCEPT !.queue = Append(@, xml)])
  /\ UNCHANGED <<status, registrations, first, sending, calling, failed, period, forgotten>>

CancelMessages(g) ==
  /\ MayCall /\ entry[g].registered
  /\ entry' = [entry EXCEPT ![g].queue = <<>>]
  /\ forgotten' = [forgotten EXCEPT
       ![g] = @ \/ entry[g].activation_count > entry[g].inner_count]
  /\ UNCHANGED <<status, registrations, first, wire, sending, calling, failed,
                 period, scheduled>>

\* Assumed of the callers: a group that lost its entry comes back under its name
\* only after what its predecessor left to the connection is gone.
Settled(g) == entry[g] = NoEntry => \A i \in DOMAIN wire : wire[i].group # g

\* Mutant: an entry that is registered again starts as a new one.
Register_Reset(g) ==
  /\ MayCall /\ status = "open" /\ ~entry[g].registered
  /\ Settled(g) /\ period[g] < MaxPeriods
  /\ registrations' = registrations + 1
  /\ first' = IF Listening THEN first ELSE g
  /\ entry' = [entry EXCEPT ![g].registered = TRUE, ![g].activation_count = 0]
  /\ period' = [period EXCEPT ![g] = @ + 1]
  /\ forgotten' = [forgotten EXCEPT ![g] = FALSE]
  /\ UNCHANGED <<status, wire, sending, calling, failed, scheduled>>

Register(g) ==
  /\ MayCall /\ status = "open" /\ ~entry[g].registered
  /\ Settled(g) /\ period[g] < MaxPeriods
  /\ registrations' = registrations + 1
  /\ first' = IF Listening THEN first ELSE g
  /\ entry' = [entry EXCEPT ![g].registered = TRUE]
  /\ period' = [period EXCEPT ![g] = @ + 1]
  /\ forgotten' = [forgotten EXCEPT ![g] = FALSE]
  /\ UNCHANGED <<status, wire, sending, calling, failed, scheduled>>

Pending(e) == e.queue # <<>> \/ e.inner_count > 0

\* Mutant: only what is queued counts as pending.
Unregister_QueueOnly(g) ==
  /\ MayCall /\ status = "open" /\ entry[g].registered
  /\ g \notin Permanent
  /\ entry' = [entry EXCEPT ![g] =
       IF Pending(@)
       THEN [@ EXCEPT !.registered = FALSE,
                      !.activation_count = Len(entry[g].queue)]
       ELSE NoEntry]
  /\ registrations' = registrations - 1
  /\ first' = IF first = g THEN NoGroup ELSE first
  /\ UNCHANGED <<status, wire, sending, calling, failed, period, scheduled, forgotten>>

Unregister(g) ==
  /\ MayCall /\ status = "open" /\ entry[g].registered
  /\ g \notin Permanent
  /\ entry' = [entry EXCEPT ![g] =
       IF Pending(@)
       THEN [@ EXCEPT !.registered = FALSE,
                      !.activation_count = entry[g].inner_count + Len(entry[g].queue)]
       ELSE NoEntry]
  /\ registrations' = registrations - 1
  /\ first' = IF first = g THEN NoGroup ELSE first
  /\ UNCHANGED <<status, wire, sending, calling, failed, period, scheduled, forgotten>>

------------------------------------------------------------------------------
(* The connection has sent a bunch *)

\* The group's entry is looked up; without one, or without the handler, the
\* signal has no effect.
ConnectionSent ==
  /\ ~failed /\ sending = Idle /\ wire # <<>>
  /\ wire' = Tail(wire)
  /\ sending' = IF Listening /\ entry[Head(wire).group] # NoEntry
                THEN Head(wire) ELSE Idle
  /\ UNCHANGED <<status, registrations, first, entry, calling, failed, period,
                 scheduled, forgotten>>

\* One message less is on its way, and one less until activation.
Counted(e) ==
  [e EXCEPT !.inner_count = @ - 1,
            !.activation_count = IF @ > 0 THEN @ - 1 ELSE 0]

Reporting(g) == ~failed /\ sending.group = g /\ ~calling /\ sending.messages # <<>>

NextMessage(g) ==
  /\ entry' = [entry EXCEPT ![g] = Counted(@)]
  /\ sending' = [sending EXCEPT !.messages = Tail(@)]

\* A message that was sent before the last registration is only counted.
SkipMessage(g) ==
  /\ Reporting(g) /\ entry[g].activation_count > 0
  /\ failed' = (entry[g].inner_count = 0)
  /\ NextMessage(g)
  /\ UNCHANGED <<status, registrations, first, wire, calling, period, scheduled, forgotten>>

\* The method is told of the others, and can be told only while registered.
CallSent(g) ==
  /\ Reporting(g) /\ entry[g].activation_count = 0
  /\ failed' = (entry[g].inner_count = 0 \/ ~entry[g].registered)
  /\ calling' = TRUE
  /\ UNCHANGED <<status, registrations, first, entry, wire, sending, period,
                 scheduled, forgotten>>

\* If the method has unregistered the group, the message that it was called
\* for is among those that activation_count counts.
SentReturns(g) ==
  /\ ~failed /\ calling /\ sending.group = g
  /\ calling' = FALSE
  /\ NextMessage(g)
  /\ UNCHANGED <<status, registrations, first, wire, failed, period, scheduled, forgotten>>

\* After the loop the next bunch is sent, or the entry is removed.  (Its queue
\* is empty then, as activation_count counts the queue.)
AllReported(g) ==
  /\ ~failed /\ sending.group = g /\ sending.messages = <<>>
  /\ sending' = Idle
  /\ IF ~entry[g].registered /\ entry[g].activation_count = 0
     THEN entry' = [entry EXCEPT ![g] = NoEntry] /\ UNCHANGED wire
     ELSE StoreAndSend(g, entry[g])
  /\ UNCHANGED <<status, registrations, first, calling, failed, period, scheduled, forgotten>>

Report(g) ==
  SkipMessage(g) \/ CallSent(g) \/ SentReturns(g) \/ AllReported(g)

------------------------------------------------------------------------------
(* The end of a connection, and of a group *)

\* The handlers of "status" run in the order in which they were connected: the
\* method of the group that came first, the registry, the other methods.  Each
\* method unregisters its group; the registry removes what is unregistered,
\* but not if its handler was disconnected along with the last registration.
RegistryIsTold == Registered # {first}

Close ==
  /\ ~failed /\ status = "open" /\ sending = Idle
  /\ status' = "closed"
  /\ entry' = [g \in Groups |->
       IF entry[g].registered \/ RegistryIsTold THEN NoEntry ELSE entry[g]]
  /\ wire' = <<>>
  /\ registrations' = 0 /\ first' = NoGroup
  /\ UNCHANGED <<sending, calling, failed, period, scheduled, forgotten>>

\* Mutant: the queue is freed with the entry.
GroupUnrefed_NoFlush(g) ==
  /\ MayCall /\ sending.group # g
  /\ ~entry[g].registered /\ entry[g] # NoEntry
  /\ entry' = [entry EXCEPT ![g] = NoEntry]
  /\ UNCHANGED <<wire, status, registrations, first, sending, calling, failed, period,
                 scheduled, forgotten>>

\* The last reference to a group goes: its entry goes with it, and the rest of
\* the queue to the connection.
GroupUnrefed(g) ==
  /\ MayCall /\ sending.group # g
  /\ ~entry[g].registered /\ entry[g] # NoEntry
  /\ entry' = [entry EXCEPT ![g] = NoEntry]
  /\ wire' = IF status = "open" /\ entry[g].queue # <<>>
             THEN Append(wire, [group |-> g, messages |-> entry[g].queue])
             ELSE wire
  /\ UNCHANGED <<status, registrations, first, sending, calling, failed, period,
                 scheduled, forgotten>>

Next ==
  \/ \E g \in Groups : Send(g) \/ CancelMessages(g) \/ Register(g) \/ Unregister(g)
  \/ \E g \in Groups : Report(g) \/ GroupUnrefed(g)
  \/ ConnectionSent \/ Close

Spec == Init /\ [][Next]_vars

\* The connection sends what it was told to send, and methods return.
FairSpec == Spec /\ WF_vars(ConnectionSent) /\ WF_vars(\E g \in Groups : Report(g))

------------------------------------------------------------------------------
(* Properties *)

TypeOK ==
  /\ status \in {"open", "closed"} /\ registrations \in Nat
  /\ first \in Groups \cup {NoGroup}
  /\ entry \in [Groups -> Entries]
  /\ wire \in Seq(Bunches) /\ sending \in Bunches
  /\ calling \in BOOLEAN /\ failed \in BOOLEAN
  /\ period \in [Groups -> Nat] /\ scheduled \in [Groups -> Nat]
  /\ forgotten \in [Groups -> BOOLEAN]

\* The assertions of sent_cb hold, whatever the methods do in between.
NoAssertionFails == ~failed

\* A group that has an entry has at most one bunch on its way, and inner_count
\* is what is left of it.  Only then is there a queue.
InnerCountOf(g) == entry[g] # NoEntry =>
  /\ \A i, j \in DOMAIN wire : wire[i].group = g /\ wire[j].group = g => i = j
  /\ \A i \in DOMAIN wire : wire[i].group = g =>
       sending.group # g /\ entry[g].inner_count = Len(wire[i].messages)
  /\ sending.group = g => entry[g].inner_count = Len(sending.messages)
  /\ sending.group # g /\ (\A i \in DOMAIN wire : wire[i].group # g) => ~Pending(entry[g])

\* inner_count is exact: too high, and nothing would ever be sent again; too
\* low, and bunches would overtake the count.
InnerCountExact == status = "open" => \A g \in Groups : InnerCountOf(g)

\* Message number i of those which group g still has to send is going to be
\* reported to the method if it belongs to the present registration, and only
\* then.
ReportedRightly(g, i, xml) ==
  LET present == entry[g].registered /\ xml.period = period[g]
  IN  /\ i > entry[g].activation_count => present
      /\ i <= entry[g].activation_count => ~present \/ forgotten[g]

AllRightly(g, before, messages) ==
  \A i \in DOMAIN messages : ReportedRightly(g, before + i, messages[i])

ReportsOf(g) == entry[g] # NoEntry =>
  /\ \A k \in DOMAIN wire : wire[k].group = g => AllRightly(g, 0, wire[k].messages)
  /\ sending.group = g => AllRightly(g, 0, sending.messages)
  /\ AllRightly(g, entry[g].inner_count, entry[g].queue)

\* Messages are reported as sent during the registration in which they were
\* passed to send: none that an earlier one has left, and all of the present
\* one, unless messages were cancelled that the earlier one had left.
ReportsMatchRegistration == status = "open" => \A g \in Groups : ReportsOf(g)

Increasing(messages) == \A i, j \in DOMAIN messages :
  i < j => messages[i].number < messages[j].number

\* Messages of one group leave in the order in which they were sent, each of
\* them once, also across registrations and the end of the group.
SentInOrder == \A g \in Groups :
  LET Of(b) == IF b.group = g THEN b.messages ELSE <<>>
      Flat[n \in 0 .. Len(wire)] == IF n = 0 THEN Of(sending) ELSE Flat[n - 1] \o Of(wire[n])
  IN  Increasing(Flat[Len(wire)] \o entry[g].queue)

Queued(g, n) == \E i \in DOMAIN entry[g].queue : entry[g].queue[i].number = n
OnWire(g, n) == \E k \in DOMAIN wire :
  wire[k].group = g /\ \E i \in DOMAIN wire[k].messages : wire[k].messages[i].number = n

\* A message leaves the queue only to be handed to the connection, unless it is
\* cancelled or the connection is closed: unregistering and the end of the
\* group do not lose it.
NothingLost == [][\A g \in Groups, n \in 1 .. MaxMessages :
  Queued(g, n) /\ ~Queued(g, n)' => OnWire(g, n)' \/ CancelMessages(g) \/ status' = "closed"]_vars

\* No queue is left waiting for ever, whether its group is registered or not, and
\* an entry that is kept after unregistering goes in the end.  (A group sends
\* finitely many messages: its queue is empty again and again.)
EverythingLeaves == \A g \in Groups :
  /\ entry[g].queue # <<>> ~> entry[g].queue = <<>> \/ status = "closed"
  /\ (entry[g] # NoEntry /\ ~entry[g].registered)
       ~> (entry[g] = NoEntry \/ entry[g].registered \/ status = "closed")
==============================================================================
