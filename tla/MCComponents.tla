---------------------------- MODULE MCComponents ----------------------------
(* Components on their own, for TLC: the request log, the array that keeps it in *)
(* memory, which fills up, is compacted and is enlarged several times, the        *)
(* grouping of undo steps, a connection, and the two event loops. In a behavior   *)
(* one of them moves, and the others stay as they were at the start.              *)
EXTENDS RequestLogProofs

CONSTANTS ArrayEnd, Inc, Addresses, Scenarios, Watches, Timeouts, Dispatches, SocketOf, Programs
CONSTANTS MaxTotalLogSize, FirstAlloc, MaxOwn, MaxOthers, MaxGroups

VARIABLES part, array, scenario, end, line, left, broken
VARIABLES program, io, loop, ready, elapsed, used
VARIABLES userLog, others, known, grouping, doing, ideal, failure
VARIABLES gioProgram, gio, sources, main, gioReady, gioElapsed, gioUsed

undoVars == <<userLog, others, known, grouping, doing, ideal, failure>>
connectionVars == <<scenario, end, line, left, broken>>
ioVars == <<program, io, loop, ready, elapsed, used>>
gioVars == <<gioProgram, gio, sources, main, gioReady, gioElapsed, gioUsed>>

R == INSTANCE RequestLogArrayProofs WITH MaxEnd <- ArrayEnd, a <- array
U == INSTANCE UndoGrouping WITH log <- userLog
C == INSTANCE XmppConnection
S == INSTANCE StandaloneIoProofs WITH Programs <- Programs.standalone, Inc <- 1, None <- "none"
G == INSTANCE GtkIoProofs WITH Programs <- Programs.gtk, None <- "none",
  program <- gioProgram, ready <- gioReady, elapsed <- gioElapsed, used <- gioUsed

ASSUME ArrayAssumption == R!A!ArrayAssumption
ASSUME UndoGroupingAssumption == U!UndoGroupingAssumption
ASSUME LoopAssumption == S!StandaloneAssumption /\ G!GtkAssumption

------------------------------------------------------------------------------
(* Scenarios of the connection *)

Both(a, b) == [client |-> a, server |-> b]
Nothing == [send |-> 0, close |-> 0, reset |-> 0, steps |-> 1]

\* The user accepts the certificate.
Quiet ==
  [policy |-> Both("prefer unsecured", "prefer unsecured"), certificate |-> "accepted",
   incapable |-> {}, unable |-> {}, retries |-> 0, again |-> 0, rooms |-> {9},
   breaks |-> FALSE, does |-> Both(Nothing, Nothing)]
Secured == [Quiet EXCEPT !.policy = Both("only tls", "prefer tls")]

Agreeing ==
  LET policies == {"only unsecured", "prefer unsecured", "prefer tls", "only tls"}
  IN  {[Quiet EXCEPT !.policy = Both(p, q)] : p, q \in policies}

\* Messages, which the socket takes or not, and more of them from "sent".
Sending ==
  LET does(n) == [Nothing EXCEPT !.send = n]
  IN  {[x EXCEPT !.again = 1, !.rooms = {0, 1, 9}, !.does = Both(does(2), does(1))] :
         x \in {Quiet, Secured}}

\* Both ends are closed, and the connection breaks down, while messages are sent.
Closing ==
  LET does == [Nothing EXCEPT !.send = 1, !.close = 1]
  IN  {[x EXCEPT !.breaks = TRUE, !.rooms = {0, 9}, !.does = Both(does, does)] :
         x \in {Quiet, Secured}}

\* The handshake fails, or the certificate is refused.
Handshaking ==
  LET does == [Nothing EXCEPT !.close = 1]
  IN  {[Secured EXCEPT !.certificate = c, !.incapable = i, !.breaks = TRUE, !.does = Both(does, does)] :
         c \in {"ignored", "asked", "accepted", "refused"}, i \in {{}, {"client"}, {"server"}}}

\* Authentication fails, is reset, and tried again, in one step or more.
Authenticating ==
  LET does(n) == [Nothing EXCEPT !.reset = 1, !.close = 1, !.steps = n]
  IN  {[x EXCEPT !.unable = {"client", "server"}, !.retries = 1, !.breaks = TRUE,
                 !.does = Both(does(n), does(n))] : x \in {Quiet, Secured}, n \in {1, 2}}

MCScenarios == Agreeing \cup Sending \cup Closing \cup Handshaking \cup Authenticating
OnlyClosing == Closing

------------------------------------------------------------------------------
(* Programs of the event loops *)

MCSocketOf == [w \in Watches |-> IF w = "w2" THEN "s2" ELSE "s1"]

\* Watches of two sockets, one of which is watched again; a watch that changes; a
\* thread that dispatches and takes back, and one that watches while the loop
\* polls; a loop that is quit and interrupted.
NoProgram == [uses |-> {}, flags |-> {{"in"}}, threaded |-> {}, ready |-> 0, updates |-> 0,
              interrupts |-> 0]
StandalonePrograms ==
  {[NoProgram EXCEPT !.uses = {"w1", "w2", "w3"}, !.ready = 2],
   [NoProgram EXCEPT !.uses = {"w1", "d1"}, !.ready = 1, !.updates = 1,
                     !.flags = {{"in"}, {"out"}}, !.threaded = {"dispatch"}],
   [NoProgram EXCEPT !.uses = {"w1", "w2"}, !.ready = 1, !.threaded = {"watch"}],
   [NoProgram EXCEPT !.uses = {"t1", "t2"}],
   [NoProgram EXCEPT !.uses = {"t1", "d1", "d2"},
                     !.threaded = {"dispatch", "remove dispatch", "timeout"}],
   [NoProgram EXCEPT !.uses = {"t1", "w1", "d1"}, !.ready = 1, !.interrupts = 1,
                     !.threaded = {"timeout", "quit"}]}

NoGtkProgram == [uses |-> {}, threaded |-> {}, ready |-> 0, updates |-> 0]
GtkPrograms ==
  {[NoGtkProgram EXCEPT !.uses = {"w1", "w2", "w3"}, !.ready = 1, !.updates = 1],
   [NoGtkProgram EXCEPT !.uses = {"w1", "t1", "d1"}, !.ready = 1, !.threaded = {"add"}],
   [NoGtkProgram EXCEPT !.uses = {"w1", "t1", "d1"}, !.ready = 1, !.threaded = {"remove"}]}

MCPrograms == [standalone |-> StandalonePrograms, gtk |-> GtkPrograms]

\* Two timeouts.
TwoTimeouts ==
  [standalone |-> {[NoProgram EXCEPT !.uses = {"t1", "t2"}]}, gtk |-> {NoGtkProgram}]

------------------------------------------------------------------------------

ComponentsInit ==
  /\ Init /\ R!A!Init /\ U!Init /\ C!ConnectionInit /\ S!Init /\ G!Init
  /\ part \in {"log", "array", "grouping", "connection", "loop", "gtk loop"}
  /\ part # "array" => array.entries = CHOOSE at \in Addresses : TRUE
  /\ part # "connection" => scenario = Quiet
  /\ part # "loop" => program = CHOOSE p \in Programs.standalone : TRUE
  /\ part # "gtk loop" => gioProgram = CHOOSE p \in Programs.gtk : TRUE

InLog == part = "log" /\ UNCHANGED <<part, array, undoVars, connectionVars, ioVars, gioVars>>
InArray == part = "array" /\ UNCHANGED <<part, log, undoVars, connectionVars, ioVars, gioVars>>
InGrouping == part = "grouping" /\ UNCHANGED <<part, log, array, connectionVars, ioVars, gioVars>>
InConnection == part = "connection" /\ UNCHANGED <<part, log, array, undoVars, ioVars, gioVars>>
InLoop == part = "loop" /\ UNCHANGED <<part, log, array, undoVars, connectionVars, gioVars>>
InGtkLoop == part = "gtk loop" /\ UNCHANGED <<part, log, array, undoVars, connectionVars, ioVars>>

LogMoves ==
  \/ InLog /\ AddDoRequest
  \/ InLog /\ AddUndoRequest
  \/ InLog /\ AddRedoRequest
  \/ InLog /\ Remove
  \/ InLog /\ Restart

ArrayMoves ==
  \/ InArray /\ R!A!AddDo
  \/ InArray /\ R!A!AddUndo
  \/ InArray /\ R!A!AddRedo
  \/ InArray /\ R!A!Remove
  \/ InArray /\ R!A!SetBegin

GroupingMoves ==
  \/ InGrouping /\ U!Do
  \/ InGrouping /\ U!BeginUndo
  \/ InGrouping /\ U!BeginRedo
  \/ InGrouping /\ U!Step
  \/ InGrouping /\ U!Receive
  \/ InGrouping /\ U!ReceiveNoop
  \/ InGrouping /\ U!StartGroup
  \/ InGrouping /\ U!EndGroup
  \/ InGrouping /\ U!Attach
  \/ InGrouping /\ U!Detach

ConnectionMoves ==
  \/ InConnection /\ C!Connect
  \/ InConnection /\ C!Break
  \/ InConnection /\ C!Decide
  \/ \E e \in C!Sites :
       \/ InConnection /\ C!Receive(e)
       \/ InConnection /\ C!Transmit(e)
       \/ InConnection /\ C!EndOfFile(e)
       \/ InConnection /\ C!Step(e)
       \/ InConnection /\ C!SendMessage(e)
       \/ InConnection /\ C!CloseConnection(e)
       \/ InConnection /\ C!ResetAuthentication(e)

LoopMoves ==
  \/ \E w \in Watches : InLoop /\ S!AddWatch(w)
  \/ \E i \in DOMAIN io.events :
       \/ InLoop /\ S!UpdateWatch(i)
       \/ InLoop /\ S!RemoveWatch(i)
  \/ \E t \in Timeouts : InLoop /\ S!AddTimeout(t)
  \/ \E i \in DOMAIN io.timeouts : InLoop /\ S!RemoveTimeout(i)
  \/ \E d \in Dispatches : InLoop /\ S!AddDispatch(d)
  \/ \E i \in DOMAIN io.dispatchs : InLoop /\ S!RemoveDispatch(i)
  \/ InLoop /\ S!Quit
  \/ InLoop /\ S!Start
  \/ InLoop /\ S!Prepare
  \/ InLoop /\ S!PollReturns
  \/ InLoop /\ S!PollTimesOut
  \/ InLoop /\ S!Interrupted
  \/ InLoop /\ S!CallTimeout
  \/ InLoop /\ S!CallWatch
  \/ InLoop /\ S!CallDispatch
  \/ InLoop /\ S!CallNothing
  \/ InLoop /\ S!Return
  \/ InLoop /\ S!Finalize
  \/ InLoop /\ S!BecomesReady
  \/ InLoop /\ S!Elapse

GtkLoopMoves ==
  \/ \E h \in G!Handles :
       \/ InGtkLoop /\ G!Add(h)
       \/ InGtkLoop /\ G!UpdateWatch(h)
       \/ InGtkLoop /\ G!RemoveAtOnce(h)
       \/ InGtkLoop /\ G!BeginRemove(h)
       \/ InGtkLoop /\ G!EndRemove(h)
  \/ InGtkLoop /\ G!Choose
  \/ InGtkLoop /\ G!Dropped
  \/ InGtkLoop /\ G!Misled
  \/ InGtkLoop /\ G!Call
  \/ InGtkLoop /\ G!Return
  \/ InGtkLoop /\ G!Finalize
  \/ InGtkLoop /\ G!BecomesReady
  \/ InGtkLoop /\ G!Elapse

ComponentsNext ==
  LogMoves \/ ArrayMoves \/ GroupingMoves \/ ConnectionMoves \/ LoopMoves \/ GtkLoopMoves
components == <<part, log, array, undoVars, connectionVars, ioVars, gioVars>>

\* The loop's thread goes on: polling returns when there is something to return.
ComponentsSpec ==
  ComponentsInit /\ [][ComponentsNext]_components /\ WF_ioVars(S!Iterates)

(* The grouping alone *)
OnlyGroupingInit == ComponentsInit /\ part = "grouping"
GroupingSpec == OnlyGroupingInit /\ [][ComponentsNext]_components

------------------------------------------------------------------------------
(* Properties, stated where they belong *)

\* Messages arrive once and in order and are reported as sent once each; a connection
\* that is ready is secured as both policies demand; and the ends do not wait for each
\* other for ever.
ConnectionExact == C!MessagesExact /\ C!ReadyIsSecured /\ C!NoStandstill

\* No other assertions fail than those which are known to.
OnlyKnownFailures == C!OnlyKnownConnectionFailures /\ U!OnlyKnownGroupingFailures

\* The grouping has exactly what can be undone and redone, and what was grouped
\* explicitly is undone and redone together.
GroupingExact == U!ItemsExact /\ U!GroupsTogether

\* The array behaves like the log; and both loops call one thing at a time, nothing
\* after its removal, and release what was passed to them once.
Implement == R!A!ImplementsRequestLog /\ S!ImplementsInfIo /\ G!ImplementsInfIo

\* A loop that sleeps has nothing to do, and GLib's sources are those of what is there.
LoopsExact == S!NoLostWakeup /\ G!SourcesMatch

\* What is dispatched from any thread is run, as long as the loop is.
DispatchesRun == S!DispatchesRun

\* "All requests in our buffers are still valid", when the grouping looks at them
\* (inf-adopted-undo-grouping.c:322).
RequestsValid == U!RequestsValid

------------------------------------------------------------------------------
(* What is proved of the components holds of them here: each moves as it does on its own *)

\* A step of another component leaves the loop of InfStandaloneIo as it is.
LEMMA LoopMovesOnly == [ComponentsNext]_components => [S!Next]_(S!ioVars)
BY DEF ComponentsNext, components, LogMoves, ArrayMoves, GroupingMoves, ConnectionMoves, LoopMoves,
       GtkLoopMoves, InLog, InArray, InGrouping, InConnection, InLoop, InGtkLoop, ioVars,
       S!ioVars, S!Next, S!Iterates

\* A step of another component leaves the loop of InfGtkIo as it is.
LEMMA GtkLoopMovesOnly == [ComponentsNext]_components => [G!Next]_(G!gioVars)
BY DEF ComponentsNext, components, LogMoves, ArrayMoves, GroupingMoves, ConnectionMoves, LoopMoves,
       GtkLoopMoves, InLog, InArray, InGrouping, InConnection, InLoop, InGtkLoop, gioVars,
       G!gioVars, G!Next

\* A step of another component leaves the array as it is.
LEMMA ArrayMovesOnly == [ComponentsNext]_components => [R!A!Next]_array
BY DEF ComponentsNext, components, LogMoves, ArrayMoves, GroupingMoves, ConnectionMoves, LoopMoves,
       GtkLoopMoves, InLog, InArray, InGrouping, InConnection, InLoop, InGtkLoop, R!A!Next

\* Each component starts and moves as its own specification says.
LEMMA ComponentsMove ==
  ComponentsSpec => S!Spec /\ G!Spec /\ R!A!Spec
<1>1. ComponentsInit => S!Init /\ G!Init /\ R!A!Init
  BY DEF ComponentsInit
<1> QED
  BY <1>1, LoopMovesOnly, GtkLoopMovesOnly, ArrayMovesOnly, PTL
     DEF ComponentsSpec, S!Spec, G!Spec, R!A!Spec

\* For any handles and programs: the loop of inf-standalone-io.c never sleeps while there is
\* something that it does not know of, and the sources that inf-gtk-io.c has with GLib are
\* those of what is there.
THEOREM LoopsExactAlways == ComponentsSpec => []LoopsExact
<1>1. S!Spec => []S!NoLostWakeup
  BY S!NoLostWakeupAlways, LoopAssumption
<1>2. G!Spec => []G!SourcesMatch
  BY G!SourcesMatchAlways, LoopAssumption
<1> QED
  BY <1>1, <1>2, ComponentsMove, PTL DEF LoopsExact

\* The array of inf-adopted-request-log.c behaves like the log, and both event loops do what
\* InfIo promises, whatever the handles, the programs, the increment and the addresses.
THEOREM ImplementAlways == ComponentsSpec => Implement
<1>1. S!Spec => S!ImplementsInfIo
  BY S!Implements, LoopAssumption
<1>2. G!Spec => G!ImplementsInfIo
  BY G!Implements, LoopAssumption
<1>3. R!A!Spec => R!A!ImplementsRequestLog
  BY R!ArrayImplementsLog, ArrayAssumption DEF R!A!ArrayAssumption
<1> QED
  BY <1>1, <1>2, <1>3, ComponentsMove, PTL DEF Implement
==============================================================================
