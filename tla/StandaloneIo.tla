------------------------------ MODULE StandaloneIo ------------------------------
(***************************************************************************)
(* InfStandaloneIo: a main loop around poll().  It unlocks its mutex while *)
(* it polls and while it calls back, when callbacks and other threads may  *)
(* add, change and remove what it waits for; who does so while it polls    *)
(* wakes it up through a pipe.                                             *)
(* (inf-standalone-io.c)                                                   *)
(***************************************************************************)
EXTENDS Integers, SequencesExt

CONSTANTS Watches, Timeouts, Dispatches,   \* handles, each of which is used once
          SocketOf,                        \* the socket of each watch
          Inc,                             \* by how much the array grows
          Programs,                        \* what is used and what happens, see below
          None

Handles == Watches \cup Timeouts \cup Dispatches
Sockets == {SocketOf[w] : w \in Watches}
Flags == {"in", "out"}

\* A program uses some handles and watches for some flags; other threads than
\* the loop's make some of the calls; so often do sockets become ready, watches
\* change and signals arrive.
StandaloneAssumption ==
  /\ Inc \in Nat \ {0} /\ None \notin Handles \cup {"freed array"}
  /\ Watches \cap (Timeouts \cup Dispatches) = {} /\ Timeouts \cap Dispatches = {}
  /\ \A p \in Programs :
       /\ p.uses \subseteq Handles /\ p.flags \subseteq SUBSET Flags
       /\ p.threaded \subseteq {"watch", "timeout", "dispatch", "remove dispatch", "quit"}
       /\ {p.ready, p.updates, p.interrupts} \subseteq Nat

VARIABLES program, \* one of the programs
          io,      \* what the mutex protects
          loop,    \* where the loop's thread is
          ready,   \* of each socket: what it is ready for, and how often it became so
          elapsed, \* the timeouts whose time is over
          used     \* history: the handles that were added and those released

ioVars == <<program, io, loop, ready, elapsed, used>>

\* events is the array passed to poll() without the pipe; place is where it is
\* in memory, pipe the bytes that are in the pipe.
Init ==
  /\ program \in Programs
  /\ io = [events |-> <<>>, place |-> 0, alloc |-> Inc, timeouts |-> <<>>, dispatchs |-> <<>>,
           polling |-> FALSE, pipe |-> 0, running |-> FALSE, disposed |-> {}]
  /\ loop = [at |-> "start", polled |-> <<>>, place |-> 0, wait |-> None, result |-> None,
             woken |-> FALSE, current |-> None, events |-> {}, failure |-> None]
  /\ ready = [flags |-> [s \in Sockets |-> {}], times |-> 0]
  /\ elapsed = {}
  /\ used = [added |-> {}, released |-> {}, updates |-> 0, interrupts |-> 0]

Alive == loop.failure = None

------------------------------------------------------------------------------
(* Calls, by a callback (or before the loop starts) or by another thread *)

MayCall(what) == Alive /\ loop.at # "disposed" /\ (loop.at \in {"start", "called"} \/ what \in program.threaded)

Woken(x) == IF x.polling THEN [x EXCEPT !.pipe = @ + 1] ELSE x

Added(h) == h \in program.uses \ used.added /\ used' = [used EXCEPT !.added = @ \cup {h}]
Released(hs) == used' = [used EXCEPT !.released = @ \cup hs]

AddWatch(w) == \E flags \in program.flags :
  LET full == Len(io.events) = io.alloc
      at == IF full THEN {io.place, io.place + 1} ELSE {io.place}
  IN  /\ MayCall("watch")
      /\ \A i \in DOMAIN io.events : SocketOf[io.events[i].watch] # SocketOf[w]
      /\ Added(w)
      /\ \E place \in at :
           io' = Woken([io EXCEPT !.events = Append(@, [watch |-> w, flags |-> flags, revents |-> {}]),
                                  !.alloc = IF full THEN @ + Inc ELSE @, !.place = place])
      /\ UNCHANGED <<program, loop, ready, elapsed>>

UpdateWatch(i) == \E flags \in program.flags \cup {{}} :
  /\ MayCall("watch") /\ used.updates < program.updates
  /\ io' = Woken([io EXCEPT !.events[i].flags = flags])
  /\ used' = [used EXCEPT !.updates = @ + 1]
  /\ UNCHANGED <<program, loop, ready, elapsed>>

\* The last one of the array takes the place of the one that is removed.
Without(events, i) ==
  LET n == Len(events) IN IF i = n THEN Front(events) ELSE Front([events EXCEPT ![i] = events[n]])

Executing(w) == loop.at = "called" /\ loop.current = w

\* Mutant: what the callback is using is released at once.
RemoveWatch_AtOnce(i) ==
  /\ MayCall("watch")
  /\ io' = Woken([io EXCEPT !.events = Without(@, i)])
  /\ Released({io.events[i].watch})
  /\ UNCHANGED <<program, loop, ready, elapsed>>

RemoveWatch(i) ==
  LET w == io.events[i].watch
  IN  /\ MayCall("watch")
      /\ io' = Woken([io EXCEPT !.events = Without(@, i),
                                !.disposed = IF Executing(w) THEN @ \cup {w} ELSE @])
      /\ IF Executing(w) THEN UNCHANGED used ELSE Released({w})
      /\ UNCHANGED <<program, loop, ready, elapsed>>

\* Both lists have the newest one first.
AddTimeout(t) ==
  /\ MayCall("timeout") /\ Added(t)
  /\ io' = Woken([io EXCEPT !.timeouts = <<t>> \o @])
  /\ UNCHANGED <<program, loop, ready, elapsed>>

\* Mutant: the loop is left sleeping.
AddDispatch_Silently(d) ==
  /\ MayCall("dispatch") /\ Added(d)
  /\ io' = [io EXCEPT !.dispatchs = <<d>> \o @]
  /\ UNCHANGED <<program, loop, ready, elapsed>>

AddDispatch(d) ==
  /\ MayCall("dispatch") /\ Added(d)
  /\ io' = Woken([io EXCEPT !.dispatchs = <<d>> \o @])
  /\ UNCHANGED <<program, loop, ready, elapsed>>

\* (The loop is not woken up: it may wait for less than it would have to.)
RemoveTimeout(i) ==
  /\ MayCall("timeout")
  /\ io' = [io EXCEPT !.timeouts = RemoveAt(@, i)]
  /\ Released({io.timeouts[i]})
  /\ UNCHANGED <<program, loop, ready, elapsed>>

RemoveDispatch(i) ==
  /\ MayCall("remove dispatch")
  /\ io' = [io EXCEPT !.dispatchs = RemoveAt(@, i)]
  /\ Released({io.dispatchs[i]})
  /\ UNCHANGED <<program, loop, ready, elapsed>>

Quit ==
  /\ MayCall("quit") /\ io.running
  /\ io' = Woken([io EXCEPT !.running = FALSE])
  /\ UNCHANGED <<program, loop, ready, elapsed, used>>

------------------------------------------------------------------------------
(* One iteration of the loop *)

Start ==
  /\ Alive /\ loop.at = "start"
  /\ io' = [io EXCEPT !.running = TRUE]
  /\ loop' = [loop EXCEPT !.at = "top"]
  /\ UNCHANGED <<program, ready, elapsed, used>>

\* Mutant: the loop says that it polls only when it does so, without the mutex.
Prepare_Unannounced ==
  LET over == io.dispatchs # <<>> \/ ToSet(io.timeouts) \cap elapsed # {}
  IN  /\ Alive /\ loop.at = "top" /\ io.running
      /\ loop' = [loop EXCEPT !.at = "polling", !.polled = io.events, !.place = io.place,
                              !.wait = IF over THEN {} ELSE ToSet(io.timeouts),
                              !.result = IF over THEN "at once" ELSE "later"]
      /\ UNCHANGED <<program, io, ready, elapsed, used>>

Prepare ==
  LET over == io.dispatchs # <<>> \/ ToSet(io.timeouts) \cap elapsed # {}
  IN  /\ Alive /\ loop.at = "top" /\ io.running
      /\ io' = [io EXCEPT !.polling = TRUE]
      /\ loop' = [loop EXCEPT !.at = "polling", !.polled = io.events, !.place = io.place,
                              !.wait = IF over THEN {} ELSE ToSet(io.timeouts),
                              !.result = IF over THEN "at once" ELSE "later"]
      /\ UNCHANGED <<program, ready, elapsed, used>>

\* poll() sees the array as it was passed, and writes to where it was then.
Seen(i) == IF i \in DOMAIN loop.polled
           THEN loop.polled[i].flags \cap ready.flags[SocketOf[loop.polled[i].watch]] ELSE {}
SomethingSeen == io.pipe > 0 \/ \E i \in DOMAIN loop.polled : Seen(i) # {}

PollReturns ==
  /\ Alive /\ loop.at = "polling" /\ SomethingSeen
  /\ IF loop.place = io.place
     THEN /\ io' = [io EXCEPT !.events = [i \in DOMAIN @ |->
                      IF i \in DOMAIN loop.polled THEN [@[i] EXCEPT !.revents = Seen(i)] ELSE @[i]]]
          /\ loop' = [loop EXCEPT !.at = "back", !.result = "events", !.woken = io.pipe > 0]
     ELSE loop' = [loop EXCEPT !.failure = "freed array"] /\ UNCHANGED io
  /\ UNCHANGED <<program, ready, elapsed, used>>

\* It polls for as long as the longest timeout still takes, not the shortest.
PollTimesOut ==
  /\ Alive /\ loop.at = "polling" /\ ~SomethingSeen
  /\ loop.result = "at once" \/ (loop.wait # {} /\ loop.wait \subseteq elapsed)
  /\ loop' = [loop EXCEPT !.at = "back", !.result = "timeout", !.woken = FALSE]
  /\ UNCHANGED <<program, io, ready, elapsed, used>>

Interrupted ==
  /\ Alive /\ loop.at = "polling" /\ used.interrupts < program.interrupts
  /\ io' = [io EXCEPT !.polling = FALSE]
  /\ loop' = [loop EXCEPT !.at = "top"]
  /\ used' = [used EXCEPT !.interrupts = @ + 1]
  /\ UNCHANGED <<program, ready, elapsed>>

Calls(x, h, events) ==
  /\ io' = [x EXCEPT !.polling = FALSE, !.pipe = IF loop.woken THEN @ - 1 ELSE @]
  /\ loop' = [loop EXCEPT !.at = IF h = None THEN "top" ELSE "called",
                          !.current = h, !.events = events]

\* The list is searched for a timeout that is over, newest first, or the array for a
\* watch that something happened to.
Over == {i \in DOMAIN io.timeouts : io.timeouts[i] \in elapsed}
Active == {i \in DOMAIN io.events : io.events[i].revents # {}}
First(found) == CHOOSE n \in found : \A m \in found : n <= m

CallTimeout ==
  LET i == First(Over)
  IN  /\ Alive /\ loop.at = "back" /\ loop.result = "timeout" /\ Over # {}
      /\ Calls([io EXCEPT !.timeouts = RemoveAt(@, i)], io.timeouts[i], {})
      /\ UNCHANGED <<program, ready, elapsed, used>>

\* The callback reads or writes what there is to read or write.
CallWatch ==
  LET i == First(Active)
      e == io.events[i]
  IN  /\ Alive /\ loop.at = "back" /\ loop.result = "events" /\ Active # {}
      /\ Calls([io EXCEPT !.events[i].revents = {}], e.watch, e.revents)
      /\ ready' = [ready EXCEPT !.flags[SocketOf[e.watch]] = @ \ e.revents]
      /\ UNCHANGED <<program, elapsed, used>>

NoneActive == IF loop.result = "timeout" THEN Over = {} ELSE Active = {}

CallDispatch ==
  /\ Alive /\ loop.at = "back" /\ NoneActive /\ io.dispatchs # <<>>
  /\ Calls([io EXCEPT !.dispatchs = Tail(@)], io.dispatchs[1], {})
  /\ UNCHANGED <<program, ready, elapsed, used>>

CallNothing ==
  /\ Alive /\ loop.at = "back" /\ NoneActive /\ io.dispatchs = <<>>
  /\ Calls(io, None, {})
  /\ UNCHANGED <<program, ready, elapsed, used>>

Return ==
  LET h == loop.current
  IN  /\ Alive /\ loop.at = "called"
      /\ IF h \notin Watches \/ h \in io.disposed THEN Released({h}) ELSE UNCHANGED used
      /\ io' = [io EXCEPT !.disposed = @ \ {h}]
      /\ loop' = [loop EXCEPT !.at = "top", !.current = None, !.events = {}]
      /\ UNCHANGED <<program, ready, elapsed>>

Watched == {io.events[i].watch : i \in DOMAIN io.events}
Listed == Watched \cup ToSet(io.timeouts) \cup ToSet(io.dispatchs)

\* The loop has been left, and the object is disposed of.
Finalize ==
  /\ Alive /\ loop.at = "top" /\ ~io.running
  /\ Released(Listed)
  /\ io' = [io EXCEPT !.events = <<>>, !.timeouts = <<>>, !.dispatchs = <<>>]
  /\ loop' = [loop EXCEPT !.at = "disposed"]
  /\ UNCHANGED <<program, ready, elapsed>>

------------------------------------------------------------------------------
(* The operating system *)

BecomesReady == \E s \in Sockets, f \in UNION program.flags :
  /\ Alive /\ f \notin ready.flags[s] /\ ready.times < program.ready
  /\ ready' = [flags |-> [ready.flags EXCEPT ![s] = @ \cup {f}], times |-> ready.times + 1]
  /\ UNCHANGED <<program, io, loop, elapsed, used>>

Elapse == \E t \in (used.added \cap Timeouts) \ elapsed :
  /\ Alive
  /\ elapsed' = elapsed \cup {t}
  /\ UNCHANGED <<program, io, loop, ready, used>>

Iterates == Prepare \/ PollReturns \/ PollTimesOut \/ CallTimeout \/ CallWatch \/ CallDispatch
              \/ CallNothing \/ Return

Next ==
  \/ \E w \in Watches : AddWatch(w)
  \/ \E i \in DOMAIN io.events : UpdateWatch(i) \/ RemoveWatch(i)
  \/ \E t \in Timeouts : AddTimeout(t)
  \/ \E i \in DOMAIN io.timeouts : RemoveTimeout(i)
  \/ \E d \in Dispatches : AddDispatch(d)
  \/ \E i \in DOMAIN io.dispatchs : RemoveDispatch(i)
  \/ Quit \/ Start \/ Iterates \/ Interrupted \/ Finalize \/ BecomesReady \/ Elapse
Spec == Init /\ [][Next]_ioVars

------------------------------------------------------------------------------
(* Properties *)

\* What the loop looks like from outside.
HandleState(h) ==
  IF h \notin used.added THEN "new"
  ELSE IF h \in used.released THEN "gone"
  ELSE IF loop.current = h THEN IF h \in io.disposed THEN "leaving" ELSE "called"
  ELSE IF h \in Listed THEN "there" ELSE "lost"

Abstract == INSTANCE InfIo WITH handle <- [h \in Handles |-> HandleState(h)]

\* Callbacks run one at a time and never after a removal; data is released once.
ImplementsInfIo == Abstract!Spec

\* A loop that sleeps has nothing to do: nobody has added, changed or quit
\* anything that it does not know of.
NoLostWakeup ==
  Alive /\ loop.at = "polling" /\ io.pipe = 0 /\ loop.result = "later" =>
    /\ io.running /\ io.dispatchs = <<>>
    /\ ToSet(io.timeouts) \subseteq loop.wait
    /\ Len(loop.polled) = Len(io.events)
    /\ \A i \in DOMAIN io.events : /\ io.events[i].watch = loop.polled[i].watch
                                   /\ io.events[i].flags = loop.polled[i].flags

\* Whatever is dispatched is run, as long as the loop is.
DispatchesRun == \A d \in Dispatches :
  HandleState(d) = "there" ~> HandleState(d) # "there" \/ ~io.running \/ ~Alive
=================================================================================
