------------------------------- MODULE Discovery -------------------------------
(***************************************************************************)
(* How a client finds servers: the services that Avahi tells of, and their *)
(* resolution to a connection (inf-discovery-avahi.c), with the manager    *)
(* that has one connection for every address (inf-xmpp-manager.c).         *)
(* Several callers resolve one service while it is being looked up; the    *)
(* daemon, the services and the connections come and go meanwhile.         *)
(***************************************************************************)
EXTENDS Integers, Sequences, FiniteSets, SequencesExt

CONSTANTS Services, Addresses, Connections,
          MaxCalls     \* of inf_discovery_resolve

VARIABLES avahi,    \* state of the Avahi client
          browser,  \* whether services are browsed for
          info,     \* of every service: the InfDiscoveryInfo, if there is one
          conn,     \* connections: their status and remote address, who holds them
          tree,     \* the manager's, by address
          answers,  \* how often every call of resolve was answered
          retries,  \* whether a program resolves again when it is told of an error
          failed    \* the assertion that failed

DiscoveryAssumption == 0 \notin Connections /\ MaxCalls \in Nat

Nobody == 0
NoInfo == [known |-> FALSE, resolver |-> FALSE, resolved |-> Nobody, waiting |-> <<>>]
NoConnection == [status |-> "none", address |-> Nobody, listed |-> FALSE]

DiscoveryInit ==
  /\ avahi = "connecting" /\ browser = FALSE /\ info = [s \in Services |-> NoInfo]
  /\ conn = [c \in Connections |-> NoConnection] /\ tree = [a \in Addresses |-> Nobody]
  /\ answers = <<>> /\ retries \in BOOLEAN /\ failed = "no"

World == [info |-> info, conn |-> conn, tree |-> tree, answers |-> answers]
WorldIs(w) == info' = w.info /\ conn' = w.conn /\ tree' = w.tree /\ answers' = w.answers

------------------------------------------------------------------------------
(* The manager: connections by their present address *)

Added(w, c) ==
  [w EXCEPT !.conn[c].listed = TRUE, !.tree[w.conn[c].address] = c]
Removed(w, c) ==
  [w EXCEPT !.conn[c].listed = FALSE, !.tree[w.conn[c].address] = Nobody]

\* The last reference is gone: who refers to it weakly is told.
Destroyed(w, c) ==
  [w EXCEPT !.conn[c] = NoConnection,
            !.info = [s \in Services |-> IF @[s].resolved = c THEN [@[s] EXCEPT !.resolved = Nobody] ELSE @[s]]]

\* Mutant: a connection that has moved stays where it was.
KeyChanged_Forgotten(w, c, old) == w

\* A connection has moved.  If there is another one at its new address, that stays, and
\* the one that moved is removed.
KeyChanged(w, c, old) ==
  LET new == w.conn[c].address
      without == [w EXCEPT !.tree[old] = Nobody]
      previous == without.tree[new]
  IN  IF w.tree[new] = c THEN w
      ELSE IF previous = Nobody THEN [without EXCEPT !.tree[new] = c]
      ELSE [Removed([without EXCEPT !.tree[new] = c], c) EXCEPT !.tree[new] = previous]

------------------------------------------------------------------------------
(* Answers to those who wait for a service to be resolved *)

Waiters(w, s) == ToSet(w.info[s].waiting)
Answered(w, s) ==
  [w EXCEPT !.answers = [n \in DOMAIN @ |-> IF n \in Waiters(w, s) THEN @[n] + 1 ELSE @[n]],
            !.info[s].waiting = <<>>]

\* Who resolves again when told of an error is answered at once if there is a connection;
\* otherwise there is a resolver at work, but the call is taken off the list with the others.
Retries(w, s) == retries /\ Waiters(w, s) # {} /\ Len(w.answers) < MaxCalls
ResolvError(w, s) ==
  LET told == Answered(w, s)
  IN  IF ~Retries(w, s) THEN told
      ELSE IF w.info[s].resolved # Nobody THEN [told EXCEPT !.answers = Append(@, 1)]
      ELSE [told EXCEPT !.answers = Append(@, 0), !.info[s].resolver = TRUE]
InfoFree(w, s) == [Answered(w, s) EXCEPT !.info[s] = NoInfo]
\* All that was discovered is freed; and who waits for any of it is answered.
UndiscoverAll(w) ==
  [w EXCEPT !.answers = [n \in DOMAIN @ |-> IF \E s \in Services : n \in Waiters(w, s) THEN @[n] + 1 ELSE @[n]],
            !.info = [s \in Services |-> NoInfo]]

\* What resolving asserts: that the client is running, and, where a resolver cannot be
\* made, that there is one to ask for the error.
Asserted(needed) ==
  IF avahi # "running" THEN {"client is not running"}
  ELSE {failed} \cup (IF needed THEN {"no resolver"} ELSE {})

\* A connection is opened, unless it is open or about to be, and handed out; one that is
\* about to be closed, or cannot be opened, is an error.
Reopened(w, c, opens) ==
  IF w.conn[c].status = "closed" /\ opens THEN [w EXCEPT !.conn[c].status = "opening"] ELSE w
Usable(w, c) == w.conn[c].status \in {"opening", "open"}

\* The resolver found the address: there is a connection to it, or a new one is made.
Found(w, s, a, opens) ==
  LET v == [w EXCEPT !.info[s].resolver = FALSE]
      free == {c \in Connections : w.conn[c].status = "none"}
      new == CHOOSE c \in free : TRUE
      made == Added([v EXCEPT !.conn[new] = [status |-> "opening", address |-> a, listed |-> FALSE],
                              !.info[s].resolved = new], new)
      reused == Reopened([v EXCEPT !.info[s].resolved = w.tree[a]], w.tree[a], opens)
  IN  IF w.tree[a] # Nobody
      THEN IF Usable(reused, w.tree[a]) THEN Answered(reused, s) ELSE ResolvError(reused, s)
      ELSE IF opens THEN Answered(made, s) ELSE ResolvError(v, s)
MayFind(w, a) == w.tree[a] # Nobody \/ \E c \in Connections : w.conn[c].status = "none"

------------------------------------------------------------------------------
(* What Avahi tells *)

AvahiRuns ==
  /\ avahi \in {"connecting", "registering"} /\ avahi' = "running" /\ browser' = TRUE
  /\ UNCHANGED <<info, conn, tree, answers, retries, failed>>
AvahiRegisters ==
  /\ avahi = "running" /\ avahi' = "registering"
  /\ UNCHANGED <<browser, info, conn, tree, answers, retries, failed>>

\* Everything that was discovered is no more; unless the daemon is gone, a new client is
\* made, which tells of its state after it was created.
AvahiFails ==
  /\ avahi # "disconnected" /\ avahi' \in {"connecting", "disconnected"}
  /\ browser' = FALSE /\ WorldIs(UndiscoverAll(World))
  /\ UNCHANGED <<retries, failed>>
BrowserFails ==
  /\ browser /\ browser' = FALSE /\ WorldIs(UndiscoverAll(World))
  /\ UNCHANGED <<avahi, retries, failed>>
BrowserNew(s) ==
  /\ browser /\ ~info[s].known /\ info' = [info EXCEPT ![s].known = TRUE]
  /\ UNCHANGED <<avahi, browser, conn, tree, answers, retries, failed>>
BrowserRemove(s) ==
  /\ browser /\ info[s].known /\ WorldIs(InfoFree(World, s))
  /\ UNCHANGED <<avahi, browser, retries, failed>>
Resolver(s) ==
  /\ info[s].resolver
  /\ \/ \E a \in Addresses, opens \in BOOLEAN :
          MayFind(World, a) /\ WorldIs(Found(World, s, a, opens))
     \/ WorldIs(ResolvError([World EXCEPT !.info[s].resolver = FALSE], s))
  /\ failed' \in
       IF info[s].resolved # Nobody THEN {"resolved already"}
       ELSE IF Len(answers') = Len(answers) THEN {failed}
       ELSE Asserted(info'[s].resolver)
  /\ UNCHANGED <<avahi, browser, retries>>

------------------------------------------------------------------------------
(* The program *)

\* A program asks for the connection of a service.  If there is one, it is answered at
\* once; otherwise it waits, with others, for a resolver.
Resolve(s) ==
  LET n == Len(answers) + 1
      c == info[s].resolved
      waits == [World EXCEPT !.answers = Append(@, 0), !.info[s].waiting = <<n>> \o @,
                             !.info[s].resolver = TRUE]
      told == [World EXCEPT !.answers = Append(@, 1)]
  IN  /\ info[s].known /\ n <= MaxCalls
      /\ IF c = Nobody THEN WorldIs(waits) ELSE \E opens \in BOOLEAN : WorldIs(Reopened(told, c, opens))
      /\ failed' \in Asserted(c = Nobody /\ ~info[s].resolver)
      /\ UNCHANGED <<avahi, browser, retries>>

\* A connection of the program's own, to an address there is none to.
AddConnection(a) ==
  /\ tree[a] = Nobody
  /\ \E c \in Connections :
       /\ conn[c].status = "none"
       /\ WorldIs(Added([World EXCEPT !.conn[c] = [status |-> "closed", address |-> a, listed |-> FALSE]], c))
  /\ UNCHANGED <<avahi, browser, retries, failed>>
ReaddConnection(c) ==
  /\ conn[c].status # "none" /\ ~conn[c].listed /\ tree[conn[c].address] = Nobody
  /\ WorldIs(Added(World, c)) /\ UNCHANGED <<avahi, browser, retries, failed>>

\* It may be held by others still, or not.
RemoveConnection(c) ==
  /\ conn[c].listed
  /\ WorldIs(Removed(World, c)) \/ WorldIs(Destroyed(Removed(World, c), c))
  /\ UNCHANGED <<avahi, browser, retries, failed>>
DropConnection(c) ==
  /\ conn[c].status # "none" /\ ~conn[c].listed /\ WorldIs(Destroyed(World, c))
  /\ UNCHANGED <<avahi, browser, retries, failed>>
SetRemote(c, a) ==
  /\ conn[c].status = "closed" /\ conn[c].address # a
  /\ LET w == [World EXCEPT !.conn[c].address = a]
     IN  WorldIs(IF conn[c].listed THEN KeyChanged(w, c, conn[c].address) ELSE w)
  /\ UNCHANGED <<avahi, browser, retries, failed>>

\* Connections open and close as they do.
Changes == {<<"opening", "open">>, <<"opening", "closed">>, <<"open", "closing">>,
            <<"open", "closed">>, <<"closing", "closed">>, <<"closed", "opening">>}
ConnectionChanges(c) ==
  /\ \E change \in Changes : conn[c].status = change[1] /\ conn' = [conn EXCEPT ![c].status = change[2]]
  /\ UNCHANGED <<avahi, browser, info, tree, answers, retries, failed>>

Works == failed = "no"
DiscoveryNext ==
  \/ Works /\ AvahiRuns
  \/ Works /\ AvahiRegisters
  \/ Works /\ AvahiFails
  \/ Works /\ BrowserFails
  \/ \E s \in Services :
       \/ Works /\ BrowserNew(s)
       \/ Works /\ BrowserRemove(s)
       \/ Works /\ Resolver(s)
       \/ Works /\ Resolve(s)
  \/ \E a \in Addresses : Works /\ AddConnection(a)
  \/ \E c \in Connections :
       \/ Works /\ ReaddConnection(c)
       \/ Works /\ RemoveConnection(c)
       \/ Works /\ DropConnection(c)
       \/ Works /\ ConnectionChanges(c)
       \/ \E a \in Addresses : Works /\ SetRemote(c, a)
discovery == <<avahi, browser, info, conn, tree, answers, retries, failed>>
DiscoverySpec == DiscoveryInit /\ [][DiscoveryNext]_discovery

------------------------------------------------------------------------------
(* Properties *)

\* The manager finds every connection at the address it has now, and there is one for
\* each, although connections are reopened, moved onto each other, removed and dropped.
TreeExact ==
  /\ \A a \in Addresses : tree[a] # Nobody => conn[tree[a]].listed /\ conn[tree[a]].address = a
  /\ \A c \in Connections : conn[c].listed => tree[conn[c].address] = c

\* Who resolves a service is answered, once: until then a resolver is at work for it; and
\* what was resolved exists as long as it is remembered.
AlwaysAnswered ==
  /\ \A n \in DOMAIN answers :
       answers[n] = IF \E s \in Services : n \in ToSet(info[s].waiting) THEN 0 ELSE 1
  /\ \A s \in Services : info[s].waiting # <<>> => info[s].resolver
ResolvedExists ==
  \A s \in Services :
    /\ info[s].resolved # Nobody => conn[info[s].resolved].status # "none" /\ ~info[s].resolver
    /\ info[s].resolver => info[s].known
    /\ info[s].known => browser

\* That is so for programs that do not resolve again from within the error; and the
\* assertions hold but for those on the client and on a resolver that could not be made.
DiscoveryExact ==
  /\ TreeExact /\ ResolvedExists /\ (retries \/ AlwaysAnswered)
  /\ failed \in {"no", "client is not running", "no resolver"}
==============================================================================
