----------------------------- MODULE TcpConnection -----------------------------
(***************************************************************************)
(* inf-tcp-connection.c: a socket that does not block, and the queue of    *)
(* what the kernel did not take, kept in memory that is moved and grown.   *)
(* Bytes are numbered as they are submitted.  The kernel and the other     *)
(* end may do anything at any time: take less, refuse, close or reset.     *)
(***************************************************************************)
EXTENDS Integers, Sequences, FiniteSets, SequencesExt, FiniteSetsExt

CONSTANTS Quantum,     \* the queue is allocated in multiples of this, 1024 in the code
          KernelRoom,  \* what the kernel takes before the other end reads
          MaxBytes,    \* sent in a connection, and received
          MaxOpened    \* how often it is opened

ASSUME TcpAssumption == Quantum \in Nat \ {0} /\ KernelRoom \in Nat \ {0} /\ MaxBytes \in Nat

VARIABLES tcp,     \* our end
          socket,  \* the kernel's state of the connection
          remote   \* the other end: what it read, what it wrote

tcpVars == <<tcp, socket, remote>>

Empty == [i \in {} |-> 0]
ClosedTcp == [status |-> "CLOSED", events |-> {}, watch |-> FALSE, memory |-> Empty,
              front |-> 0, back |-> 0, alloc |-> Quantum, submitted |-> 0, signalled |-> 0,
              received |-> <<>>, again |-> FALSE, failed |-> FALSE, opened |-> 0]
NoSocket == [state |-> "none", out |-> <<>>, in |-> <<>>]

TcpInit == tcp = ClosedTcp /\ socket = NoSocket /\ remote = [got |-> <<>>, wrote |-> 0]

Require(x, condition) == IF condition THEN x ELSE [x EXCEPT !.failed = TRUE]
Waiting(x) == [i \in 1 .. x.front - x.back |-> x.memory[x.back + i - 1]]
Octets(from, n) == [i \in 1 .. n |-> from + i]
Minimum(a, b) == IF a <= b THEN a ELSE b

------------------------------------------------------------------------------
(* Steps of our end.  A pair is [tcp, socket]. *)

\* The default handler of "error" closes, and leaves the positions.
SystemError(p) ==
  [p EXCEPT !.tcp.status = "CLOSED", !.tcp.events = {}, !.tcp.watch = FALSE]
Close(p) ==
  [SystemError([p EXCEPT !.tcp = Require(@, @.watch)]) EXCEPT !.tcp.front = 0, !.tcp.back = 0]

Connected(p) ==
  [p EXCEPT !.tcp.status = "CONNECTED", !.tcp.front = 0, !.tcp.back = 0,
            !.tcp.events = {"incoming", "error"}, !.tcp.watch = TRUE]

\* The kernel takes what it has room for, or fails.
Taken(p, data) ==
  IF p.socket.state = "reset" THEN 0
  ELSE Minimum(Len(data), KernelRoom - Len(p.socket.out))
SendReal(p, data) ==
  IF p.socket.state = "reset"
  THEN SystemError([p EXCEPT !.tcp = Require(@, @.status = "CONNECTED")])
  ELSE [p EXCEPT !.socket.out = @ \o SubSeq(data, 1, Taken(p, data))]

\* Data moves to the beginning of the queue, and the queue grows, when it must.
Moved(x, n) ==
  IF x.alloc - x.front < n /\ x.back > 0
  THEN [x EXCEPT !.memory = [i \in 0 .. x.front - x.back - 1 |-> x.memory[x.back + i]],
                 !.front = x.front - x.back, !.back = 0]
  ELSE x
Grown(x, n) ==
  IF x.alloc - x.front < n
  THEN [x EXCEPT !.alloc = ((x.front + n + Quantum - 1) \div Quantum) * Quantum] ELSE x
Enqueue(x, data) ==
  LET y == Grown(Moved(x, Len(data)), Len(data))
      memory == [i \in 0 .. y.front + Len(data) - 1 |->
                   IF i < y.front THEN (IF i \in DOMAIN y.memory THEN y.memory[i] ELSE 0)
                   ELSE data[i - y.front + 1]]
  IN  IF data = <<>> THEN x
      ELSE [y EXCEPT !.memory = memory, !.front = @ + Len(data), !.events = @ \cup {"outgoing"}]

\* Mutant: what the kernel takes goes out, although other data still waits.
Deliver_Directly(p, data) ==
  LET k == Taken(p, data)
      q == SendReal(p, data)
      rest == IF q.tcp.status = "CLOSED" THEN <<>> ELSE SubSeq(data, k + 1, Len(data))
  IN  [pair |-> [q EXCEPT !.tcp = Enqueue(@, rest)], sent |-> k]

\* inf_tcp_connection_send up to the signal: directly, or behind what waits.
Deliver(p, data) ==
  LET direct == p.tcp.front = p.tcp.back
      k == IF direct THEN Taken(p, data) ELSE 0
      q == IF direct THEN SendReal([p EXCEPT !.tcp = Require(@, "outgoing" \notin @.events)], data)
           ELSE p
      rest == IF q.tcp.status = "CLOSED" THEN <<>> ELSE SubSeq(data, k + 1, Len(data))
  IN  [pair |-> [q EXCEPT !.tcp = Enqueue(@, rest)], sent |-> k]

\* n bytes of the program's are sent.
Submit(p, n) ==
  Deliver([p EXCEPT !.tcp.submitted = @ + n], Octets(p.tcp.submitted, n))

\* The handler of "sent" may send one more byte, and is told of it in turn.
Sent(p, n) ==
  LET told == [p EXCEPT !.tcp.signalled = @ + n]
      more == Submit([told EXCEPT !.tcp.again = FALSE], 1)
  IN  IF told.tcp.again /\ told.tcp.status = "CONNECTED"
      THEN [more.pair EXCEPT !.tcp.signalled = @ + more.sent]
      ELSE told

Send(p, n) == LET d == Submit(p, n) IN IF d.sent > 0 THEN Sent(d.pair, d.sent) ELSE d.pair

\* Bytes are read until there are none; a handler may close meanwhile.
IoIncoming(p, closes) ==
  LET k == IF closes THEN 1 ELSE Len(p.socket.in)
      read == [p EXCEPT !.tcp.received = @ \o SubSeq(p.socket.in, 1, k),
                        !.socket.in = SubSeq(@, k + 1, Len(@))]
  IN  IF closes THEN Close(read)
      ELSE IF p.socket.state = "reset" THEN SystemError(read)
      ELSE IF p.socket.state = "ended" THEN Close(read) ELSE read

Drained(x) ==
  IF x.front = x.back THEN [x EXCEPT !.front = 0, !.back = 0, !.events = @ \ {"outgoing"}] ELSE x
IoOutgoing(p) ==
  LET x == Require(p.tcp, p.tcp.back < p.tcp.front /\ "outgoing" \in p.tcp.events)
      k == Taken(p, Waiting(x))
      q == SendReal([p EXCEPT !.tcp = x], Waiting(x))
  IN  CASE p.tcp.status = "CONNECTING" ->
             IF p.socket.state = "established" THEN Connected(p) ELSE SystemError(p)
        [] p.tcp.status = "CONNECTED" ->
             IF q.tcp.status = "CLOSED" THEN q
             ELSE Sent([q EXCEPT !.tcp = Drained([q.tcp EXCEPT !.back = @ + k])], k)

\* What the loop is told: on an error, nothing else is looked at.
Io(p, events, closes) ==
  LET read == IF "incoming" \in events THEN IoIncoming(p, closes) ELSE p
  IN  IF "error" \in events
      THEN IF p.socket.state = "ended" THEN Close(p) ELSE SystemError(p)
      ELSE IF read.tcp.status # "CLOSED" /\ "outgoing" \in events THEN IoOutgoing(read) ELSE read

------------------------------------------------------------------------------
Pair == [tcp |-> tcp, socket |-> socket]
Become(p) == tcp' = p.tcp /\ socket' = p.socket

\* connect may succeed at once, be in progress, or fail.
Open ==
  /\ tcp.status = "CLOSED" /\ tcp.opened < MaxOpened
  /\ remote' = [got |-> <<>>, wrote |-> 0]
  /\ LET x == [tcp EXCEPT !.opened = @ + 1, !.submitted = 0, !.signalled = 0, !.received = <<>>,
                          !.again = TRUE]
     IN  \/ Become(Connected([tcp |-> x, socket |-> [NoSocket EXCEPT !.state = "established"]]))
         \/ /\ tcp' = [Require(x, ~x.watch) EXCEPT !.status = "CONNECTING", !.watch = TRUE,
                                                   !.events = {"outgoing", "error"}]
            /\ socket' = [NoSocket EXCEPT !.state = "connecting"]
         \/ tcp' = x /\ socket' = NoSocket

CloseConnection ==
  /\ tcp.status # "CLOSED" /\ Become(Close(Pair)) /\ UNCHANGED remote
SendBytes(n) ==
  /\ tcp.status = "CONNECTED" /\ tcp.submitted + n + 1 <= MaxBytes
  /\ Become(Send(Pair, n)) /\ UNCHANGED remote

Ready ==
  (IF socket.state \in {"refused", "reset"} THEN {"error"} ELSE {})
    \cup (IF socket.in # <<>> \/ socket.state \in {"ended", "reset"} THEN {"incoming"} ELSE {})
    \cup (IF \/ socket.state \in {"refused", "reset"}
             \/ socket.state \in {"established", "ended"} /\ Len(socket.out) < KernelRoom
          THEN {"outgoing"} ELSE {})
Watched == Ready \cap tcp.events

\* Some systems report the end of a connection as an error without a code.
IoCallback ==
  /\ tcp.watch /\ Watched # {}
  /\ \E closes \in BOOLEAN, hangup \in BOOLEAN :
       /\ closes => socket.in # <<>> /\ "incoming" \in Watched
       /\ hangup => socket.state = "ended"
       /\ Become(Io(Pair, IF hangup THEN {"error"} ELSE Watched, closes))
  /\ UNCHANGED remote

------------------------------------------------------------------------------
(* The kernel and the other end *)

ConnectEnds ==
  /\ socket.state = "connecting" /\ tcp.status = "CONNECTING"
  /\ \E s \in {"established", "refused"} : socket' = [socket EXCEPT !.state = s]
  /\ UNCHANGED <<tcp, remote>>
RemoteReads ==
  /\ socket.out # <<>> /\ socket.state # "reset"
  /\ \E k \in 1 .. Len(socket.out) :
       /\ remote' = [remote EXCEPT !.got = @ \o SubSeq(socket.out, 1, k)]
       /\ socket' = [socket EXCEPT !.out = SubSeq(@, k + 1, Len(@))]
  /\ UNCHANGED tcp
RemoteWrites ==
  /\ socket.state = "established" /\ remote.wrote < 2
  /\ remote' = [remote EXCEPT !.wrote = @ + 1]
  /\ socket' = [socket EXCEPT !.in = Append(@, remote.wrote + 1)]
  /\ UNCHANGED tcp
RemoteEnds ==
  /\ socket.state = "established"
  /\ \E s \in {"ended", "reset"} : socket' = [socket EXCEPT !.state = s]
  /\ UNCHANGED <<tcp, remote>>

TcpNext ==
  \/ Open \/ CloseConnection \/ \E n \in 1 .. 3 : SendBytes(n)
  \/ IoCallback \/ ConnectEnds \/ RemoteReads \/ RemoteWrites \/ RemoteEnds

TcpSpec == TcpInit /\ [][TcpNext]_tcpVars

------------------------------------------------------------------------------
(* Properties *)

\* What was submitted is, in order and once, with the other end, in the kernel and in
\* the queue, whatever the kernel takes and when the queue is moved, grown or added to
\* from within a handler; of the rest, exactly as much was reported as sent.  What is
\* left after the end of a connection never shows up in the next one.
StreamExact ==
  LET left == remote.got \o socket.out
  IN  /\ ~tcp.failed
      /\ tcp.status = "CONNECTED" =>
           /\ left \o Waiting(tcp) = Octets(0, tcp.submitted)
           /\ tcp.signalled = Len(left)
      /\ IsPrefix(left, Octets(0, tcp.submitted))
      /\ tcp.received \o socket.in = Octets(0, remote.wrote)

\* Who waits for the kernel is told when it has room: what is watched is what is needed.
WatchExact ==
  /\ tcp.watch = (tcp.status # "CLOSED") /\ tcp.alloc >= tcp.front /\ tcp.alloc % Quantum = 0
  /\ tcp.status = "CONNECTED" =>
       /\ {"incoming", "error"} \subseteq tcp.events
       /\ ("outgoing" \in tcp.events) = (Waiting(tcp) # <<>>)

\* Bytes arrive in order and once, and what is watched is what is needed.
TcpExact == StreamExact /\ WatchExact
==============================================================================
