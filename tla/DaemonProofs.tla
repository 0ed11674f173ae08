------------------------------ MODULE DaemonProofs ------------------------------
(***************************************************************************)
(* What is submitted to a TCP connection arrives in order and once, and    *)
(* its socket is watched for what is needed, for any size of the queue and *)
(* of the kernel's buffer.  Then, for any number of documents on disk: a   *)
(* document that is written is read again as it was, what was typed is in  *)
(* memory or on disk unless a fault took it, and what is to be saved or    *)
(* copied is going to be.  Last, for any number of servers, ports and      *)
(* publishers: what is published is what can be reached.                   *)
(***************************************************************************)
EXTENDS TcpConnection, DocumentStorage, Servers,
        SequenceTheorems, FiniteSetTheorems, WellFoundedInduction, TLAPS


(* The inductive invariant *)

Memories == UNION {[0 .. n - 1 -> Nat] : n \in Nat}
Tcps == [status : {"CLOSED", "CONNECTING", "CONNECTED"},
         events : SUBSET {"incoming", "outgoing", "error"}, watch : BOOLEAN,
         memory : Memories, front : Nat, back : Nat, alloc : Nat, submitted : Nat,
         signalled : Nat, received : Seq(Nat), again : BOOLEAN, failed : BOOLEAN,
         opened : Nat]
Sockets == [state : {"none", "connecting", "established", "refused", "ended", "reset"},
            out : Seq(Nat), in : Seq(Nat)]
Remotes == [got : Seq(Nat), wrote : Nat]

\* s counts on from n.
Counts(s, n) == s \in Seq(Nat) /\ \A i \in 1 .. Len(s) : s[i] = n + i

\* How many bytes have left the queue.
Gone(got, out) == Len(got) + Len(out)
Left(s, r) == Gone(r.got, s.out)

\* What lies between back and front is what follows n bytes.
QueueCounts(x, n) ==
  \A i \in x.back .. x.front - 1 :
    i \in DOMAIN x.memory /\ x.memory[i] = n + (i - x.back) + 1

\* The positions, in any status.
Buffer(x) == x.back <= x.front /\ x.front <= x.alloc /\ x.alloc % Quantum = 0

Watches(x) ==
  /\ x.watch = (x.status # "CLOSED")
  /\ x.status = "CONNECTING" => x.events = {"outgoing", "error"}
  /\ x.status = "CONNECTED" => /\ "incoming" \in x.events /\ "error" \in x.events
                               /\ ("outgoing" \in x.events) = (x.back < x.front)

\* While connected the queue follows what has left; lag bytes of that are still to be
\* reported.
Follows(x, s, r, lag) ==
  /\ x.status = "CONNECTING" => Left(s, r) = 0 /\ x.submitted = 0 /\ x.signalled = 0
  /\ x.status = "CONNECTED" => /\ QueueCounts(x, Left(s, r))
                               /\ Left(s, r) + (x.front - x.back) = x.submitted
                               /\ x.signalled + lag = Left(s, r)

\* The bytes beyond the queue, of n that were submitted, and those that come in.
Outward(got, out, n) ==
  /\ Counts(got, 0) /\ Counts(out, Len(got)) /\ Len(out) <= KernelRoom
  /\ Gone(got, out) <= n
Inward(received, in, n) ==
  /\ Counts(received, 0) /\ Counts(in, Len(received))
  /\ Len(received) + Len(in) = n

Streams(x, s, r) == Outward(r.got, s.out, x.submitted) /\ Inward(x.received, s.in, r.wrote)

Lagging(x, s, r, lag) ==
  /\ x \in Tcps /\ s \in Sockets /\ r \in Remotes /\ ~x.failed
  /\ Buffer(x) /\ Watches(x) /\ Follows(x, s, r, lag) /\ Streams(x, s, r)

IInv == Lagging(tcp, socket, remote, 0)

------------------------------------------------------------------------------
(* Sequences that count *)

\* The empty sequence counts on from anything.
LEMMA CountsEmpty == \A n : Counts(<<>>, n)
BY DEF Counts

\* What counts on from n, followed by what counts on from its end, counts on from n.
LEMMA CountsJoin ==
  ASSUME NEW s, NEW t, NEW n \in Nat, Counts(s, n), Counts(t, n + Len(s))
  PROVE  Counts(s \o t, n) /\ Len(s \o t) = Len(s) + Len(t)
<1>1. /\ s \in Seq(Nat) /\ t \in Seq(Nat) /\ Len(s) \in Nat /\ Len(t) \in Nat
      /\ \A i \in 1 .. Len(s) : s[i] = n + i
      /\ \A i \in 1 .. Len(t) : t[i] = n + Len(s) + i
  BY DEF Counts
<1>2. /\ s \o t \in Seq(Nat) /\ Len(s \o t) = Len(s) + Len(t)
      /\ \A i \in 1 .. Len(s) + Len(t) :
           (s \o t)[i] = IF i <= Len(s) THEN s[i] ELSE t[i - Len(s)]
  BY <1>1
<1>3. ASSUME NEW i \in 1 .. Len(s) + Len(t) PROVE (s \o t)[i] = n + i
  <2>1. CASE i <= Len(s)
    BY <1>1, <1>2, <2>1
  <2>2. CASE ~(i <= Len(s))
    <3>1. i - Len(s) \in 1 .. Len(t)
      BY <1>1, <2>2
    <3>2. t[i - Len(s)] = n + Len(s) + (i - Len(s))
      BY <1>1, <3>1
    <3> QED BY <1>1, <1>2, <2>2, <3>2
  <2> QED BY <2>1, <2>2
<1> QED BY <1>2, <1>3 DEF Counts

\* Both parts of a sequence that counts count.
LEMMA CountsCut ==
  ASSUME NEW s, NEW n \in Nat, Counts(s, n), NEW k \in 0 .. Len(s)
  PROVE  /\ Counts(SubSeq(s, 1, k), n) /\ Len(SubSeq(s, 1, k)) = k
         /\ Counts(SubSeq(s, k + 1, Len(s)), n + k)
         /\ Len(SubSeq(s, k + 1, Len(s))) = Len(s) - k
<1>1. s \in Seq(Nat) /\ Len(s) \in Nat /\ \A i \in 1 .. Len(s) : s[i] = n + i
  BY DEF Counts
<1>2. /\ SubSeq(s, 1, k) \in Seq(Nat) /\ Len(SubSeq(s, 1, k)) = k
      /\ \A i \in 1 .. k : SubSeq(s, 1, k)[i] = s[i]
  BY <1>1
<1>3. /\ SubSeq(s, k + 1, Len(s)) \in Seq(Nat) /\ Len(SubSeq(s, k + 1, Len(s))) = Len(s) - k
      /\ \A i \in 1 .. Len(s) - k : SubSeq(s, k + 1, Len(s))[i] = s[k + i]
  BY <1>1
<1>4. \A i \in 1 .. Len(s) - k : k + i \in 1 .. Len(s) /\ s[k + i] = n + k + i
  BY <1>1
<1> QED BY <1>1, <1>2, <1>3, <1>4 DEF Counts

\* The bytes that a program submits are numbered from the first.
LEMMA OctetsCount ==
  ASSUME NEW n \in Nat, NEW m \in Nat
  PROVE  Counts(Octets(n, m), n) /\ Len(Octets(n, m)) = m
<1>1. \A i \in 1 .. m : n + i \in Nat
  OBVIOUS
<1> QED BY <1>1 DEF Counts, Octets

\* There is one sequence of a length that counts on from n.
LEMMA CountsAreOctets ==
  ASSUME NEW s, NEW n \in Nat, Counts(s, n)
  PROVE  s = Octets(n, Len(s))
BY DEF Counts, Octets

\* What is gone is as long as its two parts.
LEMMA GoneType ==
  ASSUME NEW got \in Seq(Nat), NEW out \in Seq(Nat)
  PROVE  Gone(got, out) \in Nat /\ Gone(got, out) = Len(got) + Len(out)
BY DEF Gone

\* The first k bytes of data follow what is out.
LEMMA OutwardMore ==
  ASSUME NEW got, NEW out, NEW n \in Nat, Outward(got, out, n),
         NEW data, Counts(data, Gone(got, out)), Gone(got, out) + Len(data) <= n,
         NEW k \in 0 .. Len(data), Len(out) + k <= KernelRoom
  PROVE  LET more == out \o SubSeq(data, 1, k)
             rest == SubSeq(data, k + 1, Len(data))
         IN  /\ more \in Seq(Nat) /\ Outward(got, more, n)
             /\ Gone(got, more) = Gone(got, out) + k
             /\ Counts(rest, Gone(got, more)) /\ Len(rest) = Len(data) - k
<1> DEFINE head == SubSeq(data, 1, k)
           more == out \o head
           rest == SubSeq(data, k + 1, Len(data))
<1>1. /\ Counts(got, 0) /\ Counts(out, Len(got)) /\ Len(got) \in Nat /\ Len(out) \in Nat
      /\ Len(data) \in Nat /\ got \in Seq(Nat) /\ out \in Seq(Nat)
  BY DEF Outward, Counts
<1>2. Gone(got, out) = Len(got) + Len(out)
  BY DEF Gone
<1>3. /\ Counts(head, Len(got) + Len(out)) /\ Len(head) = k
      /\ Counts(rest, Gone(got, out) + k) /\ Len(rest) = Len(data) - k
  BY <1>1, <1>2, CountsCut
<1> HIDE DEF head, rest
<1>4. Counts(more, Len(got)) /\ Len(more) = Len(out) + k
  BY <1>1, <1>3, CountsJoin
<1> HIDE DEF more
<1>5. Gone(got, more) = Gone(got, out) + k
  BY <1>1, <1>2, <1>4 DEF Gone
<1>6. Gone(got, more) <= n
  BY <1>1, <1>2, <1>5
<1>7. Outward(got, more, n)
  BY <1>1, <1>4, <1>6 DEF Outward
<1> QED BY <1>3, <1>4, <1>5, <1>7 DEF more, head, rest, Counts

\* The other end reads.
LEMMA OutwardRead ==
  ASSUME NEW got, NEW out, NEW n \in Nat, Outward(got, out, n), NEW k \in 1 .. Len(out)
  PROVE  LET read == got \o SubSeq(out, 1, k)
             rest == SubSeq(out, k + 1, Len(out))
         IN  /\ read \in Seq(Nat) /\ rest \in Seq(Nat) /\ Outward(read, rest, n)
             /\ Gone(read, rest) = Gone(got, out)
<1> DEFINE head == SubSeq(out, 1, k)
           read == got \o head
           rest == SubSeq(out, k + 1, Len(out))
<1>1. /\ Counts(got, 0) /\ Counts(out, Len(got)) /\ Len(got) \in Nat /\ Len(out) \in Nat
      /\ KernelRoom \in Nat /\ Len(out) <= KernelRoom
  BY TcpAssumption DEF Outward, Counts
<1>2. k \in 0 .. Len(out)
  OBVIOUS
<1>3. /\ Counts(head, Len(got)) /\ Len(head) = k
      /\ Counts(rest, Len(got) + k) /\ Len(rest) = Len(out) - k
  BY <1>1, <1>2, CountsCut
<1> HIDE DEF head, rest
<1>4. Counts(read, 0) /\ Len(read) = Len(got) + k
  <2>1. 0 + Len(got) = Len(got)
    BY <1>1
  <2> QED BY <1>1, <1>3, <2>1, CountsJoin
<1> HIDE DEF read
<1>5. Gone(read, rest) = Gone(got, out)
  BY <1>1, <1>3, <1>4 DEF Gone
<1>6. Len(rest) <= KernelRoom
  BY <1>1, <1>3
<1>7. Outward(read, rest, n)
  BY <1>3, <1>4, <1>5, <1>6 DEF Outward
<1> QED BY <1>3, <1>4, <1>5, <1>7 DEF read, head, rest, Counts

\* We read, and the other end writes.
LEMMA InwardRead ==
  ASSUME NEW received, NEW in, NEW n, Inward(received, in, n), NEW k \in 0 .. Len(in)
  PROVE  LET read == received \o SubSeq(in, 1, k)
             rest == SubSeq(in, k + 1, Len(in))
         IN  read \in Seq(Nat) /\ rest \in Seq(Nat) /\ Inward(read, rest, n)
<1> DEFINE head == SubSeq(in, 1, k)
           read == received \o head
           rest == SubSeq(in, k + 1, Len(in))
<1>1. /\ Counts(received, 0) /\ Counts(in, Len(received)) /\ Len(received) \in Nat
      /\ Len(in) \in Nat /\ Len(received) + Len(in) = n
  BY DEF Inward, Counts
<1>2. /\ Counts(head, Len(received)) /\ Len(head) = k
      /\ Counts(rest, Len(received) + k) /\ Len(rest) = Len(in) - k
  BY <1>1, CountsCut
<1> HIDE DEF head, rest
<1>3. Counts(read, 0) /\ Len(read) = Len(received) + k
  <2>1. 0 + Len(received) = Len(received)
    BY <1>1
  <2> QED BY <1>1, <1>2, <2>1, CountsJoin
<1> HIDE DEF read
<1>4. Inward(read, rest, n)
  BY <1>1, <1>2, <1>3 DEF Inward
<1> QED BY <1>2, <1>3, <1>4 DEF read, head, rest, Counts

\* The other end writes one more byte.
LEMMA InwardMore ==
  ASSUME NEW received, NEW in, NEW n \in Nat, Inward(received, in, n)
  PROVE  Append(in, n + 1) \in Seq(Nat) /\ Inward(received, Append(in, n + 1), n + 1)
<1> DEFINE more == Append(in, n + 1)
<1>1. /\ Counts(received, 0) /\ Counts(in, Len(received)) /\ Len(received) \in Nat
      /\ in \in Seq(Nat) /\ Len(in) \in Nat /\ Len(received) + Len(in) = n
  BY DEF Inward, Counts
<1>2. /\ more \in Seq(Nat) /\ Len(more) = Len(in) + 1 /\ more[Len(in) + 1] = n + 1
      /\ \A i \in 1 .. Len(in) : more[i] = in[i]
  BY <1>1
<1> HIDE DEF more
<1>3. \A i \in 1 .. Len(in) + 1 : more[i] = Len(received) + i
  <2> SUFFICES ASSUME NEW i \in 1 .. Len(in) + 1 PROVE more[i] = Len(received) + i
    OBVIOUS
  <2>1. CASE i = Len(in) + 1
    BY <1>1, <1>2, <2>1
  <2>2. CASE i # Len(in) + 1
    <3>1. i \in 1 .. Len(in)
      BY <1>1, <2>2
    <3> QED BY <1>1, <1>2, <3>1 DEF Counts
  <2> QED BY <2>1, <2>2
<1>4. Counts(more, Len(received)) /\ Len(received) + Len(more) = n + 1
  BY <1>1, <1>2, <1>3 DEF Counts
<1> QED BY <1>1, <1>2, <1>4 DEF Inward, more

------------------------------------------------------------------------------
(* The end of a connection *)

Pairs == [tcp : Tcps, socket : Sockets]
Fine(p, r, lag) == p \in Pairs /\ Lagging(p.tcp, p.socket, r, lag)

\* All that is left to hold when the connection ends.
Sound(p, r) ==
  /\ p \in Pairs /\ r \in Remotes /\ ~p.tcp.failed
  /\ Buffer(p.tcp) /\ Streams(p.tcp, p.socket, r)

\* What an error changes.
LEMMA SystemErrorFields ==
  ASSUME NEW p \in Pairs
  PROVE  /\ SystemError(p) \in Pairs /\ SystemError(p).socket = p.socket
         /\ SystemError(p).tcp = [p.tcp EXCEPT !.status = "CLOSED", !.events = {},
                                               !.watch = FALSE]
BY DEF SystemError, Pairs, Tcps

\* An error leaves the positions and what has left, and that is all a closed end needs.
LEMMA SystemErrorFine ==
  ASSUME NEW p, NEW r, Sound(p, r), NEW lag
  PROVE  Fine(SystemError(p), r, lag) /\ SystemError(p).tcp.status = "CLOSED"
<1> DEFINE x == p.tcp
           y == [x EXCEPT !.status = "CLOSED", !.events = {}, !.watch = FALSE]
<1>1. x \in Tcps
  BY DEF Sound, Pairs
<1>2. /\ y \in Tcps /\ y.status = "CLOSED" /\ y.watch = FALSE /\ y.failed = x.failed
      /\ y.front = x.front /\ y.back = x.back /\ y.alloc = x.alloc
      /\ y.submitted = x.submitted /\ y.received = x.received
  BY <1>1 DEF Tcps
<1> HIDE DEF x, y
<1>3. Lagging(y, p.socket, r, lag)
  <2>1. p.socket \in Sockets
    BY DEF Sound, Pairs
  <2>2. Buffer(x) /\ Streams(x, p.socket, r)
    BY DEF Sound, x
  <2>3. Buffer(y)
    BY <1>2, <2>2 DEF Buffer
  <2>4. Watches(y) /\ Follows(y, p.socket, r, lag)
    BY <1>2 DEF Watches, Follows
  <2>5. Streams(y, p.socket, r)
    BY <1>2, <2>2 DEF Streams
  <2> QED BY <1>2, <2>1, <2>3, <2>4, <2>5 DEF Lagging, Sound, x
<1> QED BY <1>2, <1>3, SystemErrorFields DEF Fine, Sound, x, y

\* What emptying the queue changes.
LEMMA EmptiedFields ==
  ASSUME NEW q \in Pairs
  PROVE  /\ [q EXCEPT !.tcp.front = 0, !.tcp.back = 0] \in Pairs
         /\ [q EXCEPT !.tcp.front = 0, !.tcp.back = 0].socket = q.socket
         /\ [q EXCEPT !.tcp.front = 0, !.tcp.back = 0].tcp
              = [q.tcp EXCEPT !.front = 0, !.back = 0]
BY DEF Pairs, Tcps

\* Closing empties the queue; the assertion that there is a watch holds.
LEMMA CloseFine ==
  ASSUME NEW p, NEW r, Sound(p, r), p.tcp.watch, NEW lag
  PROVE  Fine(Close(p), r, lag) /\ Close(p).tcp.status = "CLOSED"
<1>1. p \in Pairs /\ p.tcp \in Tcps
  BY DEF Sound, Pairs
<1>2. [p EXCEPT !.tcp = Require(@, @.watch)] = p
  BY <1>1 DEF Require, Pairs
<1> DEFINE q == SystemError(p)
<1>3. Fine(q, r, lag) /\ q.tcp.status = "CLOSED"
  BY SystemErrorFine
<1>4. Close(p) = [q EXCEPT !.tcp.front = 0, !.tcp.back = 0]
  BY <1>2 DEF Close
<1> HIDE DEF q
<1> DEFINE y == [q.tcp EXCEPT !.front = 0, !.back = 0]
<1>5. q \in Pairs /\ q.tcp \in Tcps /\ q.socket \in Sockets
  BY <1>3 DEF Fine, Pairs
<1>6. Close(p) \in Pairs /\ Close(p).tcp = y /\ Close(p).socket = q.socket
  BY <1>4, <1>5, EmptiedFields
<1>7. /\ y \in Tcps /\ y.status = q.tcp.status /\ y.watch = q.tcp.watch
      /\ y.failed = q.tcp.failed /\ y.events = q.tcp.events
      /\ y.front = 0 /\ y.back = 0 /\ y.alloc = q.tcp.alloc
      /\ y.submitted = q.tcp.submitted /\ y.received = q.tcp.received /\ y.alloc \in Nat
  BY <1>5 DEF Tcps
<1>8. Lagging(q.tcp, q.socket, r, lag)
  BY <1>3 DEF Fine
<1> HIDE DEF y
<1>9. Buffer(y) /\ Watches(y) /\ Follows(y, q.socket, r, lag) /\ Streams(y, q.socket, r)
  <2>1. Buffer(q.tcp) /\ Watches(q.tcp) /\ Streams(q.tcp, q.socket, r)
    BY <1>8 DEF Lagging
  <2>2. Buffer(y)
    BY <1>7, <2>1 DEF Buffer
  <2>3. Watches(y) /\ Follows(y, q.socket, r, lag)
    BY <1>3, <1>7, <2>1 DEF Watches, Follows
  <2>4. Streams(y, q.socket, r)
    BY <1>7, <2>1 DEF Streams
  <2> QED BY <2>2, <2>3, <2>4
<1>10. Lagging(y, q.socket, r, lag)
  BY <1>5, <1>7, <1>8, <1>9 DEF Lagging
<1> QED BY <1>3, <1>6, <1>7, <1>10 DEF Fine

------------------------------------------------------------------------------
(* The queue *)

\* The queue grows to the next multiple, which is large enough.
LEMMA Multiples ==
  ASSUME NEW n \in Nat
  PROVE  LET m == ((n + Quantum - 1) \div Quantum) * Quantum
         IN  m \in Nat /\ m >= n /\ m % Quantum = 0
<1>1. Quantum \in Nat \ {0}
  BY TcpAssumption
<1> DEFINE d == (n + Quantum - 1) \div Quantum
<1>2. n + Quantum - 1 \in Nat
  BY <1>1
<1>3. d \in Nat /\ n + Quantum - 1 < d * Quantum + Quantum
  BY <1>1, <1>2
<1> HIDE DEF d
<1>4. d * Quantum \in Nat /\ (d * Quantum) % Quantum = 0
  BY <1>1, <1>3
<1>5. d * Quantum >= n
  BY <1>1, <1>3, <1>4
<1> QED BY <1>4, <1>5 DEF d

\* What moving and growing leave alone.
SameButBuffer(y, x) ==
  /\ y \in Tcps /\ y.status = x.status /\ y.watch = x.watch
  /\ y.submitted = x.submitted /\ y.signalled = x.signalled /\ y.received = x.received
  /\ y.again = x.again /\ y.failed = x.failed /\ y.opened = x.opened

\* Moving the queue to the beginning of its memory keeps what is in it.
LEMMA MovedFacts ==
  ASSUME NEW x \in Tcps, NEW n \in Nat, Buffer(x), NEW m \in Nat, QueueCounts(x, m)
  PROVE  LET y == Moved(x, n) IN
         /\ SameButBuffer(y, x) /\ y.events = x.events /\ Buffer(y) /\ QueueCounts(y, m)
         /\ y.front - y.back = x.front - x.back
<1>1. x.front \in Nat /\ x.back \in Nat /\ x.alloc \in Nat /\ x.back <= x.front
  BY DEF Tcps, Buffer
<1>2. CASE x.alloc - x.front < n /\ x.back > 0
  <2> DEFINE memory == [i \in 0 .. x.front - x.back - 1 |-> x.memory[x.back + i]]
             y == [x EXCEPT !.memory = memory, !.front = x.front - x.back, !.back = 0]
  <2>1. Moved(x, n) = y
    BY <1>2 DEF Moved
  <2>2. x.front - x.back \in Nat
    BY <1>1
  <2>3. ASSUME NEW i \in 0 .. x.front - x.back - 1
        PROVE  memory[i] = m + i + 1 /\ m + i + 1 \in Nat
    <3>1. x.back + i \in x.back .. x.front - 1 /\ (x.back + i) - x.back = i
      BY <1>1
    <3>2. x.memory[x.back + i] = m + i + 1
      BY <3>1 DEF QueueCounts
    <3> QED BY <3>2
  <2>4. memory \in [0 .. x.front - x.back - 1 -> Nat]
    BY <2>3
  <2>5. memory \in Memories
    BY <2>2, <2>4 DEF Memories
  <2> HIDE DEF memory
  <2>6. y \in Tcps /\ y.memory = memory /\ y.front = x.front - x.back /\ y.back = 0
    BY <2>2, <2>5 DEF Tcps
  <2>7. SameButBuffer(y, x) /\ y.events = x.events /\ y.alloc = x.alloc
    BY <2>6 DEF SameButBuffer, Tcps
  <2> HIDE DEF y
  <2>8. Buffer(y)
    BY <1>1, <2>6, <2>7 DEF Buffer
  <2>9. QueueCounts(y, m)
    BY <1>1, <2>3, <2>4, <2>6 DEF QueueCounts
  <2> QED BY <1>1, <2>1, <2>6, <2>7, <2>8, <2>9
<1>3. CASE ~(x.alloc - x.front < n /\ x.back > 0)
  BY <1>3 DEF Moved, SameButBuffer
<1> QED BY <1>2, <1>3

\* After moving and growing there is room for n bytes.
LEMMA GrownFacts ==
  ASSUME NEW x \in Tcps, NEW n \in Nat, Buffer(x)
  PROVE  LET y == Grown(x, n) IN
         /\ SameButBuffer(y, x) /\ y.events = x.events /\ y.alloc % Quantum = 0
         /\ y.front + n <= y.alloc
         /\ y.front = x.front /\ y.back = x.back /\ y.memory = x.memory
<1>1. x.front \in Nat /\ x.back \in Nat /\ x.alloc \in Nat /\ x.back <= x.front
  BY DEF Tcps, Buffer
<1>2. CASE x.alloc - x.front < n
  <2> DEFINE m == ((x.front + n + Quantum - 1) \div Quantum) * Quantum
             y == [x EXCEPT !.alloc = m]
  <2>1. Grown(x, n) = y
    BY <1>2 DEF Grown
  <2>2. m \in Nat /\ m >= x.front + n /\ m % Quantum = 0
    BY <1>1, Multiples
  <2> HIDE DEF m
  <2>3. /\ SameButBuffer(y, x) /\ y.events = x.events /\ y.alloc = m
        /\ y.front = x.front /\ y.back = x.back /\ y.memory = x.memory
    BY <2>2 DEF SameButBuffer, Tcps
  <2> HIDE DEF y
  <2> QED BY <1>1, <2>1, <2>2, <2>3
<1>3. CASE ~(x.alloc - x.front < n)
  BY <1>1, <1>3 DEF Grown, SameButBuffer, Buffer
<1> QED BY <1>2, <1>3

\* Data that follows what is in the queue is put behind it.
LEMMA EnqueueFacts ==
  ASSUME NEW x \in Tcps, NEW data, data # <<>>, Buffer(x),
         NEW m \in Nat, QueueCounts(x, m), Counts(data, m + (x.front - x.back))
  PROVE  LET y == Enqueue(x, data) IN
         /\ SameButBuffer(y, x) /\ y.events = x.events \cup {"outgoing"}
         /\ Buffer(y) /\ QueueCounts(y, m)
         /\ y.front - y.back = x.front - x.back + Len(data)
<1> DEFINE n == Len(data)
           v == Moved(x, n)
           w == Grown(v, n)
           memory == [i \in 0 .. w.front + n - 1 |->
                        IF i < w.front THEN (IF i \in DOMAIN w.memory THEN w.memory[i] ELSE 0)
                        ELSE data[i - w.front + 1]]
           y == [w EXCEPT !.memory = memory, !.front = w.front + n,
                          !.events = w.events \cup {"outgoing"}]
<1>1. n \in Nat /\ data \in Seq(Nat) /\ \A i \in 1 .. n : data[i] = m + (x.front - x.back) + i
  BY DEF Counts
<1>2. /\ SameButBuffer(v, x) /\ v.events = x.events /\ Buffer(v) /\ QueueCounts(v, m)
      /\ v.front - v.back = x.front - x.back
  BY <1>1, MovedFacts
<1>3. /\ SameButBuffer(w, v) /\ w.events = v.events /\ w.alloc % Quantum = 0
      /\ w.front + n <= w.alloc
      /\ w.front = v.front /\ w.back = v.back /\ w.memory = v.memory
  BY <1>1, <1>2, GrownFacts DEF SameButBuffer
<1>4. Enqueue(x, data) = y
  BY DEF Enqueue
<1> HIDE DEF n, v, w
<1>5. /\ w \in Tcps /\ w.front \in Nat /\ w.back \in Nat /\ w.alloc \in Nat
      /\ w.back <= w.front /\ w.front - w.back = x.front - x.back
      /\ w.memory \in Memories /\ w.events = x.events
  BY <1>2, <1>3 DEF SameButBuffer, Tcps, Buffer
<1>6. memory \in Memories
  <2>1. ASSUME NEW i \in 0 .. w.front + n - 1 PROVE memory[i] \in Nat
    <3>1. PICK k \in Nat : w.memory \in [0 .. k - 1 -> Nat]
      BY <1>5 DEF Memories
    <3>2. CASE i < w.front
      BY <3>1, <3>2
    <3>3. CASE ~(i < w.front)
      <4>1. i - w.front + 1 \in 1 .. n
        <5>1. w.front \in Nat /\ n \in Nat /\ ~(i < w.front) /\ i \in 0 .. w.front + n - 1
          BY <1>1, <1>5, <3>3
        <5> QED BY <5>1
      <4>2. data[i - w.front + 1] \in Nat
        BY <1>1, <4>1 DEF n
      <4> QED BY <3>3, <4>2
    <3> QED BY <3>2, <3>3
  <2>2. PICK top : top = w.front + n
    OBVIOUS
  <2>3. top \in Nat
    BY <1>1, <1>5, <2>2
  <2>4. memory \in [0 .. w.front + n - 1 -> Nat]
    BY <2>1
  <2>5. 0 .. top - 1 = 0 .. w.front + n - 1
    <3>1. w.front \in Nat /\ n \in Nat
      BY <1>1, <1>5
    <3> QED BY <2>2, <3>1
  <2> HIDE DEF memory
  <2>6. memory \in [0 .. top - 1 -> Nat]
    BY <2>4, <2>5
  <2> QED BY <2>3, <2>6 DEF Memories
<1>7. QueueCounts(v, m) /\ \A i \in w.back .. w.front - 1 :
         i \in DOMAIN w.memory /\ w.memory[i] = m + (i - w.back) + 1
  BY <1>2, <1>3 DEF QueueCounts
<1>8. ASSUME NEW i \in w.back .. w.front + n - 1
      PROVE  i \in DOMAIN memory /\ memory[i] = m + (i - w.back) + 1
  <2>1. i \in 0 .. w.front + n - 1
    BY <1>1, <1>5
  <2>2. CASE i < w.front
    <3>1. i \in w.back .. w.front - 1
      BY <1>5, <2>2
    <3> QED BY <1>7, <2>1, <2>2, <3>1
  <2>3. CASE ~(i < w.front)
    <3>1. i - w.front + 1 \in 1 .. n
      <4>1. w.front \in Nat /\ n \in Nat /\ ~(i < w.front) /\ i \in 0 .. w.front + n - 1
        BY <1>1, <1>5, <2>1, <2>3
      <4> QED BY <4>1
    <3>2. data[i - w.front + 1] = m + (x.front - x.back) + (i - w.front + 1)
      BY <1>1, <3>1
    <3>3. m + (x.front - x.back) + (i - w.front + 1) = m + (i - w.back) + 1
      BY <1>1, <1>5
    <3> QED BY <2>1, <2>3, <3>2, <3>3
  <2> QED BY <2>2, <2>3
<1> HIDE DEF memory
<1>9. /\ y \in Tcps /\ y.memory = memory /\ y.front = w.front + n /\ y.back = w.back
      /\ y.alloc = w.alloc /\ y.events = x.events \cup {"outgoing"}
  <2>1. w.front + n \in Nat
    BY <1>1, <1>5
  <2>2. w.events \cup {"outgoing"} \in SUBSET {"incoming", "outgoing", "error"}
    BY <1>5 DEF Tcps
  <2> QED BY <1>5, <1>6, <2>1, <2>2 DEF Tcps
<1>10. /\ y.status = w.status /\ y.watch = w.watch /\ y.submitted = w.submitted
       /\ y.signalled = w.signalled /\ y.received = w.received /\ y.again = w.again
       /\ y.failed = w.failed /\ y.opened = w.opened
  BY <1>5 DEF Tcps
<1> HIDE DEF y
<1>11. SameButBuffer(y, x)
  BY <1>2, <1>3, <1>9, <1>10 DEF SameButBuffer
<1>12. Buffer(y)
  BY <1>1, <1>3, <1>5, <1>9 DEF Buffer
<1>13. QueueCounts(y, m)
  <2>1. ASSUME NEW i \in y.back .. y.front - 1
        PROVE  i \in DOMAIN memory /\ memory[i] = m + (i - w.back) + 1
    <3>1. y.back .. y.front - 1 = w.back .. w.front + n - 1
      <4>1. y.back = w.back /\ y.front = w.front + n /\ w.front \in Nat /\ n \in Nat
        BY <1>1, <1>5, <1>9
      <4> QED BY <4>1
    <3>2. i \in w.back .. w.front + n - 1
      BY <3>1
    <3> QED BY <1>8, <3>2
  <2> QED BY <1>9, <2>1 DEF QueueCounts
<1>14. y.front - y.back = x.front - x.back + n
  BY <1>1, <1>5, <1>9
<1> QED BY <1>4, <1>9, <1>11, <1>12, <1>13, <1>14 DEF n

------------------------------------------------------------------------------
(* Sending *)

\* Connected, and n bytes that were submitted are neither in the queue nor gone.
Partly(p, r, lag, n) ==
  /\ p \in Pairs /\ r \in Remotes /\ ~p.tcp.failed /\ p.tcp.status = "CONNECTED"
  /\ Buffer(p.tcp) /\ Watches(p.tcp) /\ Streams(p.tcp, p.socket, r)
  /\ QueueCounts(p.tcp, Left(p.socket, r))
  /\ Left(p.socket, r) + (p.tcp.front - p.tcp.back) + n = p.tcp.submitted
  /\ p.tcp.signalled + lag = Left(p.socket, r)

\* What remains to be sent is put into the queue.
Queued(p, rest) == [p EXCEPT !.tcp = Enqueue(@, rest)]

\* What sending leads to; as much as was sent at once is to be reported.
Delivered(d, p, r) ==
  /\ d.sent \in Nat /\ Fine(d.pair, r, d.sent)
  /\ d.pair.tcp.status # "CONNECTING" /\ d.pair.tcp.again = p.tcp.again

\* The types that the proofs below need, one by one.
LEMMA PairTypes ==
  ASSUME NEW p \in Pairs, NEW r \in Remotes
  PROVE  /\ p.tcp \in Tcps /\ p.socket \in Sockets
         /\ p.tcp.front \in Nat /\ p.tcp.back \in Nat /\ p.tcp.submitted \in Nat
         /\ p.tcp.signalled \in Nat /\ p.tcp.received \in Seq(Nat)
         /\ p.socket.out \in Seq(Nat) /\ p.socket.in \in Seq(Nat) /\ r.got \in Seq(Nat)
         /\ Left(p.socket, r) \in Nat
<1>1. p.tcp \in Tcps /\ p.socket \in Sockets
  BY DEF Pairs
<1>2. p.socket.out \in Seq(Nat) /\ p.socket.in \in Seq(Nat) /\ r.got \in Seq(Nat)
  BY <1>1 DEF Sockets, Remotes
<1>3. Left(p.socket, r) \in Nat
  BY <1>2, GoneType DEF Left
<1>4. /\ p.tcp.front \in Nat /\ p.tcp.back \in Nat /\ p.tcp.submitted \in Nat
      /\ p.tcp.signalled \in Nat /\ p.tcp.received \in Seq(Nat)
  BY <1>1 DEF Tcps
<1> QED BY <1>1, <1>2, <1>3, <1>4

\* While connected, the invariant says that nothing is missing between what left and the
\* queue.
LEMMA FineIsPartly ==
  ASSUME NEW p, NEW r, NEW lag, p.tcp.status = "CONNECTED"
  PROVE  Fine(p, r, lag) <=> Partly(p, r, lag, 0)
<1>1. ASSUME p \in Pairs, r \in Remotes
      PROVE  /\ p.tcp \in Tcps /\ p.socket \in Sockets
             /\ Left(p.socket, r) \in Nat /\ p.tcp.front \in Nat /\ p.tcp.back \in Nat
  BY <1>1, PairTypes
<1>2. Fine(p, r, lag) => Partly(p, r, lag, 0)
  BY <1>1 DEF Fine, Partly, Lagging, Follows
<1>3. Partly(p, r, lag, 0) => Fine(p, r, lag)
  BY <1>1 DEF Fine, Partly, Lagging, Follows
<1> QED BY <1>2, <1>3

\* A system that has not been reset takes some of the data.
LEMMA TakenFacts ==
  ASSUME NEW p, NEW data \in Seq(Nat), NEW out \in Seq(Nat), p.socket.out = out,
         Len(out) <= KernelRoom, p.socket.state # "reset"
  PROVE  Taken(p, data) \in 0 .. Len(data) /\ Len(out) + Taken(p, data) <= KernelRoom
<1> DEFINE room == KernelRoom - Len(out)
<1>1. Taken(p, data) = IF Len(data) <= room THEN Len(data) ELSE room
  BY DEF Taken, Minimum
<1>2. /\ room \in Nat /\ Len(out) + room = KernelRoom /\ Len(out) \in Nat
      /\ Len(data) \in Nat /\ KernelRoom \in Nat
  BY TcpAssumption
<1> HIDE DEF room
<1>3. CASE Len(data) <= room
  BY <1>1, <1>2, <1>3
<1>4. CASE ~(Len(data) <= room)
  BY <1>1, <1>2, <1>4
<1> QED BY <1>3, <1>4

\* The kernel takes the first bytes of data.
LEMMA KernelTakes ==
  ASSUME NEW p \in Pairs, NEW r \in Remotes, Streams(p.tcp, p.socket, r),
         p.tcp.status = "CONNECTED", p.socket.state # "reset",
         NEW data, Counts(data, Left(p.socket, r)),
         Left(p.socket, r) + Len(data) <= p.tcp.submitted
  PROVE  LET q == SendReal(p, data)
             k == Taken(p, data)
             rest == SubSeq(data, k + 1, Len(data))
         IN  /\ k \in 0 .. Len(data)
             /\ q \in Pairs /\ q.tcp = p.tcp /\ Streams(q.tcp, q.socket, r)
             /\ Left(q.socket, r) = Left(p.socket, r) + k
             /\ Counts(rest, Left(q.socket, r)) /\ Len(rest) = Len(data) - k
<1>1. PICK out, n : out = p.socket.out /\ n = p.tcp.submitted
  OBVIOUS
<1> DEFINE k == Taken(p, data)
           more == out \o SubSeq(data, 1, k)
           q == SendReal(p, data)
           rest == SubSeq(data, k + 1, Len(data))
<1>2. out \in Seq(Nat) /\ n \in Nat
  BY <1>1, PairTypes
<1>3. Outward(r.got, out, n) /\ Inward(p.tcp.received, p.socket.in, r.wrote)
  BY <1>1 DEF Streams
<1>4. Len(out) <= KernelRoom /\ data \in Seq(Nat)
  BY <1>3 DEF Outward, Counts
<1>5. k \in 0 .. Len(data) /\ Len(out) + k <= KernelRoom
  BY <1>1, <1>2, <1>4, TakenFacts
<1>6. Counts(data, Gone(r.got, out)) /\ Gone(r.got, out) + Len(data) <= n
  BY <1>1 DEF Left
<1>7. q = [p EXCEPT !.socket.out = more]
  BY <1>1 DEF SendReal
<1> HIDE DEF k
<1>8. /\ more \in Seq(Nat) /\ Outward(r.got, more, n)
      /\ Gone(r.got, more) = Gone(r.got, out) + k
      /\ Counts(rest, Gone(r.got, more)) /\ Len(rest) = Len(data) - k
  BY <1>2, <1>3, <1>5, <1>6, OutwardMore
<1> HIDE DEF more, q, rest
<1>9. /\ q \in Pairs /\ q.tcp = p.tcp /\ q.socket.out = more /\ q.socket.in = p.socket.in
  BY <1>7, <1>8 DEF Pairs, Sockets
<1>10. /\ Left(q.socket, r) = Gone(r.got, more) /\ Left(p.socket, r) = Gone(r.got, out)
  BY <1>1, <1>9 DEF Left
<1>11. Streams(q.tcp, q.socket, r)
  BY <1>1, <1>3, <1>8, <1>9 DEF Streams
<1> QED BY <1>5, <1>8, <1>9, <1>10, <1>11 DEF k, q, rest

\* What is not gone is put into the queue, if there is any.
LEMMA RestQueued ==
  ASSUME NEW p, NEW r, NEW lag, NEW rest, Partly(p, r, lag, Len(rest)),
         Counts(rest, Left(p.socket, r) + (p.tcp.front - p.tcp.back))
  PROVE  /\ Fine(Queued(p, rest), r, lag) /\ Queued(p, rest).tcp.again = p.tcp.again
         /\ Queued(p, rest).tcp.status = "CONNECTED"
<1> DEFINE x == p.tcp
           y == Enqueue(x, rest)
           q == [p EXCEPT !.tcp = y]
           left == Left(p.socket, r)
<1>1. /\ p \in Pairs /\ r \in Remotes /\ x \in Tcps /\ p.socket \in Sockets
      /\ x.front \in Nat /\ x.back \in Nat /\ x.submitted \in Nat /\ left \in Nat
      /\ rest \in Seq(Nat) /\ Len(rest) \in Nat
  <2>1. p \in Pairs /\ r \in Remotes
    BY DEF Partly
  <2>2. rest \in Seq(Nat)
    BY DEF Counts
  <2> QED BY <2>1, <2>2, PairTypes
<1>2. Queued(p, rest) = q
  BY DEF Queued
<1>3. CASE rest = <<>>
  <2>1. y = x /\ q = p /\ Len(rest) = 0
    BY <1>1, <1>3 DEF Enqueue, Pairs
  <2> QED BY <1>2, <2>1, FineIsPartly DEF Partly
<1>4. CASE rest # <<>>
  <2>1. Buffer(x) /\ QueueCounts(x, left) /\ Counts(rest, left + (x.front - x.back))
    BY DEF Partly
  <2> HIDE DEF left
  <2>2. /\ SameButBuffer(y, x) /\ y.events = x.events \cup {"outgoing"}
        /\ Buffer(y) /\ QueueCounts(y, left)
        /\ y.front - y.back = x.front - x.back + Len(rest)
    BY <1>1, <1>4, <2>1, EnqueueFacts
  <2>3. y \in Tcps /\ y.front \in Nat /\ y.back \in Nat
    BY <2>2 DEF SameButBuffer, Tcps
  <2> HIDE DEF y
  <2>4. q \in Pairs /\ q.tcp = y /\ q.socket = p.socket
    BY <1>1, <2>3 DEF Pairs
  <2>5. Len(rest) > 0
    BY <1>1, <1>4
  <2>6. y.back < y.front
    BY <1>1, <2>1, <2>2, <2>3, <2>5 DEF Buffer
  <2>7. Watches(y)
    BY <2>2, <2>6 DEF Partly, Watches, SameButBuffer
  <2>8. Streams(y, p.socket, r)
    BY <2>2 DEF Partly, Streams, SameButBuffer
  <2>9. left + (y.front - y.back) + 0 = y.submitted
    BY <1>1, <2>2, <2>3 DEF Partly, SameButBuffer, left
  <2>10. Partly(q, r, lag, 0)
    BY <1>1, <2>2, <2>4, <2>7, <2>8, <2>9 DEF Partly, SameButBuffer, left
  <2>11. Fine(q, r, lag)
    BY <2>10, FineIsPartly DEF Partly
  <2>12. q.tcp.again = x.again /\ q.tcp.status = "CONNECTED"
    BY <2>2, <2>4 DEF SameButBuffer, Partly
  <2> QED BY <1>2, <2>11, <2>12
<1> QED BY <1>3, <1>4

\* A connection may end while some bytes are on their way.
LEMMA PartlyIsSound ==
  ASSUME NEW p, NEW r, NEW lag, NEW n, Partly(p, r, lag, n)
  PROVE  Sound(p, r) /\ p.tcp.watch
<1>1. p.tcp \in Tcps
  BY DEF Partly, Pairs
<1>2. p.tcp.watch
  BY <1>1 DEF Partly, Watches, Tcps
<1> QED BY <1>2 DEF Partly, Sound

\* Data goes to the kernel, or into the queue behind what waits there.
LEMMA DeliverFine ==
  ASSUME NEW p, NEW r, NEW data, data # <<>>, Partly(p, r, 0, Len(data)),
         Counts(data, Left(p.socket, r) + (p.tcp.front - p.tcp.back))
  PROVE  Delivered(Deliver(p, data), p, r)
<1> DEFINE x == p.tcp
           left == Left(p.socket, r)
           k == Taken(p, data)
           q == SendReal(p, data)
           d == Deliver(p, data)
<1>1. /\ p \in Pairs /\ r \in Remotes /\ x \in Tcps /\ x.status = "CONNECTED"
      /\ Buffer(x) /\ Watches(x) /\ Streams(x, p.socket, r)
  BY DEF Partly, Pairs
<1>2. /\ x.front \in Nat /\ x.back \in Nat /\ x.submitted \in Nat /\ left \in Nat
      /\ x.signalled \in Nat
  BY <1>1, PairTypes
<1>3. data \in Seq(Nat) /\ Len(data) \in Nat
  BY DEF Counts
<1>4. /\ left + (x.front - x.back) + Len(data) = x.submitted /\ QueueCounts(x, left)
      /\ x.signalled + 0 = left
  BY DEF Partly
<1>5. CASE x.front = x.back
  <2>1. "outgoing" \notin x.events
    BY <1>1, <1>2, <1>5 DEF Watches
  <2>2. [p EXCEPT !.tcp = Require(@, "outgoing" \notin @.events)] = p
    BY <1>1, <2>1 DEF Require, Pairs
  <2>3. d = [pair |-> Queued(q, IF q.tcp.status = "CLOSED" THEN <<>>
                              ELSE SubSeq(data, k + 1, Len(data))),
             sent |-> k]
    BY <1>5, <2>2 DEF Deliver, Queued
  <2>4. CASE p.socket.state = "reset"
    <3>1. q = SystemError([p EXCEPT !.tcp = Require(@, @.status = "CONNECTED")]) /\ k = 0
      BY <2>4 DEF SendReal, Taken
    <3>2. [p EXCEPT !.tcp = Require(@, @.status = "CONNECTED")] = p
      BY <1>1 DEF Require, Pairs
    <3>3. Sound(p, r)
      BY PartlyIsSound
    <3>4. Fine(q, r, 0) /\ q.tcp.status = "CLOSED"
      BY <3>1, <3>2, <3>3, SystemErrorFine
    <3>5. q.tcp.again = x.again
      <4>1. q.tcp = [x EXCEPT !.status = "CLOSED", !.events = {}, !.watch = FALSE]
        BY <1>1, <3>1, <3>2, SystemErrorFields
      <4> QED BY <1>1, <4>1 DEF Tcps
    <3> HIDE DEF q, k, d
    <3>6. Queued(q, <<>>) = q
      BY <3>4 DEF Queued, Enqueue, Fine, Pairs
    <3>7. d = [pair |-> q, sent |-> 0]
      BY <2>3, <3>1, <3>4, <3>6
    <3>8. Delivered(d, p, r)
      BY <3>4, <3>5, <3>7 DEF Delivered
    <3> QED BY <3>8 DEF d
  <2>5. CASE p.socket.state # "reset"
    <3> DEFINE rest == SubSeq(data, k + 1, Len(data))
    <3>1. Counts(data, left) /\ left + Len(data) <= x.submitted
      <4>1. left + (x.front - x.back) = left
        BY <1>2, <1>5
      <4> QED BY <1>2, <1>3, <1>4, <4>1
    <3>2. /\ k \in 0 .. Len(data) /\ q \in Pairs /\ q.tcp = x /\ Streams(q.tcp, q.socket, r)
          /\ Left(q.socket, r) = left + k
          /\ Counts(rest, Left(q.socket, r)) /\ Len(rest) = Len(data) - k
      BY <1>1, <2>5, <3>1, KernelTakes
    <3> HIDE DEF q, k, d, rest
    <3>3. d = [pair |-> Queued(q, rest), sent |-> k]
      BY <1>1, <2>3, <3>2 DEF rest
    <3>4. k \in Nat /\ left + k = Left(q.socket, r) /\ Left(q.socket, r) \in Nat
      BY <1>2, <1>3, <3>2
    <3>5. QueueCounts(q.tcp, Left(q.socket, r))
      BY <1>2, <1>5, <3>2 DEF QueueCounts
    <3>6. Left(q.socket, r) + (q.tcp.front - q.tcp.back) + Len(rest) = q.tcp.submitted
      <4>1. left + (x.front - x.back) + Len(data) = x.submitted
        BY <1>4
      <4>2. x.front - x.back = 0 /\ Len(rest) = Len(data) - k
        BY <1>2, <1>5, <3>2
      <4> QED BY <1>2, <1>3, <3>2, <3>4, <4>1, <4>2
    <3>7. q.tcp.signalled + k = Left(q.socket, r)
      BY <1>2, <1>4, <3>2, <3>4
    <3>8. ~q.tcp.failed
      BY <3>2 DEF Partly
    <3>9. Partly(q, r, k, Len(rest))
      BY <1>1, <3>2, <3>5, <3>6, <3>7, <3>8 DEF Partly
    <3>10. Counts(rest, Left(q.socket, r) + (q.tcp.front - q.tcp.back))
      <4>1. Left(q.socket, r) + (q.tcp.front - q.tcp.back) = Left(q.socket, r)
        BY <1>2, <1>5, <3>2, <3>4
      <4> QED BY <3>2, <4>1
    <3>11. /\ Fine(Queued(q, rest), r, k) /\ Queued(q, rest).tcp.again = q.tcp.again
           /\ Queued(q, rest).tcp.status = "CONNECTED"
      BY <3>9, <3>10, RestQueued
    <3>12. Delivered(d, p, r)
      BY <3>2, <3>3, <3>4, <3>11 DEF Delivered
    <3> QED BY <3>12 DEF d
  <2> QED BY <2>4, <2>5
<1>6. CASE x.front # x.back
  <2> DEFINE rest == SubSeq(data, 1, Len(data))
  <2>1. d = [pair |-> Queued(p, rest), sent |-> 0]
    <3>1. 0 + 1 = 1 /\ x.status # "CLOSED"
      BY <1>1
    <3> QED BY <1>6, <3>1 DEF Deliver, Queued
  <2>2. rest = data
    BY <1>3
  <2>3. /\ Fine(Queued(p, data), r, 0) /\ Queued(p, data).tcp.again = p.tcp.again
        /\ Queued(p, data).tcp.status = "CONNECTED"
    BY RestQueued
  <2> HIDE DEF d
  <2>4. Delivered(d, p, r)
    BY <2>1, <2>2, <2>3 DEF Delivered
  <2> QED BY <2>4 DEF d
<1> QED BY <1>5, <1>6

\* n more bytes are sent.
LEMMA SubmitFine ==
  ASSUME NEW p, NEW r, Fine(p, r, 0), p.tcp.status = "CONNECTED", NEW n \in Nat \ {0}
  PROVE  Delivered(Submit(p, n), p, r)
<1> DEFINE x == p.tcp
           more == x.submitted + n
           y == [x EXCEPT !.submitted = more]
           q == [p EXCEPT !.tcp.submitted = @ + n]
           data == Octets(x.submitted, n)
           left == Left(p.socket, r)
<1>1. Partly(p, r, 0, 0)
  BY FineIsPartly
<1>2. p \in Pairs /\ r \in Remotes /\ x \in Tcps
  BY <1>1 DEF Partly, Pairs
<1>3. /\ x.front \in Nat /\ x.back \in Nat /\ x.submitted \in Nat /\ left \in Nat
      /\ p.socket \in Sockets
  BY <1>2, PairTypes
<1>4. Counts(data, x.submitted) /\ Len(data) = n
  BY <1>3, OctetsCount
<1>5. data # <<>>
  BY <1>4
<1>6. more \in Nat
  BY <1>3
<1>7. q = [p EXCEPT !.tcp = y]
  BY <1>2 DEF Pairs
<1> HIDE DEF more
<1>8. /\ y \in Tcps /\ y.submitted = more /\ y.status = x.status
      /\ y.watch = x.watch /\ y.events = x.events /\ y.failed = x.failed
      /\ y.front = x.front /\ y.back = x.back /\ y.alloc = x.alloc /\ y.memory = x.memory
      /\ y.signalled = x.signalled /\ y.received = x.received /\ y.again = x.again
  BY <1>2, <1>3, <1>6 DEF Tcps
<1>9. y.submitted = x.submitted + n
  BY <1>8 DEF more
<1> HIDE DEF y, data
<1>10. q \in Pairs /\ q.tcp = y /\ q.socket = p.socket
  BY <1>2, <1>7, <1>8 DEF Pairs
<1>11. x.submitted = left + (x.front - x.back)
  BY <1>1, <1>3 DEF Partly
<1>12. Streams(y, p.socket, r)
  <2>1. Outward(r.got, p.socket.out, x.submitted) /\ left <= x.submitted
    BY <1>1 DEF Partly, Streams, Outward, Left
  <2>2. left <= y.submitted
    BY <1>3, <1>9, <2>1
  <2>3. Outward(r.got, p.socket.out, y.submitted)
    BY <2>1, <2>2 DEF Outward, Left
  <2> QED BY <1>1, <1>8, <2>3 DEF Partly, Streams
<1>13. Partly(q, r, 0, n)
  <2>1. Buffer(y) /\ Watches(y) /\ QueueCounts(y, left)
    BY <1>1, <1>8 DEF Partly, Buffer, Watches, QueueCounts
  <2>2. left + (y.front - y.back) + n = y.submitted
    BY <1>3, <1>8, <1>9, <1>11
  <2>3. y.signalled + 0 = left /\ y.status = "CONNECTED" /\ ~y.failed
    BY <1>1, <1>8 DEF Partly
  <2> HIDE DEF q
  <2> QED BY <1>2, <1>10, <1>12, <2>1, <2>2, <2>3 DEF Partly
<1>14. Counts(data, Left(q.socket, r) + (q.tcp.front - q.tcp.back))
  <2>1. Left(q.socket, r) + (q.tcp.front - q.tcp.back) = x.submitted
    BY <1>8, <1>10, <1>11
  <2> QED BY <1>4, <2>1
<1>15. Submit(p, n) = Deliver(q, data)
  BY DEF Submit, data
<1> HIDE DEF q
<1>16. Delivered(Deliver(q, data), q, r)
  BY <1>4, <1>5, <1>13, <1>14, DeliverFine
<1> QED BY <1>8, <1>10, <1>15, <1>16 DEF Delivered

\* "sent" is signalled, and its handler sends no second time.
Told(p, n) == [p EXCEPT !.tcp.signalled = @ + n]
NotAgain(p) == [p EXCEPT !.tcp.again = FALSE]

\* Once "sent" was signalled nothing is left to be reported.
LEMMA ToldFine ==
  ASSUME NEW p, NEW r, NEW lag \in Nat, Fine(p, r, lag), p.tcp.status # "CONNECTING"
  PROVE  /\ Fine(Told(p, lag), r, 0)
         /\ Told(p, lag).tcp.status = p.tcp.status /\ Told(p, lag).tcp.again = p.tcp.again
<1> DEFINE x == p.tcp
           m == x.signalled + lag
           y == [x EXCEPT !.signalled = m]
           q == Told(p, lag)
<1>1. p \in Pairs /\ x \in Tcps /\ p.socket \in Sockets /\ x.signalled \in Nat
  BY DEF Fine, Pairs, Tcps
<1>2. m \in Nat
  BY <1>1
<1>3. q = [p EXCEPT !.tcp = y]
  BY <1>1 DEF Told, Pairs
<1>4. m = Left(p.socket, r) \/ x.status = "CLOSED"
  BY <1>1 DEF Fine, Lagging, Follows, Tcps
<1> HIDE DEF m
<1>5. /\ y \in Tcps /\ y.submitted = x.submitted /\ y.status = x.status
      /\ y.watch = x.watch /\ y.events = x.events /\ y.failed = x.failed
      /\ y.front = x.front /\ y.back = x.back /\ y.alloc = x.alloc /\ y.memory = x.memory
      /\ y.signalled = m /\ y.received = x.received /\ y.again = x.again
  BY <1>1, <1>2 DEF Tcps
<1> HIDE DEF y
<1>6. q \in Pairs /\ q.tcp = y /\ q.socket = p.socket
  BY <1>1, <1>3, <1>5 DEF Pairs
<1>7. Buffer(y) /\ Watches(y) /\ Streams(y, p.socket, r) /\ r \in Remotes /\ ~y.failed
  BY <1>5 DEF Fine, Lagging, Buffer, Watches, Streams
<1>8. Follows(y, p.socket, r, 0)
  <2>1. CASE x.status = "CLOSED"
    BY <1>5, <2>1 DEF Follows
  <2>2. CASE x.status # "CLOSED"
    <3>1. m + 0 = Left(p.socket, r)
      BY <1>2, <1>4, <2>2
    <3>2. QueueCounts(x, Left(p.socket, r)) => QueueCounts(y, Left(p.socket, r))
      BY <1>5 DEF QueueCounts
    <3> QED BY <1>5, <3>1, <3>2 DEF Fine, Lagging, Follows
  <2> QED BY <2>1, <2>2
<1> HIDE DEF q
<1>9. Fine(q, r, 0)
  BY <1>1, <1>5, <1>6, <1>7, <1>8 DEF Fine, Lagging
<1> QED BY <1>5, <1>6, <1>9 DEF q

\* Whether a handler sends again does not matter for the invariant.
LEMMA NotAgainFine ==
  ASSUME NEW p, NEW r, NEW lag, Fine(p, r, lag)
  PROVE  Fine(NotAgain(p), r, lag) /\ NotAgain(p).tcp.status = p.tcp.status
<1> DEFINE x == p.tcp
           y == [x EXCEPT !.again = FALSE]
           q == NotAgain(p)
<1>1. p \in Pairs /\ x \in Tcps /\ p.socket \in Sockets
  BY DEF Fine, Pairs
<1>2. q = [p EXCEPT !.tcp = y]
  BY <1>1 DEF NotAgain, Pairs
<1>3. /\ y \in Tcps /\ y.submitted = x.submitted /\ y.status = x.status
      /\ y.watch = x.watch /\ y.events = x.events /\ y.failed = x.failed
      /\ y.front = x.front /\ y.back = x.back /\ y.alloc = x.alloc /\ y.memory = x.memory
      /\ y.signalled = x.signalled /\ y.received = x.received
  BY <1>1 DEF Tcps
<1> HIDE DEF y
<1>4. q \in Pairs /\ q.tcp = y /\ q.socket = p.socket
  BY <1>1, <1>2, <1>3 DEF Pairs
<1>5. Buffer(y) /\ Watches(y) /\ Streams(y, p.socket, r) /\ r \in Remotes /\ ~y.failed
  BY <1>3 DEF Fine, Lagging, Buffer, Watches, Streams
<1>6. Follows(y, p.socket, r, lag)
  BY <1>3 DEF Fine, Lagging, Follows, QueueCounts
<1> HIDE DEF q
<1>7. Fine(q, r, lag)
  BY <1>1, <1>3, <1>4, <1>5, <1>6 DEF Fine, Lagging
<1> QED BY <1>3, <1>4, <1>7 DEF q

\* The handler of "sent" may send again: it finds a queue that follows what has left,
\* and the number that is reported is that of the outer call.
LEMMA SentFine ==
  ASSUME NEW p, NEW r, NEW n \in Nat, Fine(p, r, n), p.tcp.status # "CONNECTING"
  PROVE  Fine(Sent(p, n), r, 0)
<1> DEFINE told == Told(p, n)
           q == NotAgain(told)
           d == Submit(q, 1)
<1>1. Fine(told, r, 0)
  BY ToldFine
<1>2. CASE told.tcp.again /\ told.tcp.status = "CONNECTED"
  <2>1. Fine(q, r, 0) /\ q.tcp.status = "CONNECTED"
    BY <1>1, <1>2, NotAgainFine
  <2>2. Delivered(d, q, r)
    BY <2>1, SubmitFine
  <2>3. Fine(Told(d.pair, d.sent), r, 0)
    BY <2>2, ToldFine DEF Delivered
  <2>4. Sent(p, n) = Told(d.pair, d.sent)
    BY <1>2 DEF Sent, Told, NotAgain
  <2> QED BY <2>3, <2>4
<1>3. CASE ~(told.tcp.again /\ told.tcp.status = "CONNECTED")
  <2>1. Sent(p, n) = told
    BY <1>3 DEF Sent, Told
  <2> QED BY <1>1, <2>1
<1> QED BY <1>2, <1>3

\* inf_tcp_connection_send as a whole.
LEMMA SendFine ==
  ASSUME NEW p, NEW r, Fine(p, r, 0), p.tcp.status = "CONNECTED", NEW n \in Nat \ {0}
  PROVE  Fine(Send(p, n), r, 0)
<1> DEFINE d == Submit(p, n)
<1>1. Delivered(d, p, r)
  BY SubmitFine
<1>2. Send(p, n) = IF d.sent > 0 THEN Sent(d.pair, d.sent) ELSE d.pair
  BY DEF Send
<1> HIDE DEF d
<1>3. CASE d.sent > 0
  BY <1>1, <1>2, <1>3, SentFine DEF Delivered
<1>4. CASE ~(d.sent > 0)
  <2>1. d.sent = 0
    BY <1>1, <1>4 DEF Delivered
  <2> QED BY <1>1, <1>2, <1>4, <2>1 DEF Delivered
<1> QED BY <1>3, <1>4

------------------------------------------------------------------------------
(* The callback of the loop *)

\* A connection may end at any time.
LEMMA FineIsSound ==
  ASSUME NEW p, NEW r, NEW lag, Fine(p, r, lag)
  PROVE  Sound(p, r) /\ (p.tcp.status # "CLOSED" => p.tcp.watch)
BY DEF Fine, Sound, Lagging, Watches, Pairs, Tcps

\* k bytes are read.
Read(p, k) == [p EXCEPT !.tcp.received = @ \o SubSeq(p.socket.in, 1, k),
                        !.socket.in = SubSeq(@, k + 1, Len(@))]

\* Reading moves bytes from the kernel to us.
LEMMA ReadFine ==
  ASSUME NEW p, NEW r, NEW lag, Fine(p, r, lag), NEW k \in 0 .. Len(p.socket.in)
  PROVE  /\ Fine(Read(p, k), r, lag) /\ Read(p, k).tcp.status = p.tcp.status
         /\ Read(p, k).tcp.events = p.tcp.events
<1> DEFINE x == p.tcp
           s == p.socket
           received == x.received \o SubSeq(s.in, 1, k)
           rest == SubSeq(s.in, k + 1, Len(s.in))
           y == [x EXCEPT !.received = received]
           t == [s EXCEPT !.in = rest]
           q == Read(p, k)
<1>1. p \in Pairs /\ x \in Tcps /\ s \in Sockets /\ r \in Remotes
  BY DEF Fine, Lagging, Pairs
<1>2. Inward(x.received, s.in, r.wrote) /\ Outward(r.got, s.out, x.submitted)
  BY DEF Fine, Lagging, Streams
<1>3. received \in Seq(Nat) /\ rest \in Seq(Nat) /\ Inward(received, rest, r.wrote)
  BY <1>2, InwardRead
<1>4. q = [p EXCEPT !.tcp = y, !.socket = t]
  BY <1>1 DEF Read, Pairs
<1> HIDE DEF received, rest
<1>5. /\ y \in Tcps /\ y.submitted = x.submitted /\ y.status = x.status
      /\ y.watch = x.watch /\ y.events = x.events /\ y.failed = x.failed
      /\ y.front = x.front /\ y.back = x.back /\ y.alloc = x.alloc /\ y.memory = x.memory
      /\ y.signalled = x.signalled /\ y.received = received
  BY <1>1, <1>3 DEF Tcps
<1>6. t \in Sockets /\ t.out = s.out /\ t.in = rest
  BY <1>1, <1>3 DEF Sockets
<1> HIDE DEF y, t
<1>7. q \in Pairs /\ q.tcp = y /\ q.socket = t
  BY <1>1, <1>4, <1>5, <1>6 DEF Pairs
<1>8. Buffer(y) /\ Watches(y) /\ ~y.failed
  BY <1>5 DEF Fine, Lagging, Buffer, Watches
<1>9. Streams(y, t, r)
  BY <1>2, <1>3, <1>5, <1>6 DEF Streams
<1>10. Follows(y, t, r, lag)
  <2>1. Left(t, r) = Left(s, r)
    BY <1>6 DEF Left
  <2> QED BY <1>5, <2>1 DEF Fine, Lagging, Follows, QueueCounts
<1> HIDE DEF q
<1>11. Fine(q, r, lag)
  BY <1>1, <1>5, <1>6, <1>7, <1>8, <1>9, <1>10 DEF Fine, Lagging
<1> QED BY <1>5, <1>7, <1>11 DEF q

\* Reading ends with the connection closed, or with the same events watched for.
LEMMA IoIncomingFine ==
  ASSUME NEW p, NEW r, Fine(p, r, 0), p.tcp.status = "CONNECTED",
         NEW closes \in BOOLEAN, closes => p.socket.in # <<>>
  PROVE  LET q == IoIncoming(p, closes) IN
         /\ Fine(q, r, 0)
         /\ \/ q.tcp.status = "CLOSED"
            \/ q.tcp.status = "CONNECTED" /\ q.tcp.events = p.tcp.events
<1> DEFINE k == IF closes THEN 1 ELSE Len(p.socket.in)
           read == Read(p, k)
           q == IoIncoming(p, closes)
<1>1. k \in 0 .. Len(p.socket.in)
  <2>1. p.socket.in \in Seq(Nat)
    BY DEF Fine, Pairs, Sockets
  <2> QED BY <2>1
<1>2. q = IF closes THEN Close(read)
          ELSE IF p.socket.state = "reset" THEN SystemError(read)
          ELSE IF p.socket.state = "ended" THEN Close(read) ELSE read
  BY DEF IoIncoming, Read
<1> HIDE DEF k
<1>3. Fine(read, r, 0) /\ read.tcp.status = "CONNECTED" /\ read.tcp.events = p.tcp.events
  BY <1>1, ReadFine
<1> HIDE DEF read, q
<1>4. Sound(read, r) /\ read.tcp.watch
  BY <1>3, FineIsSound
<1>5. Fine(Close(read), r, 0) /\ Close(read).tcp.status = "CLOSED"
  BY <1>4, CloseFine
<1>6. Fine(SystemError(read), r, 0) /\ SystemError(read).tcp.status = "CLOSED"
  BY <1>4, SystemErrorFine
<1> QED BY <1>2, <1>3, <1>5, <1>6 DEF q

\* Nothing has been sent, and the queue is emptied.
LEMMA ConnectedFine ==
  ASSUME NEW p, NEW r, Sound(p, r), Left(p.socket, r) = 0, p.tcp.submitted = 0,
         p.tcp.signalled = 0
  PROVE  Fine(Connected(p), r, 0)
<1> DEFINE x == p.tcp
           y == [x EXCEPT !.status = "CONNECTED", !.front = 0, !.back = 0,
                          !.events = {"incoming", "error"}, !.watch = TRUE]
           q == Connected(p)
<1>1. p \in Pairs /\ x \in Tcps /\ p.socket \in Sockets
  BY DEF Sound, Pairs
<1>2. q = [p EXCEPT !.tcp = y]
  BY <1>1 DEF Connected, Pairs
<1>3. /\ y \in Tcps /\ y.submitted = x.submitted /\ y.status = "CONNECTED"
      /\ y.watch = TRUE /\ y.events = {"incoming", "error"} /\ y.failed = x.failed
      /\ y.front = 0 /\ y.back = 0 /\ y.alloc = x.alloc
      /\ y.signalled = x.signalled /\ y.received = x.received /\ y.alloc \in Nat
  BY <1>1 DEF Tcps
<1> HIDE DEF y
<1>4. q \in Pairs /\ q.tcp = y /\ q.socket = p.socket
  BY <1>1, <1>2, <1>3 DEF Pairs
<1>5. Buffer(y) /\ Watches(y) /\ Streams(y, p.socket, r) /\ r \in Remotes /\ ~y.failed
  <2>1. Buffer(y)
    BY <1>3 DEF Sound, Buffer
  <2>2. Watches(y)
    <3>1. "incoming" \in y.events /\ "error" \in y.events /\ "outgoing" \notin y.events
      BY <1>3
    <3>2. ~(y.back < y.front)
      BY <1>3
    <3>3. y.watch = (y.status # "CLOSED")
      BY <1>3
    <3>4. ("outgoing" \in y.events) = (y.back < y.front)
      BY <3>1, <3>2
    <3> QED BY <1>3, <3>1, <3>3, <3>4 DEF Watches
  <2>3. Streams(y, p.socket, r)
    BY <1>3 DEF Sound, Streams
  <2> QED BY <1>3, <2>1, <2>2, <2>3 DEF Sound
<1>6. Follows(y, p.socket, r, 0)
  BY <1>3 DEF Follows, QueueCounts
<1> HIDE DEF q
<1>7. Fine(q, r, 0)
  BY <1>1, <1>3, <1>4, <1>5, <1>6 DEF Fine, Lagging
<1> QED BY <1>7 DEF q

\* What waits follows what has left.
LEMMA WaitingCounts ==
  ASSUME NEW x \in Tcps, NEW n \in Nat, Buffer(x), QueueCounts(x, n)
  PROVE  Counts(Waiting(x), n) /\ Len(Waiting(x)) = x.front - x.back
<1>1. PICK m \in Nat : m = x.front - x.back
  BY DEF Tcps, Buffer
<1>2. x.front \in Nat /\ x.back \in Nat
  BY DEF Tcps
<1>3. \A i \in 1 .. m : x.memory[x.back + i - 1] = n + i /\ n + i \in Nat
  <2> SUFFICES ASSUME NEW i \in 1 .. m PROVE x.memory[x.back + i - 1] = n + i
    OBVIOUS
  <2>1. x.back + i - 1 \in x.back .. x.front - 1
    BY <1>1, <1>2
  <2>2. PICK j : j = x.back + i - 1
    OBVIOUS
  <2>3. x.memory[j] = n + (j - x.back) + 1
    BY <2>1, <2>2 DEF QueueCounts
  <2>4. j - x.back + 1 = i /\ j \in Int
    BY <1>2, <2>2
  <2> QED BY <1>2, <2>2, <2>3, <2>4
<1>4. Waiting(x) = [i \in 1 .. m |-> x.memory[x.back + i - 1]]
  BY <1>1 DEF Waiting
<1> HIDE DEF Waiting
<1>5. Waiting(x) \in Seq(Nat) /\ Len(Waiting(x)) = m
  BY <1>3, <1>4
<1> QED BY <1>1, <1>3, <1>4, <1>5 DEF Counts

\* k bytes leave the queue.
LEMMA DrainedFacts ==
  ASSUME NEW x \in Tcps, NEW n \in Nat, Buffer(x), Watches(x), QueueCounts(x, n),
         x.status = "CONNECTED", NEW k \in 0 .. x.front - x.back
  PROVE  LET y == Drained([x EXCEPT !.back = @ + k]) IN
         /\ SameButBuffer(y, x) /\ Buffer(y) /\ Watches(y) /\ QueueCounts(y, n + k)
         /\ y.front \in Nat /\ y.back \in Nat
         /\ y.front - y.back + k = x.front - x.back
<1> DEFINE m == x.back + k
           w == [x EXCEPT !.back = m]
           y == Drained(w)
<1>1. /\ x.front \in Nat /\ x.back \in Nat /\ x.alloc \in Nat /\ k \in Nat
      /\ x.back <= x.front /\ x.front <= x.alloc /\ x.alloc % Quantum = 0
  BY DEF Tcps, Buffer
<1>2. m \in Nat /\ m <= x.front /\ x.front - m + k = x.front - x.back
  BY <1>1
<1>3. \A i \in m .. x.front - 1 : i \in DOMAIN x.memory /\ x.memory[i] = n + k + (i - m) + 1
  <2> SUFFICES ASSUME NEW i \in m .. x.front - 1
               PROVE  i \in DOMAIN x.memory /\ x.memory[i] = n + k + (i - m) + 1
    OBVIOUS
  <2>1. i \in x.back .. x.front - 1
    BY <1>1, <1>2
  <2>2. i \in DOMAIN x.memory /\ x.memory[i] = n + (i - x.back) + 1
    BY <2>1 DEF QueueCounts
  <2>3. n + (i - x.back) = n + k + (i - m)
    BY <1>1, <2>1
  <2> QED BY <2>2, <2>3
<1>4. [x EXCEPT !.back = @ + k] = w
  OBVIOUS
<1> HIDE DEF m
<1>5. /\ w \in Tcps /\ w.front = x.front /\ w.back = m /\ w.alloc = x.alloc
      /\ w.memory = x.memory /\ w.events = x.events /\ SameButBuffer(w, x)
  BY <1>2 DEF Tcps, SameButBuffer
<1> HIDE DEF w
<1>6. CASE x.front = m
  <2>1. PICK e : e = w.events \ {"outgoing"}
    OBVIOUS
  <2>2. y = [w EXCEPT !.front = 0, !.back = 0, !.events = e]
    BY <1>5, <1>6, <2>1 DEF Drained
  <2> HIDE DEF y
  <2>3. e \in SUBSET {"incoming", "outgoing", "error"}
    BY <1>5, <2>1 DEF Tcps
  <2>4. y \in Tcps
    <3>1. w \in Tcps /\ 0 \in Nat
      BY <1>5
    <3> QED BY <2>2, <2>3, <3>1 DEF Tcps
  <2>5. /\ y.front = 0 /\ y.back = 0 /\ y.alloc = w.alloc
        /\ y.events = w.events \ {"outgoing"}
    BY <1>5, <2>1, <2>2 DEF Tcps
  <2>6. /\ y.status = w.status /\ y.watch = w.watch
         /\ y.submitted = w.submitted /\ y.signalled = w.signalled
         /\ y.received = w.received
         /\ y.again = w.again /\ y.failed = w.failed /\ y.opened = w.opened
    BY <1>5, <2>2 DEF Tcps
  <2>7. /\ y \in Tcps /\ y.front = 0 /\ y.back = 0 /\ y.alloc = w.alloc
        /\ y.events = w.events \ {"outgoing"} /\ SameButBuffer(y, w)
    BY <2>4, <2>5, <2>6 DEF SameButBuffer
  <2>8. Buffer(y)
    BY <1>1, <1>5, <2>7 DEF Buffer
  <2>9. Watches(y)
    BY <1>5, <2>7 DEF Watches, SameButBuffer
  <2>10. QueueCounts(y, n + k)
    BY <2>7 DEF QueueCounts
  <2>11. SameButBuffer(y, x)
    BY <1>5, <2>7 DEF SameButBuffer
  <2>12. y.front - y.back + k = x.front - x.back
    BY <1>1, <1>2, <1>6, <2>7
  <2> QED BY <1>4, <2>7, <2>8, <2>9, <2>10, <2>11, <2>12 DEF y
<1>7. CASE x.front # m
  <2>1. y = w
    BY <1>5, <1>7 DEF Drained
  <2>2. w.back < w.front /\ x.back < x.front
    <3>1. m < x.front
      BY <1>1, <1>2, <1>7
    <3>2. x.back < x.front
      BY <1>1, <3>1 DEF m
    <3> QED BY <1>5, <3>1, <3>2
  <2>3. Watches(w)
    BY <1>5, <2>2 DEF Watches, SameButBuffer
  <2>4. Buffer(w)
    BY <1>1, <1>2, <1>5 DEF Buffer
  <2>5. QueueCounts(w, n + k)
    BY <1>3, <1>5 DEF QueueCounts
  <2> QED BY <1>1, <1>2, <1>4, <1>5, <2>1, <2>3, <2>4, <2>5 DEF y
<1> QED BY <1>6, <1>7

\* What waits goes to the kernel as far as there is room, and then is reported.
LEMMA QueueSent ==
  ASSUME NEW p, NEW r, Fine(p, r, 0), p.tcp.status = "CONNECTED", p.socket.state # "reset"
  PROVE  LET q == SendReal(p, Waiting(p.tcp))
             k == Taken(p, Waiting(p.tcp))
         IN  q.tcp = p.tcp
             /\ Fine(Sent([q EXCEPT !.tcp = Drained([q.tcp EXCEPT !.back = @ + k])], k), r, 0)
<1> DEFINE x == p.tcp
           left == Left(p.socket, r)
           data == Waiting(x)
           q == SendReal(p, data)
           k == Taken(p, data)
           z == Drained([x EXCEPT !.back = @ + k])
           e == [q EXCEPT !.tcp = z]
<1>1. Partly(p, r, 0, 0)
  BY FineIsPartly
<1>2. p \in Pairs /\ r \in Remotes /\ x \in Tcps /\ Streams(x, p.socket, r)
      /\ Buffer(x) /\ Watches(x) /\ QueueCounts(x, left) /\ ~x.failed
  BY <1>1 DEF Partly, Pairs
<1>3. /\ x.front \in Nat /\ x.back \in Nat /\ x.submitted \in Nat /\ left \in Nat
      /\ x.signalled \in Nat
  BY <1>2, PairTypes
<1>4. left + (x.front - x.back) + 0 = x.submitted /\ x.signalled + 0 = left
  BY <1>1 DEF Partly
<1>5. PICK m \in Nat : m = x.front - x.back
  BY <1>2, <1>3 DEF Buffer
<1>6. Counts(data, left) /\ Len(data) = m
  BY <1>2, <1>3, <1>5, WaitingCounts
<1>7. left + Len(data) <= x.submitted
  BY <1>3, <1>4, <1>5, <1>6
<1>8. /\ k \in 0 .. Len(data) /\ q \in Pairs /\ q.tcp = x /\ Streams(q.tcp, q.socket, r)
      /\ Left(q.socket, r) = left + k
  BY <1>2, <1>6, <1>7, KernelTakes
<1> HIDE DEF data, q, k
<1>9. k \in 0 .. x.front - x.back /\ k \in Nat
  BY <1>5, <1>6, <1>8
<1>10. /\ SameButBuffer(z, x) /\ Buffer(z) /\ Watches(z) /\ QueueCounts(z, left + k)
       /\ z.front \in Nat /\ z.back \in Nat /\ z.front - z.back + k = x.front - x.back
  BY <1>2, <1>3, <1>9, DrainedFacts
<1> HIDE DEF z
<1>11. e \in Pairs /\ e.tcp = z /\ e.socket = q.socket
  BY <1>8, <1>10 DEF Pairs, SameButBuffer
<1> HIDE DEF e
<1>12. Left(q.socket, r) + (z.front - z.back) + 0 = z.submitted
  <2>1. z.submitted = x.submitted
    BY <1>10 DEF SameButBuffer
  <2> QED BY <1>3, <1>4, <1>8, <1>9, <1>10, <2>1
<1>13. z.signalled + k = Left(q.socket, r)
  BY <1>3, <1>4, <1>8, <1>10 DEF SameButBuffer
<1>14. Streams(z, q.socket, r) /\ z.status = "CONNECTED" /\ ~z.failed
  BY <1>2, <1>8, <1>10 DEF Streams, SameButBuffer
<1>15. Partly(e, r, k, 0)
  BY <1>2, <1>8, <1>10, <1>11, <1>12, <1>13, <1>14 DEF Partly
<1>16. Fine(e, r, k) /\ e.tcp.status = "CONNECTED"
  BY <1>11, <1>14, <1>15, FineIsPartly
<1>17. Fine(Sent(e, k), r, 0)
  BY <1>9, <1>16, SentFine
<1>18. e = [q EXCEPT !.tcp = Drained([q.tcp EXCEPT !.back = @ + k])]
  BY <1>8 DEF e, z
<1> QED BY <1>8, <1>17, <1>18 DEF q, k, data

\* The socket is writable: the connection is established, or the queue is sent.
LEMMA IoOutgoingFine ==
  ASSUME NEW p, NEW r, Fine(p, r, 0), p.tcp.status # "CLOSED", "outgoing" \in p.tcp.events
  PROVE  Fine(IoOutgoing(p), r, 0)
<1>1. Sound(p, r) /\ p \in Pairs /\ p.tcp.status \in {"CLOSED", "CONNECTING", "CONNECTED"}
  BY FineIsSound DEF Fine, Pairs, Tcps
<1>2. CASE p.tcp.status = "CONNECTING"
  <2>1. Left(p.socket, r) = 0 /\ p.tcp.submitted = 0 /\ p.tcp.signalled = 0
    BY <1>2 DEF Fine, Lagging, Follows
  <2>2. Fine(Connected(p), r, 0) /\ Fine(SystemError(p), r, 0)
    BY <1>1, <2>1, ConnectedFine, SystemErrorFine
  <2> QED BY <1>2, <2>2 DEF IoOutgoing
<1>3. CASE p.tcp.status = "CONNECTED"
  <2> DEFINE data == Waiting(p.tcp)
             q == SendReal(p, data)
             k == Taken(p, data)
  <2>1. p.tcp.back < p.tcp.front
    BY <1>3 DEF Fine, Lagging, Watches
  <2>2. [p EXCEPT !.tcp = Require(p.tcp, p.tcp.back < p.tcp.front
                                         /\ "outgoing" \in p.tcp.events)] = p
        /\ Require(p.tcp, p.tcp.back < p.tcp.front /\ "outgoing" \in p.tcp.events) = p.tcp
    BY <1>1, <2>1 DEF Require, Pairs
  <2>3. IoOutgoing(p) = IF q.tcp.status = "CLOSED" THEN q
                        ELSE Sent([q EXCEPT !.tcp = Drained([q.tcp EXCEPT !.back = @ + k])], k)
    BY <1>3, <2>2 DEF IoOutgoing
  <2>4. CASE p.socket.state = "reset"
    <3>1. [p EXCEPT !.tcp = Require(@, @.status = "CONNECTED")] = p
      BY <1>1, <1>3 DEF Require, Pairs
    <3>2. q = SystemError(p)
      BY <2>4, <3>1 DEF SendReal
    <3>3. Fine(q, r, 0) /\ q.tcp.status = "CLOSED"
      BY <1>1, <3>2, SystemErrorFine
    <3> QED BY <2>3, <3>3
  <2>5. CASE p.socket.state # "reset"
    <3>1. q.tcp = p.tcp
          /\ Fine(Sent([q EXCEPT !.tcp = Drained([q.tcp EXCEPT !.back = @ + k])], k), r, 0)
      BY <1>3, <2>5, QueueSent
    <3>2. q.tcp.status # "CLOSED"
      BY <1>3, <3>1
    <3> QED BY <2>3, <3>1, <3>2
  <2> QED BY <2>4, <2>5
<1> QED BY <1>1, <1>2, <1>3

\* The callback for any events the socket is watched for, and for an end that is reported
\* as an error.
LEMMA IoFine ==
  ASSUME NEW p, NEW r, Fine(p, r, 0), p.tcp.status # "CLOSED", NEW events,
         events \subseteq p.tcp.events \/ events = {"error"},
         NEW closes \in BOOLEAN, closes => p.socket.in # <<>>
  PROVE  Fine(Io(p, events, closes), r, 0)
<1> DEFINE read == IF "incoming" \in events THEN IoIncoming(p, closes) ELSE p
<1>1. Sound(p, r) /\ p.tcp.watch /\ p.tcp.status \in {"CLOSED", "CONNECTING", "CONNECTED"}
  BY FineIsSound DEF Fine, Pairs, Tcps
<1>2. CASE "error" \in events
  BY <1>1, <1>2, CloseFine, SystemErrorFine DEF Io
<1>3. CASE "error" \notin events
  <2>1. events \subseteq p.tcp.events
    BY <1>3
  <2>2. Fine(read, r, 0)
        /\ (read.tcp.status = "CLOSED" \/ read.tcp.events = p.tcp.events)
    <3>1. CASE "incoming" \in events
      <4>1. p.tcp.status = "CONNECTED"
        BY <1>1, <2>1, <3>1 DEF Fine, Lagging, Watches
      <4> QED BY <3>1, <4>1, IoIncomingFine
    <3>2. CASE "incoming" \notin events
      BY <3>2
    <3> QED BY <3>1, <3>2
  <2>3. Io(p, events, closes) = IF read.tcp.status # "CLOSED" /\ "outgoing" \in events
                                THEN IoOutgoing(read) ELSE read
    BY <1>3 DEF Io
  <2> HIDE DEF read
  <2> QED BY <2>1, <2>2, <2>3, IoOutgoingFine
<1> QED BY <1>2, <1>3

------------------------------------------------------------------------------
(* The steps *)

\* The invariant, of a pair.
LEMMA PairFine == IInv <=> Fine(Pair, remote, 0)
BY DEF IInv, Fine, Pair, Pairs, Lagging

\* A handler keeps the invariant if what it computes has it.
LEMMA BecomeFine ==
  ASSUME NEW p, Become(p), Fine(p, remote', 0)
  PROVE  IInv'
BY DEF IInv, Fine, Become

\* inf_tcp_connection_close keeps the invariant.
LEMMA CloseConnectionStep == IInv /\ CloseConnection => IInv'
<1> SUFFICES ASSUME IInv, CloseConnection PROVE IInv'
  OBVIOUS
<1>1. Fine(Pair, remote, 0) /\ Pair.tcp.status # "CLOSED" /\ remote' = remote
      /\ Become(Close(Pair))
  BY PairFine DEF CloseConnection, Pair
<1>2. Fine(Close(Pair), remote, 0)
  BY <1>1, FineIsSound, CloseFine
<1> QED BY <1>1, <1>2, BecomeFine

\* inf_tcp_connection_send keeps the invariant.
LEMMA SendBytesStep == IInv /\ (\E n \in 1 .. 3 : SendBytes(n)) => IInv'
<1> SUFFICES ASSUME IInv, NEW n \in 1 .. 3, SendBytes(n) PROVE IInv'
  OBVIOUS
<1>1. Fine(Pair, remote, 0) /\ Pair.tcp.status = "CONNECTED" /\ remote' = remote
      /\ Become(Send(Pair, n)) /\ n \in Nat \ {0}
  BY PairFine DEF SendBytes, Pair
<1>2. Fine(Send(Pair, n), remote, 0)
  BY <1>1, SendFine
<1> QED BY <1>1, <1>2, BecomeFine

\* inf_tcp_connection_io keeps the invariant.
LEMMA IoCallbackStep == IInv /\ IoCallback => IInv'
<1> SUFFICES ASSUME IInv, IoCallback PROVE IInv'
  OBVIOUS
<1>1. Fine(Pair, remote, 0) /\ Pair.tcp = tcp /\ Pair.socket = socket /\ remote' = remote
      /\ tcp.watch
  BY PairFine DEF IoCallback, Pair
<1>2. tcp.status # "CLOSED"
  BY <1>1 DEF IInv, Lagging, Watches
<1>3. Watched \subseteq tcp.events
  BY DEF Watched
<1>4. PICK closes \in BOOLEAN, hangup \in BOOLEAN :
         /\ closes => socket.in # <<>>
         /\ Become(Io(Pair, IF hangup THEN {"error"} ELSE Watched, closes))
  BY DEF IoCallback
<1> DEFINE events == IF hangup THEN {"error"} ELSE Watched
<1>5. events \subseteq Pair.tcp.events \/ events = {"error"}
  BY <1>1, <1>3
<1>6. Become(Io(Pair, events, closes))
  BY <1>4
<1> HIDE DEF events
<1>7. Fine(Io(Pair, events, closes), remote, 0)
  BY <1>1, <1>2, <1>4, <1>5, IoFine
<1> QED BY <1>1, <1>6, <1>7, BecomeFine

\* inf_tcp_connection_open keeps the invariant: a new connection begins with both
\* counts at zero and with whatever positions an error has left.
LEMMA OpenStep == IInv /\ Open => IInv'
<1> SUFFICES ASSUME IInv, Open PROVE IInv'
  OBVIOUS
<1> DEFINE r == [got |-> <<>>, wrote |-> 0]
           m == tcp.opened + 1
           x == [tcp EXCEPT !.opened = @ + 1, !.submitted = 0, !.signalled = 0,
                            !.received = <<>>, !.again = TRUE]
<1>1. /\ tcp \in Tcps /\ tcp.status = "CLOSED" /\ Buffer(tcp) /\ ~tcp.failed /\ ~tcp.watch
      /\ tcp.opened \in Nat /\ tcp.front \in Nat /\ tcp.back \in Nat /\ tcp.alloc \in Nat
  BY DEF IInv, Lagging, Open, Watches, Tcps
<1>2. m \in Nat
  BY <1>1
<1>3. x = [tcp EXCEPT !.opened = m, !.submitted = 0, !.signalled = 0,
                      !.received = <<>>, !.again = TRUE]
  BY <1>1
<1>4. remote' = r /\ r \in Remotes /\ r.got = <<>> /\ r.wrote = 0
  BY DEF Open, Remotes
<1>5. \/ Become(Connected([tcp |-> x, socket |-> [NoSocket EXCEPT !.state = "established"]]))
      \/ /\ tcp' = [Require(x, ~x.watch) EXCEPT !.status = "CONNECTING", !.watch = TRUE,
                                                !.events = {"outgoing", "error"}]
         /\ socket' = [NoSocket EXCEPT !.state = "connecting"]
      \/ tcp' = x /\ socket' = NoSocket
  BY DEF Open
<1> HIDE DEF m, r, x
<1>6. x \in Tcps
  <2>1. <<>> \in Seq(Nat) /\ 0 \in Nat
    OBVIOUS
  <2> QED BY <1>1, <1>2, <1>3, <2>1 DEF Tcps
<1>7. /\ x.status = "CLOSED" /\ x.watch = FALSE /\ x.submitted = 0 /\ x.signalled = 0
      /\ x.received = <<>> /\ x.failed = tcp.failed
      /\ x.front = tcp.front /\ x.back = tcp.back /\ x.alloc = tcp.alloc
  BY <1>1, <1>3 DEF Tcps
<1>8. Buffer(x)
  BY <1>1, <1>7 DEF Buffer
<1>9. ASSUME NEW s, s.out = <<>>, s.in = <<>>
      PROVE  Left(s, r) = 0 /\ \A y : y.submitted = 0 /\ y.received = <<>> => Streams(y, s, r)
  <2>1. KernelRoom \in Nat /\ Len(<<>>) = 0
    BY TcpAssumption
  <2>2. Counts(<<>>, 0) /\ Counts(<<>>, Len(<<>>))
    BY CountsEmpty
  <2>3. Gone(<<>>, <<>>) = 0
    BY <2>1 DEF Gone
  <2>4. Outward(<<>>, <<>>, 0) /\ Inward(<<>>, <<>>, 0)
    BY <2>1, <2>2, <2>3 DEF Outward, Inward
  <2> QED BY <1>4, <1>9, <2>3, <2>4 DEF Left, Streams
<1>10. /\ NoSocket \in Sockets /\ NoSocket.out = <<>> /\ NoSocket.in = <<>>
       /\ \A v \in {"connecting", "established"} :
            /\ [NoSocket EXCEPT !.state = v] \in Sockets
            /\ [NoSocket EXCEPT !.state = v].out = <<>>
            /\ [NoSocket EXCEPT !.state = v].in = <<>>
  <2>1. <<>> \in Seq(Nat)
    OBVIOUS
  <2>2. NoSocket \in Sockets /\ NoSocket.out = <<>> /\ NoSocket.in = <<>>
    BY <2>1 DEF NoSocket, Sockets
  <2>3. ASSUME NEW v \in {"connecting", "established"}
        PROVE  /\ [NoSocket EXCEPT !.state = v] \in Sockets
               /\ [NoSocket EXCEPT !.state = v].out = <<>>
               /\ [NoSocket EXCEPT !.state = v].in = <<>>
    BY <2>2 DEF Sockets
  <2> QED BY <2>2, <2>3
<1>11. CASE Become(Connected([tcp |-> x, socket |-> [NoSocket EXCEPT !.state = "established"]]))
  <2> DEFINE p == [tcp |-> x, socket |-> [NoSocket EXCEPT !.state = "established"]]
  <2>1. p \in Pairs /\ p.tcp = x /\ p.socket.out = <<>> /\ p.socket.in = <<>>
    BY <1>6, <1>10 DEF Pairs
  <2>2. Become(Connected(p))
    BY <1>11
  <2> HIDE DEF p
  <2>3. Left(p.socket, r) = 0 /\ Streams(x, p.socket, r)
    BY <1>7, <1>9, <2>1
  <2>4. Sound(p, r)
    BY <1>1, <1>4, <1>7, <1>8, <2>1, <2>3 DEF Sound
  <2>5. Fine(Connected(p), r, 0)
    BY <1>7, <2>1, <2>3, <2>4, ConnectedFine
  <2> QED BY <1>4, <2>2, <2>5, BecomeFine
<1>12. CASE /\ tcp' = [Require(x, ~x.watch) EXCEPT !.status = "CONNECTING", !.watch = TRUE,
                                                  !.events = {"outgoing", "error"}]
            /\ socket' = [NoSocket EXCEPT !.state = "connecting"]
  <2>1. tcp' = [x EXCEPT !.status = "CONNECTING", !.watch = TRUE,
                         !.events = {"outgoing", "error"}]
    BY <1>7, <1>12 DEF Require
  <2>2. tcp' \in Tcps
    BY <1>6, <2>1 DEF Tcps
  <2>3. /\ tcp'.status = "CONNECTING" /\ tcp'.watch = TRUE
        /\ tcp'.events = {"outgoing", "error"} /\ tcp'.failed = x.failed
        /\ tcp'.front = x.front /\ tcp'.back = x.back /\ tcp'.alloc = x.alloc
        /\ tcp'.submitted = 0 /\ tcp'.signalled = 0 /\ tcp'.received = <<>>
    BY <1>6, <1>7, <2>1 DEF Tcps
  <2>4. socket' \in Sockets /\ socket'.out = <<>> /\ socket'.in = <<>>
    BY <1>10, <1>12
  <2>5. Left(socket', r) = 0 /\ Streams(tcp', socket', r)
    BY <1>9, <2>3, <2>4
  <2>6. Buffer(tcp') /\ Watches(tcp')
    BY <1>8, <2>3 DEF Buffer, Watches
  <2>7. Follows(tcp', socket', r, 0)
    BY <2>3, <2>5 DEF Follows
  <2> QED BY <1>1, <1>4, <1>7, <2>2, <2>3, <2>4, <2>5, <2>6, <2>7 DEF IInv, Lagging
<1>13. CASE tcp' = x /\ socket' = NoSocket
  <2>1. Streams(x, NoSocket, r)
    BY <1>7, <1>9, <1>10
  <2>2. Watches(x) /\ Follows(x, NoSocket, r, 0)
    BY <1>7 DEF Watches, Follows
  <2> QED BY <1>1, <1>4, <1>6, <1>7, <1>8, <1>10, <1>13, <2>1, <2>2 DEF IInv, Lagging
<1> QED BY <1>5, <1>11, <1>12, <1>13

\* Connecting, and the end of a connection, change the state of the socket only.
LEMMA SocketStateStep ==
  ASSUME IInv, NEW v \in {"established", "refused", "ended", "reset"},
         socket' = [socket EXCEPT !.state = v], tcp' = tcp, remote' = remote
  PROVE  IInv'
<1>1. socket \in Sockets
  BY DEF IInv, Lagging
<1>2. socket' \in Sockets /\ socket'.out = socket.out /\ socket'.in = socket.in
  BY <1>1 DEF Sockets
<1>3. Left(socket', remote') = Left(socket, remote)
  BY <1>2 DEF Left
<1>4. Follows(tcp', socket', remote', 0)
  BY <1>3 DEF IInv, Lagging, Follows
<1>5. Streams(tcp', socket', remote')
  BY <1>2 DEF IInv, Lagging, Streams
<1> QED BY <1>2, <1>4, <1>5 DEF IInv, Lagging

\* The other end reads.
LEMMA RemoteReadsStep == IInv /\ RemoteReads => IInv'
<1> SUFFICES ASSUME IInv, RemoteReads PROVE IInv'
  OBVIOUS
<1>1. /\ socket \in Sockets /\ remote \in Remotes /\ tcp' = tcp
      /\ Outward(remote.got, socket.out, tcp.submitted)
      /\ Inward(tcp.received, socket.in, remote.wrote) /\ tcp.submitted \in Nat
  BY DEF IInv, Lagging, Streams, RemoteReads, Tcps
<1>2. PICK k \in 1 .. Len(socket.out) :
        /\ remote' = [remote EXCEPT !.got = @ \o SubSeq(socket.out, 1, k)]
        /\ socket' = [socket EXCEPT !.out = SubSeq(@, k + 1, Len(@))]
  BY DEF RemoteReads
<1> DEFINE read == remote.got \o SubSeq(socket.out, 1, k)
           rest == SubSeq(socket.out, k + 1, Len(socket.out))
<1>3. /\ read \in Seq(Nat) /\ rest \in Seq(Nat) /\ Outward(read, rest, tcp.submitted)
      /\ Gone(read, rest) = Gone(remote.got, socket.out)
  BY <1>1, OutwardRead
<1>4. remote' = [remote EXCEPT !.got = read] /\ socket' = [socket EXCEPT !.out = rest]
  BY <1>2
<1> HIDE DEF read, rest
<1>5. /\ remote' \in Remotes /\ remote'.got = read /\ remote'.wrote = remote.wrote
      /\ socket' \in Sockets /\ socket'.out = rest /\ socket'.in = socket.in
  BY <1>1, <1>3, <1>4 DEF Remotes, Sockets
<1>6. Left(socket', remote') = Left(socket, remote)
  BY <1>3, <1>5 DEF Left
<1>7. Follows(tcp', socket', remote', 0)
  BY <1>1, <1>6 DEF IInv, Lagging, Follows
<1>8. Streams(tcp', socket', remote')
  BY <1>1, <1>3, <1>5 DEF Streams
<1> QED BY <1>1, <1>5, <1>7, <1>8 DEF IInv, Lagging

\* The other end writes.
LEMMA RemoteWritesStep == IInv /\ RemoteWrites => IInv'
<1> SUFFICES ASSUME IInv, RemoteWrites PROVE IInv'
  OBVIOUS
<1> DEFINE n == remote.wrote
           more == Append(socket.in, n + 1)
<1>1. /\ socket \in Sockets /\ remote \in Remotes /\ tcp' = tcp /\ n \in Nat
      /\ Outward(remote.got, socket.out, tcp.submitted)
      /\ Inward(tcp.received, socket.in, n)
  BY DEF IInv, Lagging, Streams, RemoteWrites, Remotes
<1>2. more \in Seq(Nat) /\ Inward(tcp.received, more, n + 1)
  BY <1>1, InwardMore
<1>3. remote' = [remote EXCEPT !.wrote = n + 1] /\ socket' = [socket EXCEPT !.in = more]
  BY <1>1 DEF RemoteWrites
<1>4. n + 1 \in Nat
  BY <1>1
<1> HIDE DEF more
<1>5. /\ remote' \in Remotes /\ remote'.got = remote.got /\ remote'.wrote = n + 1
      /\ socket' \in Sockets /\ socket'.out = socket.out /\ socket'.in = more
  BY <1>1, <1>2, <1>3, <1>4 DEF Remotes, Sockets
<1>6. Left(socket', remote') = Left(socket, remote)
  BY <1>5 DEF Left
<1>7. Follows(tcp', socket', remote', 0)
  BY <1>1, <1>6 DEF IInv, Lagging, Follows
<1>8. Streams(tcp', socket', remote')
  BY <1>1, <1>2, <1>5 DEF Streams
<1> QED BY <1>1, <1>5, <1>7, <1>8 DEF IInv, Lagging

\* It holds at first.
LEMMA InitInv == TcpInit => IInv
<1> SUFFICES ASSUME TcpInit PROVE IInv
  OBVIOUS
<1>1. Quantum \in Nat \ {0} /\ KernelRoom \in Nat
  BY TcpAssumption
<1>2. /\ tcp.status = "CLOSED" /\ tcp.events = {} /\ tcp.watch = FALSE /\ tcp.memory = Empty
      /\ tcp.front = 0 /\ tcp.back = 0 /\ tcp.alloc = Quantum /\ tcp.submitted = 0
      /\ tcp.received = <<>> /\ tcp.failed = FALSE
      /\ socket.out = <<>> /\ socket.in = <<>> /\ remote.got = <<>> /\ remote.wrote = 0
  BY DEF TcpInit, ClosedTcp, NoSocket
<1>3. Empty \in Memories
  <2>1. Empty \in [0 .. 0 - 1 -> Nat]
    BY DEF Empty
  <2> QED BY <2>1 DEF Memories
<1>4. tcp \in Tcps
  BY <1>1, <1>3 DEF TcpInit, ClosedTcp, Tcps
<1>5. socket \in Sockets /\ remote \in Remotes
  BY DEF TcpInit, NoSocket, Sockets, Remotes
<1>6. Buffer(tcp)
  BY <1>1, <1>2 DEF Buffer
<1>7. Watches(tcp) /\ Follows(tcp, socket, remote, 0)
  BY <1>2 DEF Watches, Follows
<1>8. Streams(tcp, socket, remote)
  <2>1. Counts(<<>>, 0) /\ Counts(<<>>, Len(<<>>)) /\ Len(<<>>) = 0
    BY CountsEmpty
  <2>2. Outward(<<>>, <<>>, 0) /\ Inward(<<>>, <<>>, 0)
    BY <1>1, <2>1 DEF Outward, Inward, Gone
  <2> QED BY <1>2, <2>2 DEF Streams
<1> QED BY <1>2, <1>4, <1>5, <1>6, <1>7, <1>8 DEF IInv, Lagging

\* For any size of the queue's allocation and of the kernel's buffer: the types are right,
\* no assertion of inf-tcp-connection.c fails, what is gone, the queue and what was
\* submitted follow each other, and the socket is watched for what is needed.
THEOREM Invariance == TcpSpec => []IInv
<1>1. IInv /\ [TcpNext]_tcpVars => IInv'
  <2> SUFFICES ASSUME IInv, [TcpNext]_tcpVars PROVE IInv'
    OBVIOUS
  <2>1. CASE ConnectEnds
    BY <2>1, SocketStateStep DEF ConnectEnds
  <2>2. CASE RemoteEnds
    BY <2>2, SocketStateStep DEF RemoteEnds
  <2>3. CASE UNCHANGED tcpVars
    BY <2>3 DEF IInv, tcpVars
  <2> QED BY <2>1, <2>2, <2>3, OpenStep, CloseConnectionStep, SendBytesStep, IoCallbackStep,
            RemoteReadsStep, RemoteWritesStep DEF TcpNext
<1> QED BY <1>1, InitInv, PTL DEF TcpSpec

------------------------------------------------------------------------------
(* What it says *)

\* The invariant says that bytes arrive in order and once.
LEMMA StreamHolds == IInv => StreamExact
<1> SUFFICES ASSUME IInv PROVE StreamExact
  OBVIOUS
<1> DEFINE left == remote.got \o socket.out
           n == tcp.submitted
<1>1. PICK got, out : got = remote.got /\ out = socket.out
  OBVIOUS
<1>2. /\ tcp \in Tcps /\ ~tcp.failed /\ Buffer(tcp) /\ n \in Nat /\ tcp.front \in Nat
      /\ tcp.back \in Nat /\ tcp.signalled \in Nat /\ Outward(got, out, n)
      /\ Inward(tcp.received, socket.in, remote.wrote)
  BY <1>1 DEF IInv, Lagging, Streams, Tcps
<1>3. /\ got \in Seq(Nat) /\ out \in Seq(Nat) /\ Len(got) \in Nat /\ Len(out) \in Nat
      /\ Counts(got, 0) /\ Counts(out, 0 + Len(got))
  BY <1>2 DEF Outward, Counts
<1>4. PICK g \in Nat : g = Len(got) + Len(out)
  BY <1>3
<1>5. left = got \o out
  BY <1>1
<1>6. Counts(left, 0) /\ Len(left) = g
  BY <1>3, <1>4, <1>5, CountsJoin
<1> HIDE DEF left
<1>7. Left(socket, remote) = g /\ g <= n
  BY <1>1, <1>2, <1>4 DEF Left, Gone, Outward
<1>8. ASSUME tcp.status = "CONNECTED"
      PROVE  left \o Waiting(tcp) = Octets(0, n) /\ tcp.signalled = Len(left)
  <2>1. /\ QueueCounts(tcp, g) /\ g + (tcp.front - tcp.back) = n /\ tcp.signalled + 0 = g
    BY <1>7, <1>8 DEF IInv, Lagging, Follows
  <2>2. Counts(Waiting(tcp), g) /\ Len(Waiting(tcp)) = tcp.front - tcp.back
    BY <1>2, <2>1, WaitingCounts
  <2>3. 0 + Len(left) = g
    BY <1>6
  <2>4. Counts(left \o Waiting(tcp), 0) /\ Len(left \o Waiting(tcp)) = n
    <3>1. Counts(left \o Waiting(tcp), 0)
          /\ Len(left \o Waiting(tcp)) = Len(left) + Len(Waiting(tcp))
      BY <1>6, <2>2, <2>3, CountsJoin
    <3> QED BY <1>6, <2>1, <2>2, <3>1
  <2>5. left \o Waiting(tcp) = Octets(0, n)
    BY <2>4, CountsAreOctets
  <2>6. tcp.signalled = Len(left)
    BY <1>2, <1>6, <2>1
  <2> QED BY <2>5, <2>6
<1>9. IsPrefix(left, Octets(0, n))
  <2>1. left = Octets(0, g)
    BY <1>6, CountsAreOctets
  <2>2. PICK more : more = Octets(0, n)
    OBVIOUS
  <2>3. more \in Seq(Nat) /\ Len(more) = n /\ \A i \in 1 .. n : more[i] = 0 + i
    BY <1>2, <2>2, OctetsCount DEF Counts
  <2>4. left \in Seq(Nat) /\ \A i \in 1 .. g : left[i] = 0 + i
    BY <1>6 DEF Counts
  <2>5. SubSeq(left, 1, g) = SubSeq(more, 1, g)
    BY <1>2, <1>6, <1>7, <2>3, <2>4
  <2> QED BY <1>2, <1>6, <1>7, <2>2, <2>3, <2>5 DEF IsPrefix
<1>10. tcp.received \o socket.in = Octets(0, remote.wrote)
  <2>1. /\ Counts(tcp.received, 0) /\ Counts(socket.in, 0 + Len(tcp.received))
        /\ Len(tcp.received) + Len(socket.in) = remote.wrote
    <3>1. /\ Counts(tcp.received, 0) /\ Counts(socket.in, Len(tcp.received))
          /\ Len(tcp.received) + Len(socket.in) = remote.wrote
      BY <1>2 DEF Inward
    <3>2. Len(tcp.received) \in Nat
      BY <3>1 DEF Counts
    <3>3. 0 + Len(tcp.received) = Len(tcp.received)
      BY <3>2
    <3> QED BY <3>1, <3>3
  <2>2. Counts(tcp.received \o socket.in, 0)
        /\ Len(tcp.received \o socket.in) = remote.wrote
    BY <2>1, CountsJoin
  <2> QED BY <2>2, CountsAreOctets
<1> QED BY <1>2, <1>8, <1>9, <1>10 DEF StreamExact, left

\* The invariant says that the socket is watched for what is needed.
LEMMA WatchHolds == IInv => WatchExact
<1> SUFFICES ASSUME IInv PROVE WatchExact
  OBVIOUS
<1>1. /\ tcp \in Tcps /\ tcp.front \in Nat /\ tcp.back \in Nat /\ tcp.alloc \in Nat
      /\ Buffer(tcp) /\ Watches(tcp)
  BY DEF IInv, Lagging, Tcps
<1>2. ASSUME tcp.status = "CONNECTED"
      PROVE  (Waiting(tcp) # <<>>) = (tcp.back < tcp.front)
  <2>1. PICK n \in Nat : QueueCounts(tcp, n)
    <3>1. Fine(Pair, remote, 0)
      BY PairFine
    <3>2. Left(socket, remote) \in Nat
      BY <3>1, PairTypes DEF Fine, Lagging, Pair
    <3> QED BY <1>2, <3>2 DEF IInv, Lagging, Follows
  <2>2. Waiting(tcp) \in Seq(Nat) /\ Len(Waiting(tcp)) = tcp.front - tcp.back
    BY <1>1, <2>1, WaitingCounts DEF Counts
  <2> QED BY <1>1, <2>2 DEF Buffer
<1> QED BY <1>1, <1>2 DEF WatchExact, Buffer, Watches

\* Of the bytes given to inf_tcp_connection_send nothing is lost, repeated or reordered,
\* exactly what the kernel took is reported as sent, and whenever something waits
\* the socket is watched for being writable, and only then.
THEOREM TcpExactAlways == TcpSpec => []TcpExact
<1>1. IInv => TcpExact
  BY StreamHolds, WatchHolds DEF TcpExact
<1> QED BY <1>1, Invariance, PTL


------------------------------------------------------------------------------
(* Documents as files: what is written is read again *)

Segs(U) == [author : U, length : Nat]

\* The segments r up to each spell what b has there.
Spelled(U, r, b) ==
  /\ b \in [0 .. Len(r) -> Seq(U)]
  /\ b[0] = <<>>
  /\ \A k \in 1 .. Len(r) : b[k] = b[k - 1] \o Piece(r[k])

\* Every non-empty set of numbers has a least member.
LEMMA LeastNumber ==
  ASSUME NEW S, S \subseteq Nat, S # {}
  PROVE  \E x \in S : \A y \in S : x <= y
<1>1. \E x \in S : \A y \in S : ~(<<y, x>> \in OpToRel(<, Nat))
  BY NatLessThanWellFounded, WFMin
<1>2. PICK x \in S : \A y \in S : ~(<<y, x>> \in OpToRel(<, Nat))
  BY <1>1
<1>3. ASSUME NEW y \in S PROVE x <= y
  <2>1. x \in Nat /\ y \in Nat
    BY <1>3
  <2>2. ~(y < x)
    BY <1>2, <1>3, <2>1 DEF OpToRel
  <2> QED BY <2>1, <2>2
<1> QED BY <1>2, <1>3

\* What holds of 0, and of each number after one of which it holds, holds up to N.
LEMMA UpTo ==
  ASSUME NEW N \in Nat, NEW S, 0 \in S, \A n \in 0 .. N : n \in S /\ n + 1 <= N => n + 1 \in S
  PROVE  \A n \in 0 .. N : n \in S
<1> DEFINE Rest == {n \in 0 .. N : n \notin S}
<1>1. ASSUME Rest # {} PROVE FALSE
  <2>1. Rest \subseteq Nat
    OBVIOUS
  <2>2. PICK m \in Rest : \A n \in Rest : m <= n
    <3> HIDE DEF Rest
    <3> QED BY <1>1, <2>1, LeastNumber
  <2>3. m \in 0 .. N /\ m \notin S /\ m # 0
    OBVIOUS
  <2>4. m - 1 \in 0 .. N /\ m - 1 < m /\ (m - 1) + 1 = m /\ m <= N
    BY <2>3
  <2>5. m - 1 \in S
    BY <2>2, <2>4
  <2> QED BY <2>3, <2>4, <2>5
<1> QED BY <1>1

\* Reading goes through what the segments spell.
LEMMA BufferIs ==
  ASSUME NEW U, NEW r \in Seq(Segs(U)), NEW b, Spelled(U, r, b), NEW f, f.segments = r
  PROVE  BufferOf(f) = b[Len(r)]
<1> DEFINE Round(g) == [i \in 0 .. Len(r) |-> IF i = 0 THEN <<>> ELSE g[i - 1] \o Piece(r[i])]
           J == CHOOSE g : g = Round(g)
<1>1. BufferOf(f) = J[Len(r)]
  BY DEF BufferOf
<1>2. Len(r) \in Nat /\ Len(r) \in 0 .. Len(r)
  OBVIOUS
<1>3. /\ b \in [0 .. Len(r) -> Seq(U)] /\ b[0] = <<>>
      /\ \A k \in 1 .. Len(r) : b[k] = b[k - 1] \o Piece(r[k])
  BY DEF Spelled
<1>4. b = Round(b)
  <2>1. ASSUME NEW k \in 0 .. Len(r) PROVE b[k] = Round(b)[k]
    <3>1. CASE k = 0
      BY <1>3, <3>1
    <3>2. CASE k \in 1 .. Len(r) /\ k # 0
      BY <1>3, <3>2
    <3> QED BY <1>2, <3>1, <3>2
  <2> QED BY <1>3, <2>1
<1>5. J = Round(J)
  BY <1>4
<1> HIDE DEF J
<1>6. ASSUME NEW k \in 0 .. Len(r)
      PROVE  J[k] = IF k = 0 THEN <<>> ELSE J[k - 1] \o Piece(r[k])
  BY <1>5
<1> DEFINE Same == {k \in 0 .. Len(r) : J[k] = b[k]}
<1>7. 0 \in Same
  BY <1>2, <1>3, <1>6
<1>8. ASSUME NEW k \in 0 .. Len(r), k \in Same, k + 1 <= Len(r) PROVE k + 1 \in Same
  <2>1. k + 1 \in 0 .. Len(r) /\ k + 1 \in 1 .. Len(r) /\ k + 1 # 0 /\ (k + 1) - 1 = k
    BY <1>2, <1>8
  <2>2. J[k + 1] = J[k] \o Piece(r[k + 1])
    BY <1>6, <2>1
  <2>3. b[k + 1] = b[k] \o Piece(r[k + 1])
    BY <1>3, <2>1
  <2> QED BY <1>8, <2>1, <2>2, <2>3
<1>9. \A k \in 0 .. Len(r) : k \in Same
  <2> HIDE DEF Same
  <2> QED BY <1>2, <1>7, <1>8, UpTo
<1> QED BY <1>1, <1>2, <1>9

\* One more character of an author is one more character in what is spelled.
LEMMA ExtendedSpells ==
  ASSUME NEW U, NEW r \in Seq(Segs(U)), NEW b, Spelled(U, r, b), NEW a \in U
  PROVE  /\ Extended(r, a) \in Seq(Segs(U))
         /\ \E c : /\ Spelled(U, Extended(r, a), c)
                   /\ c[Len(Extended(r, a))] = Append(b[Len(r)], a)
<1> DEFINE n == Len(r)
<1>1. /\ b \in [0 .. n -> Seq(U)] /\ b[0] = <<>>
      /\ \A k \in 1 .. n : b[k] = b[k - 1] \o Piece(r[k])
      /\ n \in Nat /\ n \in 0 .. n
  BY DEF Spelled
<1>2. b[n] \in Seq(U) /\ Append(b[n], a) \in Seq(U)
  BY <1>1
<1>3. CASE r # <<>> /\ r[n].author = a
  <2> DEFINE m == r[n].length
             x == [r EXCEPT ![n].length = @ + 1]
             c == [b EXCEPT ![n] = Append(b[n], a)]
  <2>1. Extended(r, a) = x
    BY <1>3 DEF Extended
  <2>2. n \in 1 .. n /\ n > 0 /\ r[n] \in Segs(U) /\ m \in Nat /\ n - 1 \in 0 .. n /\ n - 1 # n
    <3>1. n > 0
      BY <1>1, <1>3
    <3>2. n \in 1 .. n /\ n - 1 \in 0 .. n /\ n - 1 # n
      BY <1>1, <3>1
    <3>3. r[n] \in Segs(U)
      BY <3>2
    <3> QED BY <3>1, <3>2, <3>3 DEF Segs
  <2>3. /\ x \in Seq(Segs(U)) /\ Len(x) = n
        /\ x[n] = [author |-> a, length |-> m + 1]
        /\ \A k \in 1 .. n : k # n => x[k] = r[k]
    <3>1. x = [r EXCEPT ![n] = [r[n] EXCEPT !.length = m + 1]]
      OBVIOUS
    <3>2. [r[n] EXCEPT !.length = m + 1] = [author |-> a, length |-> m + 1]
      BY <1>3, <2>2 DEF Segs
    <3>3. [author |-> a, length |-> m + 1] \in Segs(U)
      BY <2>2 DEF Segs
    <3> HIDE DEF x, m
    <3> QED BY <2>2, <3>1, <3>2, <3>3
  <2>4. r[n] = [author |-> a, length |-> m]
    BY <1>3, <2>2 DEF Segs
  <2>5. Append(b[n], a) = b[n - 1] \o Piece(x[n])
    <3>1. b[n] = b[n - 1] \o Piece(r[n]) /\ b[n - 1] \in Seq(U)
      BY <1>1, <2>2
    <3>2. Piece(r[n]) = [i \in 1 .. m |-> a] /\ Piece(x[n]) = [i \in 1 .. m + 1 |-> a]
      <4> HIDE DEF m, x
      <4> QED BY <2>3, <2>4 DEF Piece
    <3>3. [i \in 1 .. m |-> a] \in Seq(U) /\ Len([i \in 1 .. m |-> a]) = m
      <4> HIDE DEF m
      <4> QED BY <2>2, IsASeq
    <3>4. [i \in 1 .. m + 1 |-> a] = Append([i \in 1 .. m |-> a], a)
      <4> HIDE DEF m
      <4> QED BY <2>2, <3>3
    <3> DEFINE p == [i \in 1 .. m |-> a]
               q == b[n - 1]
    <3>5. Append(q \o p, a) = q \o Append(p, a)
      <4>1. q \in Seq(U) /\ p \in Seq(U)
        BY <3>1, <3>3
      <4> HIDE DEF p, q
      <4>2. q \o p \in Seq(U)
        BY <4>1
      <4>3. Append(q \o p, a) = (q \o p) \o <<a>> /\ Append(p, a) = p \o <<a>>
        BY <4>1, <4>2, AppendIsConcat
      <4>4. (q \o p) \o <<a>> = q \o (p \o <<a>>)
        BY <4>1, ConcatAssociative
      <4> QED BY <4>3, <4>4
    <3> QED BY <3>1, <3>2, <3>4, <3>5
  <2>6. Spelled(U, x, c)
    <3>1. c \in [0 .. n -> Seq(U)] /\ c[n] = Append(b[n], a) /\ \A k \in 0 .. n : k # n => c[k] = b[k]
      BY <1>1, <1>2
    <3>2. c[0] = <<>>
      BY <1>1, <2>2, <3>1
    <3> HIDE DEF c, x, m
    <3>3. ASSUME NEW k \in 1 .. n PROVE c[k] = c[k - 1] \o Piece(x[k])
      <4>1. k - 1 \in 0 .. n /\ k - 1 # n /\ k \in 0 .. n
        BY <1>1, <3>3
      <4>2. CASE k = n
        BY <2>5, <3>1, <4>1, <4>2
      <4>3. CASE k # n
        BY <1>1, <2>3, <3>1, <4>1, <4>3
      <4> QED BY <4>2, <4>3
    <3> QED BY <2>3, <3>1, <3>2, <3>3 DEF Spelled
  <2>7. c[Len(x)] = Append(b[n], a)
    <3>1. c[n] = Append(b[n], a)
      BY <1>1
    <3> QED BY <2>3, <3>1
  <2> HIDE DEF c, x, m, n
  <2> QED BY <2>1, <2>3, <2>6, <2>7 DEF n
<1>4. CASE ~(r # <<>> /\ r[n].author = a)
  <2> DEFINE seg == [author |-> a, length |-> 1]
             x == Append(r, seg)
             c == [k \in 0 .. n + 1 |-> IF k = n + 1 THEN Append(b[n], a) ELSE b[k]]
  <2>1. Extended(r, a) = x
    BY <1>4 DEF Extended
  <2>2. seg \in Segs(U)
    BY DEF Segs
  <2>3. x \in Seq(Segs(U)) /\ Len(x) = n + 1 /\ x[n + 1] = seg /\ \A k \in 1 .. n : x[k] = r[k]
    BY <2>2
  <2>4. Append(b[n], a) = b[n] \o Piece(seg)
    <3>1. Piece(seg) = <<a>>
      BY DEF Piece
    <3> HIDE DEF n
    <3> QED BY <1>2, <3>1, AppendIsConcat
  <2>5. /\ c \in [0 .. n + 1 -> Seq(U)] /\ c[n + 1] = Append(b[n], a)
        /\ \A k \in 0 .. n : c[k] = b[k]
    BY <1>1, <1>2
  <2> HIDE DEF seg, x, c
  <2>6. Spelled(U, x, c)
    <3>1. c[0] = <<>>
      BY <1>1, <2>5
    <3>2. ASSUME NEW k \in 1 .. n + 1 PROVE c[k] = c[k - 1] \o Piece(x[k])
      <4>1. k - 1 \in 0 .. n
        BY <1>1
      <4>2. CASE k = n + 1
        <5>1. k - 1 = n
          BY <1>1, <4>2
        <5> QED BY <2>3, <2>4, <2>5, <4>1, <4>2, <5>1
      <4>3. CASE k # n + 1
        <5>1. k \in 1 .. n /\ k \in 0 .. n
          BY <1>1, <4>3
        <5> QED BY <1>1, <2>3, <2>5, <4>1, <5>1
      <4> QED BY <4>2, <4>3
    <3> QED BY <2>3, <2>5, <3>1, <3>2 DEF Spelled
  <2>7. c[Len(x)] = Append(b[n], a)
    BY <2>3, <2>5
  <2> QED BY <2>1, <2>3, <2>6, <2>7
<1> QED BY <1>3, <1>4

\* The segments of what is written up to each character.
Growing(U, f, t, n) ==
  /\ f \in [0 .. n -> Seq(Segs(U))]
  /\ f[0] = <<>>
  /\ \A k \in 1 .. n : f[k] = Extended(f[k - 1], t[k])

\* They spell it.
LEMMA GrowingExists ==
  ASSUME NEW U, NEW t \in Seq(U)
  PROVE  \E f, b : /\ Growing(U, f, t, Len(t)) /\ Spelled(U, f[Len(t)], b)
                   /\ b[Len(f[Len(t)])] = t
<1> DEFINE N == Len(t)
           Done(n) == \E f, b : /\ Growing(U, f, t, n) /\ Spelled(U, f[n], b)
                                /\ b[Len(f[n])] = SubSeq(t, 1, n)
           S == {n \in 0 .. N : Done(n)}
<1>1. N \in Nat
  OBVIOUS
<1>2. 0 \in S
  <2> DEFINE f == [k \in 0 .. 0 |-> <<>>]
             b == [k \in 0 .. 0 |-> <<>>]
  <2>1. f[0] = <<>> /\ b[0] = <<>> /\ Len(<<>>) = 0 /\ SubSeq(t, 1, 0) = <<>>
    OBVIOUS
  <2>2. Growing(U, f, t, 0)
    BY <2>1 DEF Growing
  <2>3. Spelled(U, f[0], b)
    BY <2>1 DEF Spelled
  <2>4. b[Len(f[0])] = SubSeq(t, 1, 0)
    BY <2>1
  <2>5. Done(0)
    <3> HIDE DEF f, b
    <3> QED BY <2>2, <2>3, <2>4
  <2> HIDE DEF Done, f, b
  <2> QED BY <1>1, <2>5
<1>3. ASSUME NEW n \in 0 .. N, n \in S, n + 1 <= N PROVE n + 1 \in S
  <2>1. PICK f, b : /\ Growing(U, f, t, n) /\ Spelled(U, f[n], b)
                    /\ b[Len(f[n])] = SubSeq(t, 1, n)
    BY <1>3
  <2>2. /\ f \in [0 .. n -> Seq(Segs(U))] /\ f[0] = <<>>
        /\ \A k \in 1 .. n : f[k] = Extended(f[k - 1], t[k])
        /\ f[n] \in Seq(Segs(U)) /\ n \in Nat
    BY <1>3, <2>1 DEF Growing
  <2> DEFINE a == t[n + 1]
             e == Extended(f[n], a)
  <2>3. a \in U /\ n + 1 \in 1 .. N /\ n + 1 \in 0 .. N
    BY <1>1, <1>3
  <2>4. PICK c : Spelled(U, e, c) /\ c[Len(e)] = Append(b[Len(f[n])], a)
    <3> HIDE DEF a, Done, S, N
    <3>1. ASSUME NEW r \in Seq(Segs(U)), Spelled(U, r, b)
          PROVE  \E c : /\ Spelled(U, Extended(r, a), c)
                        /\ c[Len(Extended(r, a))] = Append(b[Len(r)], a)
      BY <2>3, <3>1, ExtendedSpells
    <3> QED BY <2>1, <2>2, <3>1
  <2>5. e \in Seq(Segs(U))
    BY <2>1, <2>2, <2>3, ExtendedSpells
  <2> DEFINE g == [k \in 0 .. n + 1 |-> IF k = n + 1 THEN e ELSE f[k]]
  <2>6. /\ g \in [0 .. n + 1 -> Seq(Segs(U))] /\ g[n + 1] = e
        /\ \A k \in 0 .. n : g[k] = f[k]
    <3> HIDE DEF e
    <3> QED BY <2>2, <2>5
  <2>7. Append(SubSeq(t, 1, n), a) = SubSeq(t, 1, n + 1)
    <3>1. 1 \in 1 .. Len(t) /\ n + 1 \in 1 .. Len(t) /\ (n + 1) - 1 = n
      BY <1>1, <2>2, <2>3
    <3>2. SubSeq(t, 1, n + 1) = SubSeq(t, 1, n) \o <<t[n + 1]>>
      BY <3>1, SubSeqRecursiveSecond
    <3>3. SubSeq(t, 1, n) \in Seq(U)
      BY <2>2, <3>1
    <3> HIDE DEF N, S, Done
    <3> QED BY <2>3, <3>2, <3>3, AppendIsConcat
  <2> HIDE DEF g
  <2>8. Growing(U, g, t, n + 1)
    <3>1. g[0] = <<>>
      BY <2>2, <2>6
    <3>2. ASSUME NEW k \in 1 .. n + 1 PROVE g[k] = Extended(g[k - 1], t[k])
      <4>1. k - 1 \in 0 .. n
        BY <2>2
      <4>2. CASE k = n + 1
        <5>1. k - 1 = n /\ g[k - 1] = f[n]
          BY <2>2, <2>6, <4>1, <4>2
        <5> QED BY <2>6, <4>2, <5>1
      <4>3. CASE k # n + 1
        <5>1. k \in 1 .. n /\ k \in 0 .. n
          BY <2>2, <4>3
        <5> QED BY <2>2, <2>6, <4>1, <5>1
      <4> QED BY <4>2, <4>3
    <3> QED BY <2>6, <3>1, <3>2 DEF Growing
  <2>9. Done(n + 1)
    <3>1. Spelled(U, g[n + 1], c) /\ c[Len(g[n + 1])] = SubSeq(t, 1, n + 1)
      <4> HIDE DEF e, a
      <4> QED BY <2>1, <2>4, <2>6, <2>7
    <3> QED BY <2>8, <3>1
  <2> HIDE DEF Done
  <2> QED BY <2>3, <2>9
<1>4. N \in S
  <2> HIDE DEF S
  <2>1. N \in 0 .. N
    BY <1>1
  <2> QED BY <1>1, <1>2, <1>3, <2>1, UpTo
<1>5. SubSeq(t, 1, N) = t
  OBVIOUS
<1> QED BY <1>4, <1>5

\* Writing goes through them.
LEMMA SegmentsIs ==
  ASSUME NEW U, NEW t \in Seq(U), NEW f, Growing(U, f, t, Len(t))
  PROVE  Segments(t) = f[Len(t)]
<1> DEFINE N == Len(t)
           Round(g) == [i \in 0 .. N |-> IF i = 0 THEN <<>> ELSE Extended(g[i - 1], t[i])]
           J == CHOOSE g : g = Round(g)
<1>1. Segments(t) = J[N]
  BY DEF Segments
<1>2. N \in Nat /\ N \in 0 .. N
  OBVIOUS
<1>3. /\ f \in [0 .. N -> Seq(Segs(U))] /\ f[0] = <<>>
      /\ \A k \in 1 .. N : f[k] = Extended(f[k - 1], t[k])
  BY DEF Growing
<1>4. f = Round(f)
  <2>1. ASSUME NEW k \in 0 .. N PROVE f[k] = Round(f)[k]
    <3>1. CASE k = 0
      BY <1>3, <3>1
    <3>2. CASE k \in 1 .. N /\ k # 0
      BY <1>3, <3>2
    <3> QED BY <1>2, <3>1, <3>2
  <2> QED BY <1>3, <2>1
<1>5. J = Round(J)
  BY <1>4
<1> HIDE DEF J
<1>6. ASSUME NEW k \in 0 .. N
      PROVE  J[k] = IF k = 0 THEN <<>> ELSE Extended(J[k - 1], t[k])
  BY <1>5
<1> DEFINE Same == {k \in 0 .. N : J[k] = f[k]}
<1>7. 0 \in Same
  BY <1>2, <1>3, <1>6
<1>8. ASSUME NEW k \in 0 .. N, k \in Same, k + 1 <= N PROVE k + 1 \in Same
  <2>1. k + 1 \in 0 .. N /\ k + 1 \in 1 .. N /\ k + 1 # 0 /\ (k + 1) - 1 = k
    BY <1>2, <1>8
  <2>2. J[k + 1] = Extended(J[k], t[k + 1])
    BY <1>6, <2>1
  <2>3. f[k + 1] = Extended(f[k], t[k + 1])
    BY <1>3, <2>1
  <2> QED BY <1>8, <2>1, <2>2, <2>3
<1>9. \A k \in 0 .. N : k \in Same
  <2> HIDE DEF Same
  <2> QED BY <1>2, <1>7, <1>8, UpTo
<1> QED BY <1>1, <1>2, <1>9

\* A text is read as it was written, and its segments are by its authors.
LEMMA ReadAsWritten ==
  ASSUME NEW U, NEW t \in Seq(U), NEW file, file.segments = Segments(t)
  PROVE  BufferOf(file) = t /\ \A i \in DOMAIN Segments(t) : Segments(t)[i].author \in U
<1>1. PICK f, b : /\ Growing(U, f, t, Len(t)) /\ Spelled(U, f[Len(t)], b)
                  /\ b[Len(f[Len(t)])] = t
  BY GrowingExists
<1>2. Segments(t) = f[Len(t)]
  BY <1>1, SegmentsIs
<1>3. Segments(t) \in Seq(Segs(U))
  <2>1. Len(t) \in 0 .. Len(t)
    OBVIOUS
  <2> QED BY <1>1, <1>2, <2>1 DEF Growing
<1>4. BufferOf(file) = t
  BY <1>1, <1>2, <1>3, BufferIs
<1>5. ASSUME NEW i \in DOMAIN Segments(t) PROVE Segments(t)[i].author \in U
  <2>1. Segments(t)[i] \in Segs(U)
    BY <1>3, <1>5
  <2> QED BY <2>1 DEF Segs
<1> QED BY <1>4, <1>5

------------------------------------------------------------------------------
(* What there is *)

People == UNION {Editors[n] : n \in Notes}
Sessions == [linked : BOOLEAN, idle : BOOLEAN, users : SUBSET People, text : Seq(People),
             modified : BOOLEAN, clean : Seq(People), auto : BOOLEAN,
             sync : {"none", "running", "failed"}, save : BOOLEAN]
Documents(U) == {[kind |-> "document", users |-> U, segments |-> Segments(t)] : t \in Seq(U)}
NoteFiles == {Nothing, Truncated} \cup UNION {Documents(U) : U \in SUBSET People}
Copies == [kind : {"none", "document"}, text : Seq(People)]

\* Users have typed what a session holds.
Signed(s) == s.text \in Seq(s.users) /\ s.clean \in Seq(s.users)

DiskType(d) ==
  /\ d \in [Notes \cup {Folder} -> NoteFiles \cup {Directory}]
  /\ \A n \in Notes : d[n] \in NoteFiles
SessionType(ss) == ss \in [Notes -> Sessions] /\ \A n \in Notes : Signed(ss[n])
StorageType ==
  /\ DiskType(disk) /\ SessionType(session)
  /\ copies \in [Notes -> Copies] /\ nodes \subseteq Notes \cup {Folder}
  /\ daemon \in [state : {"up", "stopped", "crashed", "aborted"}, interval : Nat, copying : BOOLEAN]

StorageInv == StorageType /\ StorageExact

\* A note is safe: in memory, known to be damaged, or on disk.
Safe(n, file, s, h) == s.linked \/ n \in h \/ Holds(file, s)

------------------------------------------------------------------------------
(* Files *)

\* What a session writes holds it.
LEMMA WrittenHolds ==
  ASSUME NEW s \in Sessions, Signed(s)
  PROVE  SessionWrite(s) \in NoteFiles /\ Holds(SessionWrite(s), s)
<1> DEFINE file == SessionWrite(s)
<1>1. s.users \in SUBSET People /\ s.text \in Seq(s.users)
  BY DEF Sessions, Signed
<1>2. /\ file = [kind |-> "document", users |-> s.users, segments |-> Segments(s.text)]
      /\ file.kind = "document" /\ file.users = s.users /\ file.segments = Segments(s.text)
  BY DEF SessionWrite
<1>3. file \in Documents(s.users)
  BY <1>1, <1>2 DEF Documents
<1>4. file \in NoteFiles
  BY <1>1, <1>3 DEF NoteFiles
<1> HIDE DEF file
<1>5. /\ BufferOf(file) = s.text
      /\ \A i \in DOMAIN Segments(s.text) : Segments(s.text)[i].author \in s.users
  BY <1>1, <1>2, ReadAsWritten
<1>6. Holds(file, s)
  BY <1>2, <1>5 DEF Holds, Readable
<1> QED BY <1>4, <1>6 DEF file

\* A document can be read, by its users and with its text.
LEMMA FileRead ==
  ASSUME NEW file \in NoteFiles
  PROVE  /\ file \in {Nothing, Truncated} \/ file.kind = "document"
         /\ Readable(file) <=> file.kind = "document"
         /\ Readable(file) => /\ Loaded(file) \in Sessions /\ Signed(Loaded(file))
                              /\ ~Loaded(file).linked /\ Loaded(file).auto = Loaded(file).modified
                              /\ Holds(file, Loaded(file))
<1>1. CASE file \in {Nothing, Truncated}
  BY <1>1 DEF Nothing, Truncated, Readable
<1>2. CASE file \notin {Nothing, Truncated}
  <2>1. PICK U \in SUBSET People : file \in Documents(U)
    BY <1>2 DEF NoteFiles
  <2>2. PICK t \in Seq(U) : file = [kind |-> "document", users |-> U, segments |-> Segments(t)]
    BY <2>1 DEF Documents
  <2>3. file.kind = "document" /\ file.users = U /\ file.segments = Segments(t)
    BY <2>2
  <2>4. BufferOf(file) = t /\ \A i \in DOMAIN Segments(t) : Segments(t)[i].author \in U
    BY <2>3, ReadAsWritten
  <2>5. Readable(file)
    BY <2>3, <2>4 DEF Readable
  <2> DEFINE s == Loaded(file)
  <2>6. s = [linked |-> FALSE, idle |-> TRUE, users |-> U, text |-> t, modified |-> FALSE,
             clean |-> t, auto |-> FALSE, sync |-> "none", save |-> FALSE]
    <3>1. s = [NewSession EXCEPT !.users = U, !.text = t, !.clean = t]
      BY <2>3, <2>4 DEF Loaded
    <3> HIDE DEF s
    <3> QED BY <3>1 DEF NewSession
  <2>7. t \in Seq(People)
    BY SeqMonotonic
  <2>8. s \in Sessions /\ Signed(s)
    BY <2>6, <2>7 DEF Sessions, Signed
  <2>9. Holds(file, s)
    BY <2>3, <2>4, <2>5, <2>6 DEF Holds
  <2> QED BY <2>3, <2>5, <2>6, <2>8, <2>9
<1> QED BY <1>1, <1>2

\* Whatever comes of writing a note, the other files stay.
LEMMA WrittenFiles ==
  ASSUME NEW d, DiskType(d), NEW n \in Notes, NEW s \in Sessions, Signed(s),
         NEW outcome \in {"ok", "refused", "cut"}
  PROVE  /\ DiskType(Written(d, n, s, outcome))
         /\ \A m \in DOMAIN d : m # n => Written(d, n, s, outcome)[m] = d[m]
         /\ outcome = "ok" => Holds(Written(d, n, s, outcome)[n], s)
<1>1. SessionWrite(s) \in NoteFiles /\ Holds(SessionWrite(s), s) /\ Truncated \in NoteFiles
  BY WrittenHolds DEF NoteFiles
<1>2. d \in [Notes \cup {Folder} -> NoteFiles \cup {Directory}] /\ \A m \in Notes : d[m] \in NoteFiles
  BY DEF DiskType
<1>3. CASE outcome = "ok"
  <2>1. Written(d, n, s, outcome) = [d EXCEPT ![n] = SessionWrite(s)]
    BY <1>3 DEF Written
  <2> QED BY <1>1, <1>2, <2>1 DEF DiskType
<1>4. CASE outcome = "cut"
  <2>1. Written(d, n, s, outcome) = [d EXCEPT ![n] = Truncated]
    BY <1>4 DEF Written
  <2> QED BY <1>1, <1>2, <1>4, <2>1 DEF DiskType
<1>5. CASE outcome = "refused"
  <2>1. Written(d, n, s, outcome) = d
    BY <1>5 DEF Written
  <2> QED BY <1>5, <2>1
<1> QED BY <1>3, <1>4, <1>5

\* Folder is no note; and a write ends in one of three ways.
LEMMA NotesAreNotFolder ==
  ASSUME StorageAssumption
  PROVE  /\ Folder \notin Notes /\ InFolder \subseteq Notes
         /\ \A n : Outcomes(n) \subseteq {"ok", "refused", "cut"}
BY DEF StorageAssumption, Outcomes, Folder

------------------------------------------------------------------------------
(* Sessions that go *)

\* What is dropped keeps its users and its text.
LEMMA DroppedSession ==
  ASSUME NEW s \in Sessions, Signed(s)
  PROVE  /\ Dropped(s) \in Sessions /\ Signed(Dropped(s)) /\ ~Dropped(s).linked
         /\ \A file : Holds(file, Dropped(s)) <=> Holds(file, s)
<1>1. /\ Dropped(s) \in Sessions /\ ~Dropped(s).linked
      /\ Dropped(s).users = s.users /\ Dropped(s).text = s.text /\ Dropped(s).clean = s.clean
  BY DEF Dropped, Sessions
<1> QED BY <1>1 DEF Signed, Holds

\* When the daemon ends, what is not on disk is known to be damaged.
LEMMA EndedSafe ==
  ASSUME SessionType(session), nodes \subseteq Notes \cup {Folder}, NEW d, Ended(d, session),
         NEW kept, kept \subseteq nodes \ {Folder},
         \A n \in kept : Safe(n, d[n], session[n], hurt)
  PROVE  /\ SessionType(session') /\ \A n \in Notes : ~session'[n].linked
         /\ \A n \in kept : Safe(n, d[n], session'[n], hurt')
<1>1. /\ session \in [Notes -> Sessions] /\ \A n \in Notes : Signed(session[n])
      /\ session' = [n \in Notes |-> Dropped(session[n])]
      /\ hurt' = hurt \cup {n \in nodes \ {Folder} : session[n].linked /\ ~Holds(d[n], session[n])}
  BY DEF SessionType, Ended
<1>2. \A n \in Notes : /\ Dropped(session[n]) \in Sessions /\ Signed(Dropped(session[n]))
                       /\ ~Dropped(session[n]).linked
                       /\ Holds(d[n], Dropped(session[n])) <=> Holds(d[n], session[n])
  BY <1>1, DroppedSession
<1>3. SessionType(session')
  BY <1>1, <1>2 DEF SessionType
<1>4. ASSUME NEW n \in kept PROVE Safe(n, d[n], session'[n], hurt')
  <2>1. n \in Notes /\ n \in nodes \ {Folder}
    OBVIOUS
  <2>2. session'[n] = Dropped(session[n])
    BY <1>1, <2>1
  <2> QED BY <1>1, <1>2, <2>1, <2>2 DEF Safe
<1> QED BY <1>1, <1>2, <1>3, <1>4

\* The sessions stay as they are, or go.
SessionsStayOrGo == \A n \in Notes : session'[n] = session[n] \/ ~session'[n].linked

\* Sessions are dropped; if they are on disk or not needed any more, nothing is lost.
LEMMA DropSafe ==
  ASSUME StorageType, NEW d, NEW ns \in SUBSET Notes, Drop(d, ns),
         NEW kept, kept \subseteq nodes \ {Folder},
         \A n \in kept : Safe(n, d[n], session[n], hurt),
         \A n \in kept \cap ns : n \in hurt \/ Holds(d[n], session[n])
  PROVE  /\ SessionType(session') /\ copies' \in [Notes -> Copies]
         /\ \A n \in kept : Safe(n, d[n], session'[n], hurt')
         /\ \/ daemon' = [daemon EXCEPT !.state = "aborted"]
            \/ daemon' = daemon /\ copies' = copies /\ SessionsStayOrGo
<1>1. /\ session \in [Notes -> Sessions] /\ \A n \in Notes : Signed(session[n])
      /\ nodes \subseteq Notes \cup {Folder} /\ copies \in [Notes -> Copies]
  BY DEF StorageType, SessionType
<1>2. CASE /\ session' = [n \in Notes |-> IF n \in ns THEN Dropped(session[n]) ELSE session[n]]
           /\ UNCHANGED <<copies, daemon, hurt>>
  <2>1. \A n \in Notes : /\ Dropped(session[n]) \in Sessions /\ Signed(Dropped(session[n]))
                         /\ ~Dropped(session[n]).linked
                         /\ Holds(d[n], Dropped(session[n])) <=> Holds(d[n], session[n])
    BY <1>1, DroppedSession
  <2>2. SessionType(session') /\ SessionsStayOrGo
    BY <1>1, <1>2, <2>1 DEF SessionType, SessionsStayOrGo
  <2>3. ASSUME NEW n \in kept PROVE Safe(n, d[n], session'[n], hurt')
    <3>1. n \in Notes
      BY <1>1
    <3>2. CASE n \in ns
      <4>1. session'[n] = Dropped(session[n]) /\ (n \in hurt \/ Holds(d[n], session[n]))
        BY <1>2, <3>1, <3>2
      <4> QED BY <1>2, <2>1, <3>1, <4>1 DEF Safe
    <3>3. CASE n \notin ns
      <4>1. session'[n] = session[n] /\ Safe(n, d[n], session[n], hurt)
        BY <1>2, <3>1, <3>3
      <4> QED BY <1>2, <4>1
    <3> QED BY <3>2, <3>3
  <2> QED BY <1>1, <1>2, <2>2, <2>3
<1>3. CASE CopyAborts(d, ns)
  <2>1. PICK n \in ns, outcome \in SyncOutcomes : copies' = Copied(copies, n, session[n], outcome)
    BY <1>3 DEF CopyAborts
  <2>2. daemon' = [daemon EXCEPT !.state = "aborted"] /\ Ended(d, session)
    BY <1>3 DEF CopyAborts, Abort
  <2>3. copies' \in [Notes -> Copies]
    <3>1. [kind |-> "document", text |-> session[n].text] \in Copies
      BY <1>1 DEF Copies, Sessions
    <3> QED BY <1>1, <2>1, <3>1 DEF Copied
  <2>4. /\ SessionType(session')
        /\ \A m \in kept : Safe(m, d[m], session'[m], hurt')
    BY <1>1, <2>2, EndedSafe DEF SessionType
  <2> QED BY <2>2, <2>3, <2>4
<1> QED BY <1>2, <1>3 DEF Drop

------------------------------------------------------------------------------
(* Steps *)

\* What follows where sessions have stayed or gone, or the daemon has.
LEMMA StillPending ==
  ASSUME AutosavePending, CopyFollows, daemon' = daemon, copies' = copies,
         SessionsStayOrGo, nodes' \subseteq nodes
  PROVE  AutosavePending' /\ CopyFollows'
BY DEF AutosavePending, CopyFollows, SessionsStayOrGo, Linked, Up, Autosaving

\* Nothing is pending when the daemon is down or has just started.
LEMMA NothingPending ==
  ASSUME daemon'.state # "up" \/ \A n \in Notes : ~session'[n].linked
  PROVE  AutosavePending' /\ CopyFollows'
BY DEF AutosavePending, CopyFollows, Linked, Up

\* A step of one note, whose session is in memory then.
LEMMA NoteStep ==
  ASSUME StorageAssumption, StorageInv, NEW n \in Notes, NEW s \in Sessions, Signed(s), s.linked,
         session' = [session EXCEPT ![n] = s], DiskType(disk'), daemon' = daemon,
         nodes' \in {nodes, nodes \cup {n}}, hurt \ {n} \subseteq hurt',
         copies' \in [Notes -> Copies],
         \A m \in Notes \ {n} : disk'[m] = disk[m] /\ copies'[m] = copies[m],
         Autosaving => s.auto = s.modified,
         daemon.copying => s.sync # "none" \/ copies'[n] = [kind |-> "document", text |-> s.text]
  PROVE  StorageInv'
<1>1. /\ session \in [Notes -> Sessions] /\ \A m \in Notes : Signed(session[m])
      /\ nodes \subseteq Notes \cup {Folder} /\ AutosavePending /\ CopyFollows /\ NothingLost
  BY DEF StorageInv, StorageType, SessionType, StorageExact
<1>2. session'[n] = s /\ \A m \in Notes \ {n} : session'[m] = session[m]
  BY <1>1
<1>3. SessionType(session')
  BY <1>1, <1>2 DEF SessionType
<1>4. StorageType'
  BY <1>3 DEF StorageInv, StorageType
<1>5. NothingLost'
  <2>1. ASSUME NEW m \in nodes' \ {Folder}
        PROVE  session'[m].linked \/ m \in hurt' \/ Holds(disk'[m], session'[m])
    <3>1. CASE m = n
      BY <1>2, <3>1
    <3>2. CASE m # n
      <4>1. m \in nodes \ {Folder} /\ m \in Notes \ {n}
        BY <1>1, <3>2
      <4>2. session[m].linked \/ m \in hurt \/ Holds(disk[m], session[m])
        BY <1>1, <4>1 DEF NothingLost
      <4> QED BY <1>2, <4>1, <4>2
    <3> QED BY <3>1, <3>2
  <2> QED BY <2>1 DEF NothingLost
<1>6. AutosavePending'
  <2>1. ASSUME NEW m \in Notes, Linked(m)', Autosaving' PROVE session'[m].auto = session'[m].modified
    <3>1. CASE m = n
      BY <1>2, <2>1, <3>1 DEF Autosaving
    <3>2. CASE m # n
      BY <1>1, <1>2, <2>1, <3>2 DEF AutosavePending, Linked, Up, Autosaving
    <3> QED BY <3>1, <3>2
  <2> QED BY <2>1 DEF AutosavePending
<1>7. CopyFollows'
  <2>1. ASSUME NEW m \in Notes, Linked(m)', daemon'.copying
        PROVE  \/ session'[m].sync # "none"
               \/ copies'[m] = [kind |-> "document", text |-> session'[m].text]
    <3>1. CASE m = n
      BY <1>2, <2>1, <3>1
    <3>2. CASE m # n
      <4>1. m \in Notes \ {n} /\ session'[m] = session[m]
        BY <1>2, <3>2
      <4>2. Linked(m) /\ daemon.copying
        BY <1>1, <2>1, <4>1 DEF Linked, Up
      <4>3. session[m].sync # "none" \/ copies[m] = [kind |-> "document", text |-> session[m].text]
        BY <1>1, <4>2 DEF CopyFollows
      <4> QED BY <4>1, <4>3
    <3> QED BY <3>1, <3>2
  <2> QED BY <2>1 DEF CopyFollows
<1> QED BY <1>4, <1>5, <1>6, <1>7 DEF StorageInv, StorageExact

\* Notes that stay as safe as they were, after sessions were dropped.
LEMMA AfterDrop ==
  ASSUME StorageInv, DiskType(disk'), NEW ns \in SUBSET Notes, Drop(disk', ns),
         nodes' \subseteq nodes,
         \A n \in nodes' \ {Folder} : Safe(n, disk'[n], session[n], hurt),
         \A n \in (nodes' \ {Folder}) \cap ns : n \in hurt \/ Holds(disk'[n], session[n])
  PROVE  StorageInv'
<1>1. StorageType /\ AutosavePending /\ CopyFollows
  BY DEF StorageInv, StorageExact
<1> DEFINE kept == nodes' \ {Folder}
           d == disk'
<1>2. kept \subseteq nodes \ {Folder}
  OBVIOUS
<1>3. /\ \A n \in kept : Safe(n, d[n], session[n], hurt)
      /\ \A n \in kept \cap ns : n \in hurt \/ Holds(d[n], session[n])
      /\ Drop(d, ns)
  OBVIOUS
<1>4. /\ SessionType(session') /\ copies' \in [Notes -> Copies]
      /\ \A n \in kept : Safe(n, d[n], session'[n], hurt')
      /\ \/ daemon' = [daemon EXCEPT !.state = "aborted"]
         \/ daemon' = daemon /\ copies' = copies /\ SessionsStayOrGo
  <2> HIDE DEF kept, d
  <2> QED BY <1>1, <1>2, <1>3, DropSafe
<1>5. NothingLost'
  BY <1>4 DEF NothingLost, Safe
<1>6. StorageType'
  BY <1>1, <1>4 DEF StorageType
<1>7. AutosavePending' /\ CopyFollows'
  <2>1. CASE daemon' = [daemon EXCEPT !.state = "aborted"]
    <3>1. daemon'.state # "up"
      BY <1>1, <2>1 DEF StorageType
    <3> QED BY <3>1, NothingPending
  <2>2. CASE daemon' = daemon /\ copies' = copies /\ SessionsStayOrGo
    BY <1>1, <2>2, StillPending
  <2> QED BY <1>4, <2>1, <2>2
<1> QED BY <1>5, <1>6, <1>7 DEF StorageInv, StorageExact

------------------------------------------------------------------------------
(* Actions of one note *)

\* What the invariant says of a note.
LEMMA NoteFacts ==
  ASSUME StorageInv, NEW n \in Notes
  PROVE  /\ session \in [Notes -> Sessions] /\ session[n] \in Sessions /\ Signed(session[n])
         /\ DiskType(disk) /\ copies \in [Notes -> Copies] /\ daemon.interval \in Nat
         /\ session = [session EXCEPT ![n] = session[n]]
         /\ Linked(n) /\ Autosaving => session[n].auto = session[n].modified
         /\ Linked(n) /\ daemon.copying =>
              session[n].sync # "none" \/ copies[n] = [kind |-> "document", text |-> session[n].text]
<1>1. session \in [Notes -> Sessions] /\ \A m \in Notes : Signed(session[m])
  BY DEF StorageInv, StorageType, SessionType
<1>2. session = [session EXCEPT ![n] = session[n]]
  BY <1>1
<1> QED BY <1>1, <1>2 DEF StorageInv, StorageType, StorageExact, AutosavePending, CopyFollows

\* A session that comes into memory is copied, or is going to be.
LEMMA AddedSession ==
  ASSUME session \in [Notes -> Sessions], copies \in [Notes -> Copies], NEW n \in Notes,
         NEW s \in Sessions, Signed(s), s.linked, NEW outcome \in SyncOutcomes,
         AddSession(n, s, outcome)
  PROVE  \E x \in Sessions :
           /\ Signed(x) /\ x.linked /\ x.auto = s.auto /\ x.modified = s.modified
           /\ session' = [session EXCEPT ![n] = x]
           /\ copies' \in [Notes -> Copies] /\ \A m \in Notes \ {n} : copies'[m] = copies[m]
           /\ daemon.copying =>
                x.sync # "none" \/ copies'[n] = [kind |-> "document", text |-> x.text]
<1>1. CASE ~daemon.copying
  BY <1>1 DEF AddSession
<1>2. CASE daemon.copying
  <2> DEFINE x == SyncSaved(s, outcome)
  <2>1. /\ x \in Sessions /\ x.linked /\ x.auto = s.auto /\ x.modified = s.modified
        /\ x.text = s.text /\ x.users = s.users /\ x.clean = s.clean
        /\ outcome # "ok" => x.sync # "none"
    BY DEF SyncSaved, SyncOutcomes, Sessions
  <2>2. session' = [session EXCEPT ![n] = x] /\ copies' = Copied(copies, n, s, outcome)
    BY <1>2 DEF AddSession
  <2>3. Signed(x)
    BY <2>1 DEF Signed
  <2>4. [kind |-> "document", text |-> s.text] \in Copies
    BY DEF Copies, Sessions
  <2>5. /\ copies' \in [Notes -> Copies] /\ \A m \in Notes \ {n} : copies'[m] = copies[m]
        /\ outcome = "ok" => copies'[n] = [kind |-> "document", text |-> s.text]
    BY <2>2, <2>4 DEF Copied
  <2> HIDE DEF x
  <2> QED BY <2>1, <2>2, <2>3, <2>5
<1> QED BY <1>1, <1>2

\* A note is created: it is written, and its session is there at once.
LEMMA CreateNoteStep ==
  ASSUME StorageAssumption, StorageInv, NEW n \in Notes, CreateNote(n)
  PROVE  StorageInv'
<1>1. PICK outcome \in Outcomes(n), copied \in SyncOutcomes :
        /\ disk' = Written(disk, n, NewSession, outcome)
        /\ IF outcome = "ok"
           THEN /\ nodes' = nodes \cup {n}
                /\ AddSession(n, [NewSession EXCEPT !.linked = TRUE, !.idle = FALSE], copied)
                /\ hurt' = hurt \ {n}
           ELSE UNCHANGED <<nodes, session, copies, hurt>>
  BY DEF CreateNote
<1>2. daemon' = daemon /\ n \notin nodes
  BY DEF CreateNote
<1>3. outcome \in {"ok", "refused", "cut"} /\ Folder \notin Notes
  BY NotesAreNotFolder
<1>4. NewSession \in Sessions /\ Signed(NewSession)
  BY DEF NewSession, Sessions, Signed
<1>5. /\ session \in [Notes -> Sessions] /\ DiskType(disk) /\ copies \in [Notes -> Copies]
  BY NoteFacts
<1>6. /\ DiskType(disk') /\ \A m \in DOMAIN disk : m # n => disk'[m] = disk[m]
  BY <1>1, <1>3, <1>4, <1>5, WrittenFiles
<1>7. \A m \in Notes \ {n} : disk'[m] = disk[m]
  BY <1>5, <1>6 DEF DiskType
<1>8. CASE outcome = "ok"
  <2> DEFINE s == [NewSession EXCEPT !.linked = TRUE, !.idle = FALSE]
  <2>1. s \in Sessions /\ Signed(s) /\ s.linked /\ s.auto = s.modified
    <3>1. s = [linked |-> TRUE, idle |-> FALSE, users |-> {}, text |-> <<>>, modified |-> FALSE,
               clean |-> <<>>, auto |-> FALSE, sync |-> "none", save |-> FALSE]
      <4>1. s = [NewSession EXCEPT !.linked = TRUE, !.idle = FALSE]
        OBVIOUS
      <4> HIDE DEF s
      <4>2. NewSession = [linked |-> FALSE, idle |-> TRUE, users |-> {}, text |-> <<>>, modified |-> FALSE,
                          clean |-> <<>>, auto |-> FALSE, sync |-> "none", save |-> FALSE]
        BY DEF NewSession
      <4> QED BY <4>1, <4>2
    <3> HIDE DEF s
    <3>2. s \in Sessions
      BY <3>1 DEF Sessions
    <3>3. s.text = <<>> /\ s.clean = <<>> /\ s.linked /\ s.auto = FALSE /\ s.modified = FALSE
      BY <3>1
    <3>4. Signed(s)
      BY <3>3 DEF Signed
    <3>5. s.auto = s.modified
      BY <3>3
    <3> QED BY <3>2, <3>3, <3>4, <3>5
  <2>2. AddSession(n, s, copied)
    BY <1>1, <1>8
  <2>3. nodes' = nodes \cup {n} /\ hurt' = hurt \ {n}
    BY <1>1, <1>8
  <2> HIDE DEF s
  <2>4. PICK x \in Sessions :
           /\ Signed(x) /\ x.linked /\ x.auto = s.auto /\ x.modified = s.modified
           /\ session' = [session EXCEPT ![n] = x]
           /\ copies' \in [Notes -> Copies] /\ \A m \in Notes \ {n} : copies'[m] = copies[m]
           /\ daemon.copying =>
                x.sync # "none" \/ copies'[n] = [kind |-> "document", text |-> x.text]
    BY <1>5, <2>1, <2>2, AddedSession
  <2> QED BY <1>2, <1>6, <1>7, <2>1, <2>3, <2>4, NoteStep
<1>9. CASE outcome # "ok"
  <2>1. UNCHANGED <<nodes, session, copies, hurt>>
    BY <1>1, <1>9
  <2>2. StorageType'
    BY <1>2, <1>6, <2>1 DEF StorageInv, StorageType
  <2>3. NothingLost'
    <3>1. \A m \in nodes \ {Folder} : m \in Notes \ {n}
      BY <1>2 DEF StorageInv, StorageType
    <3> QED BY <1>7, <2>1, <3>1 DEF StorageInv, StorageExact, NothingLost
  <2>4. AutosavePending' /\ CopyFollows'
    BY <1>2, <2>1, StillPending DEF StorageInv, StorageExact, SessionsStayOrGo
  <2> QED BY <2>2, <2>3, <2>4 DEF StorageInv, StorageExact
<1> QED BY <1>8, <1>9

\* A session that is read is as it was written; one in memory is used again.
LEMMA SubscribeStep ==
  ASSUME StorageAssumption, StorageInv, NEW n \in Notes, Subscribe(n)
  PROVE  StorageInv'
<1>1. /\ UNCHANGED <<disk, nodes, daemon, hurt>> /\ Up /\ n \in nodes
  BY DEF Subscribe
<1>2. /\ session \in [Notes -> Sessions] /\ session[n] \in Sessions /\ Signed(session[n])
      /\ DiskType(disk) /\ copies \in [Notes -> Copies]
  BY NoteFacts
<1>3. CASE /\ session[n].linked /\ session[n].idle
           /\ session' = [session EXCEPT ![n].idle = FALSE, ![n].save = FALSE]
           /\ UNCHANGED copies
  <2> DEFINE s == [session[n] EXCEPT !.idle = FALSE, !.save = FALSE]
  <2>1. session' = [session EXCEPT ![n] = s]
    BY <1>3
  <2>2. /\ s \in Sessions /\ Signed(s) /\ s.linked /\ s.auto = session[n].auto
        /\ s.modified = session[n].modified /\ s.sync = session[n].sync /\ s.text = session[n].text
    BY <1>2, <1>3 DEF Sessions, Signed
  <2>3. Linked(n)
    BY <1>1, <1>3 DEF Linked
  <2> HIDE DEF s
  <2>4. /\ Autosaving => s.auto = s.modified
        /\ daemon.copying => s.sync # "none" \/ copies'[n] = [kind |-> "document", text |-> s.text]
    BY <1>3, <2>2, <2>3, NoteFacts
  <2> QED BY <1>1, <1>2, <1>3, <2>1, <2>2, <2>4, NoteStep
<1>4. CASE /\ Readable(disk[n])
           /\ \E copied \in SyncOutcomes :
                AddSession(n, [Loaded(disk[n]) EXCEPT !.linked = TRUE, !.idle = FALSE], copied)
  <2>1. PICK copied \in SyncOutcomes :
                AddSession(n, [Loaded(disk[n]) EXCEPT !.linked = TRUE, !.idle = FALSE], copied)
    BY <1>4
  <2> DEFINE l == Loaded(disk[n])
             s == [l EXCEPT !.linked = TRUE, !.idle = FALSE]
  <2>2. l \in Sessions /\ Signed(l) /\ l.auto = l.modified
    BY <1>2, <1>4, FileRead DEF DiskType
  <2> HIDE DEF l
  <2>3. s \in Sessions /\ Signed(s) /\ s.linked /\ s.auto = s.modified
    <3>1. /\ s \in Sessions /\ s.linked /\ s.auto = l.auto /\ s.modified = l.modified
          /\ s.users = l.users /\ s.text = l.text /\ s.clean = l.clean
      BY <2>2 DEF Sessions
    <3> HIDE DEF s
    <3>2. Signed(s)
      BY <2>2, <3>1 DEF Signed
    <3>3. s.auto = s.modified
      BY <2>2, <3>1
    <3> QED BY <3>1, <3>2, <3>3
  <2>4. AddSession(n, s, copied)
    BY <2>1 DEF l
  <2> HIDE DEF s
  <2>5. PICK x \in Sessions :
           /\ Signed(x) /\ x.linked /\ x.auto = s.auto /\ x.modified = s.modified
           /\ session' = [session EXCEPT ![n] = x]
           /\ copies' \in [Notes -> Copies] /\ \A m \in Notes \ {n} : copies'[m] = copies[m]
           /\ daemon.copying =>
                x.sync # "none" \/ copies'[n] = [kind |-> "document", text |-> x.text]
    BY <1>2, <2>3, <2>4, AddedSession
  <2> QED BY <1>1, <1>2, <2>3, <2>5, NoteStep
<1> QED BY <1>3, <1>4 DEF Subscribe

\* The session stays in memory for a while.
LEMMA UnsubscribeStep ==
  ASSUME StorageAssumption, StorageInv, NEW n \in Notes, Unsubscribe(n)
  PROVE  StorageInv'
<1>1. /\ UNCHANGED <<disk, copies, nodes, daemon, hurt>> /\ Linked(n) /\ session[n].linked
      /\ session' = [session EXCEPT ![n].idle = TRUE, ![n].save = TRUE]
  BY DEF Unsubscribe, Linked
<1>2. /\ session \in [Notes -> Sessions] /\ session[n] \in Sessions /\ Signed(session[n])
      /\ DiskType(disk) /\ copies \in [Notes -> Copies]
  BY NoteFacts
<1> DEFINE s == [session[n] EXCEPT !.idle = TRUE, !.save = TRUE]
<1>3. session' = [session EXCEPT ![n] = s]
  BY <1>1
<1>4. /\ s \in Sessions /\ Signed(s) /\ s.linked /\ s.auto = session[n].auto
      /\ s.modified = session[n].modified /\ s.sync = session[n].sync /\ s.text = session[n].text
  BY <1>1, <1>2 DEF Sessions, Signed
<1> HIDE DEF s
<1>5. /\ Autosaving => s.auto = s.modified
      /\ daemon.copying => s.sync # "none" \/ copies'[n] = [kind |-> "document", text |-> s.text]
  BY <1>1, <1>4, NoteFacts
<1> QED BY <1>1, <1>2, <1>3, <1>4, <1>5, NoteStep

\* The text is changed: the timeouts run.
LEMMA EditedStep ==
  ASSUME StorageAssumption, StorageInv, NEW n \in Notes, Linked(n),
         NEW s \in Sessions, Signed(s), s.linked, s.modified = session[n].modified,
         s.auto = session[n].auto, NEW modified \in BOOLEAN, Edited(n, s, modified)
  PROVE  StorageInv'
<1>1. /\ UNCHANGED <<disk, copies, nodes, daemon, hurt>>
      /\ session' = [session EXCEPT ![n] = SyncLater(SetModified(s, modified))]
  BY DEF Edited
<1>2. /\ DiskType(disk) /\ copies \in [Notes -> Copies]
      /\ Autosaving => s.auto = s.modified
  BY NoteFacts
<1> DEFINE m == SetModified(s, modified)
           x == SyncLater(m)
<1>3. /\ m \in Sessions /\ m.linked /\ m.users = s.users /\ m.text = s.text /\ m.clean = s.clean
      /\ Autosaving => m.auto = m.modified
  <2>1. CASE modified = s.modified
    <3>1. m = s
      BY <2>1 DEF SetModified
    <3> QED BY <1>2, <3>1
  <2>2. CASE modified # s.modified
    <3>1. m = [s EXCEPT !.modified = modified, !.auto = modified /\ Autosaving]
      BY <2>2 DEF SetModified
    <3>2. (modified /\ Autosaving) \in BOOLEAN
      OBVIOUS
    <3>3. /\ m.modified = modified /\ m.auto = (modified /\ Autosaving) /\ m.linked = s.linked
          /\ m.users = s.users /\ m.text = s.text /\ m.clean = s.clean
      BY <3>1 DEF Sessions
    <3>4. m \in Sessions
      <4> DEFINE auto == modified /\ Autosaving
      <4>1. m = [s EXCEPT !.modified = modified, !.auto = auto] /\ auto \in BOOLEAN
        BY <3>1
      <4> HIDE DEF auto, m
      <4> QED BY <4>1 DEF Sessions
    <3> QED BY <3>3, <3>4
  <2> QED BY <2>1, <2>2
<1> HIDE DEF m
<1>4. /\ x \in Sessions /\ x.linked /\ x.users = m.users /\ x.text = m.text /\ x.clean = m.clean
      /\ x.auto = m.auto /\ x.modified = m.modified
      /\ daemon.copying => x.sync # "none"
  BY <1>3 DEF SyncLater, Sessions
<1>5. Signed(x)
  BY <1>3, <1>4 DEF Signed
<1>6. session' = [session EXCEPT ![n] = x]
  BY <1>1 DEF m
<1> HIDE DEF x
<1> QED BY <1>1, <1>2, <1>3, <1>4, <1>5, <1>6, NoteStep

\* Users type, erase and undo.
LEMMA EditSteps ==
  ASSUME StorageAssumption, StorageInv, NEW n \in Notes,
         (\E u \in Editors[n] : InsertText(n, u)) \/ EraseText(n) \/ UndoText(n)
  PROVE  StorageInv'
<1>1. /\ session \in [Notes -> Sessions] /\ session[n] \in Sessions /\ Signed(session[n])
  BY NoteFacts
<1> DEFINE old == session[n]
<1>2. /\ old.users \in SUBSET People /\ old.text \in Seq(old.users) /\ old.clean \in Seq(old.users)
      /\ old.text \in Seq(People) /\ old.clean \in Seq(People)
  BY <1>1 DEF Sessions, Signed
<1>3. ASSUME NEW u \in Editors[n], InsertText(n, u) PROVE StorageInv'
  <2> DEFINE users == old.users \cup {u}
             s == [old EXCEPT !.users = @ \cup {u}, !.text = Append(@, u)]
  <2>1. Linked(n) /\ old.linked /\ Edited(n, s, TRUE)
    BY <1>3 DEF InsertText, Linked
  <2>2. u \in People
    BY DEF People
  <2>3. old.text \in Seq(users) /\ old.clean \in Seq(users)
    BY <1>2, SeqMonotonic
  <2>4. Append(old.text, u) \in Seq(users) /\ Append(old.text, u) \in Seq(People)
    BY <1>2, <2>2, <2>3
  <2>5. /\ s.users = users /\ s.text = Append(old.text, u) /\ s.clean = old.clean
        /\ s.linked /\ s.modified = old.modified /\ s.auto = old.auto
    BY <1>1, <2>1 DEF Sessions
  <2>6. s \in Sessions
    <3>1. s = [old EXCEPT !.users = users, !.text = Append(old.text, u)]
      OBVIOUS
    <3>2. users \in SUBSET People
      BY <1>2, <2>2
    <3> HIDE DEF s, users
    <3> QED BY <1>1, <2>4, <3>1, <3>2 DEF Sessions
  <2>7. Signed(s)
    BY <2>3, <2>4, <2>5 DEF Signed
  <2> HIDE DEF s
  <2> QED BY <2>1, <2>5, <2>6, <2>7, EditedStep
<1>4. CASE EraseText(n)
  <2> DEFINE s == [old EXCEPT !.text = Tail(@)]
  <2>1. Linked(n) /\ old.linked /\ Edited(n, s, TRUE) /\ old.text # <<>>
    BY <1>4 DEF EraseText, Linked
  <2>2. Tail(old.text) \in Seq(old.users) /\ Tail(old.text) \in Seq(People)
    <3> HIDE DEF old, s
    <3> QED BY <1>2, <2>1, HeadTailProperties
  <2>3. /\ s.users = old.users /\ s.text = Tail(old.text) /\ s.clean = old.clean
        /\ s.linked /\ s.modified = old.modified /\ s.auto = old.auto /\ s \in Sessions
    BY <1>1, <2>1, <2>2 DEF Sessions
  <2>4. Signed(s)
    BY <1>2, <2>2, <2>3 DEF Signed
  <2> HIDE DEF s
  <2> QED BY <2>1, <2>3, <2>4, EditedStep
<1>5. CASE UndoText(n)
  <2> DEFINE s == [old EXCEPT !.text = old.clean]
  <2>1. Linked(n) /\ old.linked /\ Edited(n, s, FALSE)
    BY <1>5 DEF UndoText, Linked
  <2>2. /\ s.users = old.users /\ s.text = old.clean /\ s.clean = old.clean
        /\ s.linked /\ s.modified = old.modified /\ s.auto = old.auto /\ s \in Sessions
    BY <1>1, <1>2, <2>1 DEF Sessions
  <2>3. Signed(s)
    BY <1>2, <2>2 DEF Signed
  <2> HIDE DEF s
  <2> QED BY <2>1, <2>2, <2>3, EditedStep
<1> QED BY <1>3, <1>4, <1>5

\* A client's request to save, the autosave, and the copy: the session stays in memory.
LEMMA SavingSteps ==
  ASSUME StorageAssumption, StorageInv, NEW n \in Notes,
         SaveSession(n) \/ AutosaveTimeout(n) \/ SyncTimeout(n)
  PROVE  StorageInv'
<1> DEFINE old == session[n]
<1>1. /\ session \in [Notes -> Sessions] /\ old \in Sessions /\ Signed(old)
      /\ session = [session EXCEPT ![n] = old]
      /\ DiskType(disk) /\ copies \in [Notes -> Copies]
  BY NoteFacts
<1>2. Linked(n) /\ old.linked /\ UNCHANGED <<nodes, daemon, hurt>>
  BY DEF SaveSession, AutosaveTimeout, SyncTimeout, Linked
<1>3. /\ Autosaving => old.auto = old.modified
      /\ daemon.copying => old.sync # "none" \/ copies[n] = [kind |-> "document", text |-> old.text]
  BY <1>2, NoteFacts
<1>4. ASSUME NEW outcome \in Outcomes(n), disk' = Written(disk, n, old, outcome)
      PROVE  DiskType(disk') /\ \A m \in Notes \ {n} : disk'[m] = disk[m]
  <2>1. outcome \in {"ok", "refused", "cut"}
    BY NotesAreNotFolder
  <2> HIDE DEF old
  <2>2. DiskType(disk') /\ \A m \in DOMAIN disk : m # n => disk'[m] = disk[m]
    BY <1>1, <1>4, <2>1, WrittenFiles
  <2> QED BY <1>1, <2>2 DEF DiskType
<1>5. CASE SaveSession(n)
  <2>1. UNCHANGED <<copies, session>> /\ \E outcome \in Outcomes(n) : disk' = Written(disk, n, old, outcome)
    BY <1>5 DEF SaveSession
  <2>2. session' = [session EXCEPT ![n] = old]
    BY <1>1, <2>1
  <2>3. DiskType(disk') /\ \A m \in Notes \ {n} : disk'[m] = disk[m]
    BY <1>4, <2>1
  <2> HIDE DEF old
  <2> QED BY <1>1, <1>2, <1>3, <2>1, <2>2, <2>3, NoteStep
<1>6. CASE AutosaveTimeout(n)
  <2>1. PICK outcome \in Outcomes(n) :
          /\ disk' = Written(disk, n, old, outcome)
          /\ session' = [session EXCEPT ![n] = AutosaveSaved(@, outcome)]
    BY <1>6 DEF AutosaveTimeout
  <2>2. copies' = copies /\ old.auto
    BY <1>6 DEF AutosaveTimeout
  <2> DEFINE s == AutosaveSaved(old, outcome)
  <2>3. session' = [session EXCEPT ![n] = s]
    BY <2>1
  <2>4. /\ s \in Sessions /\ s.linked /\ s.users = old.users /\ s.text = old.text /\ s.sync = old.sync
        /\ s.clean \in {old.text, old.clean}
        /\ outcome = "ok" => ~s.auto /\ ~s.modified
        /\ outcome # "ok" => s.auto /\ s.modified = old.modified
    <3> HIDE DEF old
    <3> QED BY <1>1, <1>2 DEF AutosaveSaved, Sessions
  <2>5. Autosaving => s.auto = s.modified
    <3>1. ASSUME Autosaving PROVE old.modified
      BY <1>3, <2>2, <3>1
    <3>2. s.auto \in BOOLEAN /\ s.modified \in BOOLEAN
      <4> HIDE DEF s
      <4> QED BY <2>4 DEF Sessions
    <3> HIDE DEF s, old
    <3> QED BY <2>4, <3>1, <3>2
  <2> HIDE DEF s, old
  <2>6. Signed(s)
    BY <1>1, <2>4 DEF Signed
  <2>7. DiskType(disk') /\ \A m \in Notes \ {n} : disk'[m] = disk[m]
    BY <1>4, <2>1
  <2>8. daemon.copying => s.sync # "none" \/ copies'[n] = [kind |-> "document", text |-> s.text]
    BY <1>3, <2>2, <2>4
  <2> QED BY <1>1, <1>2, <2>2, <2>3, <2>4, <2>5, <2>6, <2>7, <2>8, NoteStep
<1>7. CASE SyncTimeout(n)
  <2>1. PICK outcome \in SyncOutcomes :
          /\ copies' = Copied(copies, n, old, outcome)
          /\ session' = [session EXCEPT ![n] = SyncSaved(@, outcome)]
    BY <1>7 DEF SyncTimeout
  <2>2. disk' = disk
    BY <1>7 DEF SyncTimeout
  <2> DEFINE s == SyncSaved(old, outcome)
  <2>3. session' = [session EXCEPT ![n] = s]
    BY <2>1
  <2> HIDE DEF old
  <2>4. /\ s \in Sessions /\ s.linked /\ s.auto = old.auto /\ s.modified = old.modified
        /\ s.text = old.text /\ s.users = old.users /\ s.clean = old.clean
        /\ outcome # "ok" => s.sync # "none"
    BY <1>1, <1>2 DEF SyncSaved, SyncOutcomes, Sessions
  <2> HIDE DEF s
  <2>5. Signed(s)
    BY <1>1, <2>4 DEF Signed
  <2>6. [kind |-> "document", text |-> old.text] \in Copies
    BY <1>1 DEF Copies, Sessions
  <2>7. /\ copies' \in [Notes -> Copies] /\ \A m \in Notes \ {n} : copies'[m] = copies[m]
        /\ outcome = "ok" => copies'[n] = [kind |-> "document", text |-> old.text]
    BY <1>1, <2>1, <2>6 DEF Copied
  <2>8. daemon.copying => s.sync # "none" \/ copies'[n] = [kind |-> "document", text |-> s.text]
    BY <2>4, <2>7
  <2>9. Autosaving => s.auto = s.modified
    BY <1>3, <2>4
  <2> QED BY <1>1, <1>2, <2>2, <2>3, <2>4, <2>5, <2>7, <2>8, <2>9, NoteStep
<1> QED BY <1>5, <1>6, <1>7

\* An idle session is written and goes, or stays.
LEMMA SaveTimeoutStep ==
  ASSUME StorageAssumption, StorageInv, NEW n \in Notes, SaveTimeout(n)
  PROVE  StorageInv'
<1> DEFINE old == session[n]
<1>1. /\ session \in [Notes -> Sessions] /\ old \in Sessions /\ Signed(old)
      /\ DiskType(disk) /\ copies \in [Notes -> Copies]
  BY NoteFacts
<1>2. Linked(n) /\ old.linked /\ nodes' = nodes /\ nodes \subseteq Notes \cup {Folder} /\ NothingLost
  BY DEF SaveTimeout, Linked, StorageInv, StorageType, StorageExact
<1>3. PICK outcome \in Outcomes(n) :
        /\ disk' = Written(disk, n, old, outcome)
        /\ IF outcome = "ok" THEN Drop(disk', {n})
           ELSE session' = [session EXCEPT ![n].save = FALSE] /\ UNCHANGED <<copies, daemon, hurt>>
  BY DEF SaveTimeout
<1>4. outcome \in {"ok", "refused", "cut"}
  BY NotesAreNotFolder
<1>5. /\ DiskType(disk') /\ \A m \in DOMAIN disk : m # n => disk'[m] = disk[m]
      /\ outcome = "ok" => Holds(disk'[n], old)
  <2> HIDE DEF old
  <2> QED BY <1>1, <1>3, <1>4, WrittenFiles
<1>6. \A m \in Notes \ {n} : disk'[m] = disk[m]
  BY <1>1, <1>5 DEF DiskType
<1>7. CASE outcome = "ok"
  <2>1. Drop(disk', {n}) /\ {n} \in SUBSET Notes
    BY <1>3, <1>7
  <2>2. ASSUME NEW m \in nodes' \ {Folder} PROVE Safe(m, disk'[m], session[m], hurt)
    <3>1. CASE m = n
      BY <1>2, <3>1 DEF Safe
    <3>2. CASE m # n
      BY <1>2, <1>6, <3>2 DEF Safe, NothingLost
    <3> QED BY <3>1, <3>2
  <2>3. \A m \in (nodes' \ {Folder}) \cap {n} : m \in hurt \/ Holds(disk'[m], session[m])
    BY <1>5, <1>7
  <2> QED BY <1>2, <1>5, <2>1, <2>2, <2>3, AfterDrop
<1>8. CASE outcome # "ok"
  <2> DEFINE s == [old EXCEPT !.save = FALSE]
  <2>1. session' = [session EXCEPT ![n] = s] /\ UNCHANGED <<copies, daemon, hurt>>
    BY <1>3, <1>8
  <2>2. /\ Autosaving => old.auto = old.modified
        /\ daemon.copying => old.sync # "none" \/ copies[n] = [kind |-> "document", text |-> old.text]
    BY <1>2, NoteFacts
  <2> HIDE DEF old
  <2>3. /\ s \in Sessions /\ s.linked /\ s.auto = old.auto /\ s.modified = old.modified
        /\ s.text = old.text /\ s.users = old.users /\ s.clean = old.clean /\ s.sync = old.sync
    BY <1>1, <1>2 DEF Sessions
  <2> HIDE DEF s
  <2>4. Signed(s)
    BY <1>1, <2>3 DEF Signed
  <2>5. /\ Autosaving => s.auto = s.modified
        /\ daemon.copying => s.sync # "none" \/ copies'[n] = [kind |-> "document", text |-> s.text]
    BY <2>1, <2>2, <2>3
  <2> QED BY <1>1, <1>2, <1>5, <1>6, <2>1, <2>3, <2>4, <2>5, NoteStep
<1> QED BY <1>7, <1>8

\* A note that is removed goes with its session.
LEMMA RemoveNoteStep ==
  ASSUME StorageAssumption, StorageInv, NEW n \in Notes, RemoveNote(n)
  PROVE  StorageInv'
<1>1. /\ disk' = [disk EXCEPT ![n] = Nothing] /\ nodes' = nodes \ {n} /\ Drop(disk', {n})
      /\ {n} \in SUBSET Notes
  BY DEF RemoveNote
<1>2. DiskType(disk) /\ NothingLost /\ nodes \subseteq Notes \cup {Folder}
  BY DEF StorageInv, StorageType, StorageExact
<1>3. Nothing \in NoteFiles
  BY DEF NoteFiles
<1>4. DiskType(disk') /\ \A m \in Notes \ {n} : disk'[m] = disk[m]
  BY <1>1, <1>2, <1>3 DEF DiskType
<1>5. ASSUME NEW m \in nodes' \ {Folder} PROVE Safe(m, disk'[m], session[m], hurt)
  <2>1. m \in nodes \ {Folder} /\ m \in Notes \ {n}
    BY <1>1, <1>2
  <2> QED BY <1>2, <1>4, <2>1 DEF Safe, NothingLost
<1>6. \A m \in (nodes' \ {Folder}) \cap {n} : m \in hurt \/ Holds(disk'[m], session[m])
  BY <1>1
<1>7. nodes' \subseteq nodes
  BY <1>1
<1> QED BY <1>1, <1>4, <1>5, <1>6, <1>7, AfterDrop

\* A folder is removed with what is in it; or only some files are, and their notes are damaged
\* unless they are in memory.
LEMMA RemoveFolderStep ==
  ASSUME StorageAssumption, StorageInv, RemoveFolder
  PROVE  StorageInv'
<1>1. /\ DiskType(disk) /\ NothingLost /\ nodes \subseteq Notes \cup {Folder}
      /\ AutosavePending /\ CopyFollows /\ StorageType
  BY DEF StorageInv, StorageType, StorageExact
<1>2. /\ Nothing \in NoteFiles /\ InFolder \in SUBSET Notes /\ Folder \notin Notes
      /\ DOMAIN disk = Notes \cup {Folder}
  BY <1>1, NotesAreNotFolder DEF NoteFiles, DiskType
<1>3. CASE /\ disk' = [n \in DOMAIN disk |-> IF n \in InFolder \cup {Folder} THEN Nothing ELSE disk[n]]
           /\ nodes' = nodes \ (InFolder \cup {Folder}) /\ Drop(disk', InFolder)
  <2>1. DiskType(disk') /\ \A m \in Notes \ InFolder : disk'[m] = disk[m]
    BY <1>1, <1>2, <1>3 DEF DiskType
  <2>2. ASSUME NEW m \in nodes' \ {Folder} PROVE Safe(m, disk'[m], session[m], hurt)
    <3>1. m \in nodes \ {Folder} /\ m \in Notes \ InFolder
      BY <1>1, <1>3
    <3> QED BY <1>1, <2>1, <3>1 DEF Safe, NothingLost
  <2>3. \A m \in (nodes' \ {Folder}) \cap InFolder : m \in hurt \/ Holds(disk'[m], session[m])
    BY <1>3
  <2>4. nodes' \subseteq nodes
    BY <1>3
  <2> QED BY <1>2, <1>3, <2>1, <2>2, <2>3, <2>4, AfterDrop
<1>4. ASSUME NEW gone \in SUBSET {n \in InFolder : disk[n] # Nothing},
             disk' = [n \in DOMAIN disk |-> IF n \in gone THEN Nothing ELSE disk[n]],
             hurt' = hurt \cup {n \in gone : ~session[n].linked},
             UNCHANGED <<copies, nodes, session, daemon>>
      PROVE  StorageInv'
  <2>1. DiskType(disk') /\ \A m \in Notes \ gone : disk'[m] = disk[m]
    BY <1>1, <1>2, <1>4 DEF DiskType
  <2>2. StorageType'
    BY <1>1, <1>4, <2>1 DEF StorageType
  <2>3. ASSUME NEW m \in nodes' \ {Folder}
        PROVE  session'[m].linked \/ m \in hurt' \/ Holds(disk'[m], session'[m])
    <3>1. m \in Notes /\ m \in nodes \ {Folder}
      BY <1>1, <1>4
    <3>2. CASE m \in gone
      BY <1>4, <3>2
    <3>3. CASE m \notin gone
      BY <1>1, <1>4, <2>1, <3>1, <3>3 DEF NothingLost
    <3> QED BY <3>2, <3>3
  <2>4. AutosavePending' /\ CopyFollows'
    BY <1>1, <1>4, StillPending DEF SessionsStayOrGo
  <2> QED BY <2>2, <2>3, <2>4 DEF StorageInv, StorageExact, NothingLost
<1> QED BY <1>3, <1>4 DEF RemoveFolder

------------------------------------------------------------------------------
(* The daemon *)

\* A folder is no note.
LEMMA CreateFolderStep ==
  ASSUME StorageAssumption, StorageInv, CreateFolder
  PROVE  StorageInv'
<1>1. /\ disk' = [disk EXCEPT ![Folder] = Directory] /\ nodes' = nodes \cup {Folder}
      /\ UNCHANGED <<copies, session, daemon, hurt>> /\ Folder \notin Notes
  BY NotesAreNotFolder DEF CreateFolder
<1>2. DiskType(disk) /\ StorageType /\ NothingLost /\ AutosavePending /\ CopyFollows
  BY DEF StorageInv, StorageType, StorageExact
<1>3. DiskType(disk') /\ \A n \in Notes : disk'[n] = disk[n]
  BY <1>1, <1>2 DEF DiskType
<1>4. StorageType'
  BY <1>1, <1>2, <1>3 DEF StorageType
<1>5. NothingLost'
  <2>1. \A n \in nodes' \ {Folder} : n \in nodes \ {Folder} /\ n \in Notes
    BY <1>1, <1>2 DEF StorageType
  <2> QED BY <1>1, <1>2, <1>3, <2>1 DEF NothingLost
<1>6. AutosavePending' /\ CopyFollows'
  <2>1. \A n \in Notes : Linked(n)' <=> Linked(n)
    BY <1>1 DEF Linked, Up
  <2> QED BY <1>1, <1>2, <2>1 DEF AutosavePending, CopyFollows, Autosaving
<1> QED BY <1>4, <1>5, <1>6 DEF StorageInv, StorageExact

\* The autosave that is made anew takes up the modified sessions.
LEMMA ReloadStep ==
  ASSUME StorageAssumption, StorageInv, NEW i \in Intervals, Reload(i)
  PROVE  StorageInv'
<1>1. /\ daemon' = [daemon EXCEPT !.interval = i] /\ session' = AutosaveNew(i)
      /\ UNCHANGED <<disk, copies, nodes, hurt>> /\ i \in Nat
  BY DEF Reload, StorageAssumption
<1>2. /\ session \in [Notes -> Sessions] /\ \A n \in Notes : Signed(session[n])
      /\ StorageType /\ NothingLost /\ CopyFollows
  BY DEF StorageInv, StorageType, SessionType, StorageExact
<1> DEFINE s(n) == IF session[n].linked /\ i > 0 THEN AutosaveAdd(session[n])
                   ELSE [session[n] EXCEPT !.auto = FALSE]
<1>3. session' = [n \in Notes |-> s(n)]
  BY <1>1 DEF AutosaveNew
<1>4. ASSUME NEW n \in Notes
      PROVE  /\ s(n) \in Sessions /\ s(n).linked = session[n].linked
             /\ s(n).users = session[n].users /\ s(n).text = session[n].text
             /\ s(n).clean = session[n].clean /\ s(n).sync = session[n].sync
             /\ s(n).modified = session[n].modified
             /\ session[n].linked /\ i > 0 => s(n).auto = s(n).modified
  <2>1. session[n] \in Sessions
    BY <1>2
  <2> QED BY <2>1 DEF AutosaveAdd, Sessions
<1> HIDE DEF s
<1>5. SessionType(session')
  <2>1. \A n \in Notes : Signed(s(n))
    BY <1>2, <1>4 DEF Signed
  <2> QED BY <1>3, <1>4, <2>1 DEF SessionType
<1>6. StorageType'
  <2>1. daemon' \in [state : {"up", "stopped", "crashed", "aborted"}, interval : Nat, copying : BOOLEAN]
    BY <1>1, <1>2 DEF StorageType
  <2> QED BY <1>1, <1>2, <1>5, <2>1 DEF StorageType
<1>7. NothingLost'
  <2>1. \A n \in nodes \ {Folder} : n \in Notes
    BY <1>2 DEF StorageType
  <2> QED BY <1>1, <1>2, <1>3, <1>4, <2>1 DEF NothingLost, Holds
<1>8. daemon'.interval = i /\ daemon'.copying = daemon.copying /\ daemon'.state = daemon.state
  BY <1>1, <1>2 DEF StorageType
<1>9. AutosavePending'
  <2>1. ASSUME NEW n \in Notes, Linked(n)', Autosaving' PROVE session'[n].auto = session'[n].modified
    <3>1. session'[n] = s(n) /\ session'[n].linked /\ i > 0
      BY <1>3, <1>8, <2>1 DEF Linked, Autosaving
    <3>2. session[n].linked
      BY <1>4, <3>1
    <3> QED BY <1>4, <3>1, <3>2
  <2> QED BY <2>1 DEF AutosavePending
<1>10. CopyFollows'
  <2>1. ASSUME NEW n \in Notes, Linked(n)', daemon'.copying
        PROVE  \/ session'[n].sync # "none"
               \/ copies'[n] = [kind |-> "document", text |-> session'[n].text]
    <3>1. session'[n] = s(n)
      BY <1>3
    <3>2. Linked(n) /\ daemon.copying
      BY <1>1, <1>4, <1>8, <2>1, <3>1 DEF Linked, Up
    <3>3. session[n].sync # "none" \/ copies[n] = [kind |-> "document", text |-> session[n].text]
      BY <1>2, <3>2 DEF CopyFollows
    <3> QED BY <1>1, <1>4, <3>1, <3>3
  <2> QED BY <2>1 DEF CopyFollows
<1> QED BY <1>6, <1>7, <1>9, <1>10 DEF StorageInv, StorageExact

\* The daemon has ended.
LEMMA EndStep ==
  ASSUME StorageInv, DiskType(disk'), Ended(disk', session), nodes' = nodes,
         copies' \in [Notes -> Copies],
         \E state \in {"stopped", "crashed", "aborted"} : daemon' = [daemon EXCEPT !.state = state],
         \A n \in nodes \ {Folder} : Safe(n, disk'[n], session[n], hurt)
  PROVE  StorageInv'
<1>1. /\ SessionType(session) /\ nodes \subseteq Notes \cup {Folder} /\ StorageType
  BY DEF StorageInv, StorageType
<1> DEFINE d == disk'
           kept == nodes \ {Folder}
<1>2. Ended(d, session) /\ kept \subseteq nodes \ {Folder} /\ \A n \in kept : Safe(n, d[n], session[n], hurt)
  OBVIOUS
<1>3. /\ SessionType(session') /\ \A n \in Notes : ~session'[n].linked
      /\ \A n \in kept : Safe(n, d[n], session'[n], hurt')
  <2> HIDE DEF d, kept
  <2> QED BY <1>1, <1>2, EndedSafe
<1>4. daemon' \in [state : {"up", "stopped", "crashed", "aborted"}, interval : Nat, copying : BOOLEAN]
  BY <1>1 DEF StorageType
<1>5. StorageType'
  BY <1>1, <1>3, <1>4 DEF StorageType
<1>6. NothingLost'
  BY <1>3 DEF NothingLost, Safe
<1>7. AutosavePending' /\ CopyFollows'
  BY <1>3, NothingPending
<1> QED BY <1>5, <1>6, <1>7 DEF StorageInv, StorageExact

\* A clean stop writes what is in memory.
LEMMA StopStep ==
  ASSUME StorageAssumption, StorageInv, Stop
  PROVE  StorageInv'
<1> DEFINE ns == {n \in nodes \ {Folder} : session[n].linked}
<1>1. /\ DiskType(disk) /\ NothingLost /\ nodes \subseteq Notes \cup {Folder} /\ StorageType
      /\ SessionType(session) /\ ns \in SUBSET Notes /\ copies \in [Notes -> Copies]
  BY DEF StorageInv, StorageType, StorageExact
<1>2. nodes' = nodes
  BY DEF Stop
<1>3. CASE CopyAborts(disk, ns) /\ disk' = disk
  <2>1. Drop(disk', ns)
    BY <1>3 DEF Drop
  <2>2. \E n \in ns, outcome \in SyncOutcomes : copies' = Copied(copies, n, session[n], outcome)
    BY <1>3 DEF CopyAborts
  <2>3. daemon' = [daemon EXCEPT !.state = "aborted"] /\ Ended(disk', session)
    BY <1>3 DEF CopyAborts, Abort
  <2>4. copies' \in [Notes -> Copies]
    <3>1. PICK n \in ns, outcome \in SyncOutcomes : copies' = Copied(copies, n, session[n], outcome)
      BY <2>2
    <3>2. n \in Notes /\ session[n] \in Sessions
      BY <1>1 DEF SessionType
    <3>3. [kind |-> "document", text |-> session[n].text] \in Copies
      BY <3>2 DEF Copies, Sessions
    <3> QED BY <1>1, <3>1, <3>2, <3>3 DEF Copied
  <2>5. \A n \in nodes \ {Folder} : Safe(n, disk'[n], session[n], hurt)
    BY <1>1, <1>3 DEF Safe, NothingLost
  <2>6. DiskType(disk')
    BY <1>1, <1>3
  <2> HIDE DEF ns
  <2> QED BY <1>2, <2>3, <2>4, <2>5, <2>6, EndStep
<1>4. ASSUME NEW outcome \in [ns -> {"ok", "refused", "cut"}], disk' = Disposed(outcome),
             daemon' = [daemon EXCEPT !.state = "stopped"], Ended(disk', session), copies' = copies
      PROVE  StorageInv'
  <2>1. /\ DOMAIN disk = Notes \cup {Folder} /\ Folder \notin ns /\ DOMAIN outcome = ns
    BY <1>1 DEF DiskType
  <2>2. disk' = [n \in Notes \cup {Folder} |->
                   IF n \in ns THEN Written(disk, n, session[n], outcome[n])[n] ELSE disk[n]]
    BY <1>4, <2>1 DEF Disposed
  <2>3. ASSUME NEW n \in ns PROVE Written(disk, n, session[n], outcome[n])[n] \in NoteFiles
    <3>1. n \in Notes /\ session[n] \in Sessions /\ Signed(session[n]) /\ outcome[n] \in {"ok", "refused", "cut"}
      BY <1>1, <1>4 DEF SessionType
    <3>2. DiskType(Written(disk, n, session[n], outcome[n]))
      <4> HIDE DEF ns
      <4> QED BY <1>1, <3>1, WrittenFiles
    <3> QED BY <3>1, <3>2 DEF DiskType
  <2>4. DiskType(disk')
    BY <1>1, <2>1, <2>2, <2>3 DEF DiskType
  <2>5. ASSUME NEW n \in nodes \ {Folder} PROVE Safe(n, disk'[n], session[n], hurt)
    <3>1. CASE session[n].linked
      BY <3>1 DEF Safe
    <3>2. CASE ~session[n].linked
      <4>1. disk'[n] = disk[n]
        BY <1>1, <2>2, <3>2
      <4> QED BY <1>1, <3>2, <4>1 DEF Safe, NothingLost
    <3> QED BY <3>1, <3>2
  <2> HIDE DEF ns
  <2> QED BY <1>1, <1>2, <1>4, <2>4, <2>5, EndStep
<1> QED BY <1>3, <1>4 DEF Stop

\* A crash cuts files of sessions that are in memory.
LEMMA CrashStep ==
  ASSUME StorageAssumption, StorageInv, Crash
  PROVE  StorageInv'
<1>1. PICK cut \in SUBSET {n \in nodes \ {Folder} : session[n].linked} :
        disk' = [n \in DOMAIN disk |-> IF n \in cut THEN Truncated ELSE disk[n]]
  BY DEF Crash
<1>2. /\ daemon' = [daemon EXCEPT !.state = "crashed"] /\ Ended(disk', session)
      /\ UNCHANGED <<copies, nodes>>
  BY DEF Crash
<1>3. /\ DiskType(disk) /\ NothingLost /\ nodes \subseteq Notes \cup {Folder}
      /\ copies \in [Notes -> Copies] /\ Truncated \in NoteFiles
  BY DEF StorageInv, StorageType, StorageExact, NoteFiles
<1>4. DiskType(disk')
  BY <1>1, <1>3 DEF DiskType
<1>5. ASSUME NEW n \in nodes \ {Folder} PROVE Safe(n, disk'[n], session[n], hurt)
  <2>1. CASE session[n].linked
    BY <2>1 DEF Safe
  <2>2. CASE ~session[n].linked
    <3>1. disk'[n] = disk[n]
      BY <1>1, <1>3, <2>2 DEF DiskType
    <3> QED BY <1>3, <2>2, <3>1 DEF Safe, NothingLost
  <2> QED BY <2>1, <2>2
<1> QED BY <1>2, <1>3, <1>4, <1>5, EndStep

\* What is found is read, or is cut.
LEMMA StartStep ==
  ASSUME StorageAssumption, StorageInv, Start
  PROVE  StorageInv'
<1>1. /\ daemon' = [daemon EXCEPT !.state = "up"] /\ nodes' = ReadSubdirectory(disk)
      /\ session' = [n \in Notes |-> IF Readable(disk[n]) THEN Loaded(disk[n]) ELSE NewSession]
      /\ hurt' = {n \in Notes : disk[n].kind = "cut"} /\ UNCHANGED <<disk, copies>>
  BY DEF Start
<1>2. StorageType /\ DiskType(disk)
  BY DEF StorageInv, StorageType
<1>3. NewSession \in Sessions /\ Signed(NewSession) /\ ~NewSession.linked
  BY DEF NewSession, Sessions, Signed
<1>4. ASSUME NEW n \in Notes
      PROVE  /\ session'[n] \in Sessions /\ Signed(session'[n]) /\ ~session'[n].linked
             /\ disk[n] # Nothing => n \in hurt' \/ Holds(disk'[n], session'[n])
  <2>1. disk[n] \in NoteFiles
    BY <1>2 DEF DiskType
  <2>2. CASE Readable(disk[n])
    BY <1>1, <2>1, <2>2, FileRead
  <2>3. CASE ~Readable(disk[n])
    <3>1. disk[n] \in {Nothing, Truncated} /\ session'[n] = NewSession
      BY <1>1, <2>1, <2>3, FileRead
    <3>2. Truncated.kind = "cut"
      BY DEF Truncated, Nothing
    <3> QED BY <1>1, <1>3, <3>1, <3>2
  <2> QED BY <2>2, <2>3
<1>5. SessionType(session')
  <2>1. \A n \in Notes : /\ (IF Readable(disk[n]) THEN Loaded(disk[n]) ELSE NewSession) \in Sessions
    BY <1>1, <1>4
  <2> QED BY <1>1, <1>4, <2>1 DEF SessionType
<1>6. nodes' \subseteq Notes \cup {Folder} /\ \A n \in nodes' : disk[n] # Nothing
  BY <1>1, <1>2 DEF ReadSubdirectory, DiskType
<1>7. StorageType'
  <2>1. daemon' \in [state : {"up", "stopped", "crashed", "aborted"}, interval : Nat, copying : BOOLEAN]
    BY <1>1, <1>2 DEF StorageType
  <2> QED BY <1>1, <1>2, <1>5, <1>6, <2>1 DEF StorageType
<1>8. NothingLost'
  BY <1>4, <1>6 DEF NothingLost
<1>9. AutosavePending' /\ CopyFollows'
  BY <1>4, NothingPending
<1> QED BY <1>7, <1>8, <1>9 DEF StorageInv, StorageExact

\* At first there is nothing.
LEMMA StorageInitInv ==
  ASSUME StorageAssumption, StorageInit
  PROVE  StorageInv
<1>1. NewSession \in Sessions /\ Signed(NewSession) /\ ~NewSession.linked
  BY DEF NewSession, Sessions, Signed
<1>2. Nothing \in NoteFiles /\ [kind |-> "none", text |-> <<>>] \in Copies
  BY DEF NoteFiles, Copies
<1>3. DiskType(disk) /\ SessionType(session) /\ copies \in [Notes -> Copies] /\ nodes = {}
  BY <1>1, <1>2 DEF StorageInit, DiskType, SessionType
<1>4. daemon \in [state : {"up", "stopped", "crashed", "aborted"}, interval : Nat, copying : BOOLEAN]
  BY DEF StorageInit, StorageAssumption
<1>5. StorageType
  BY <1>3, <1>4 DEF StorageType
<1>6. StorageExact
  BY <1>3 DEF StorageExact, NothingLost, AutosavePending, CopyFollows, Linked
<1> QED BY <1>5, <1>6 DEF StorageInv

\* What users have typed survives: a note that is not in memory reads from its file as it was
\* when it was dropped, unless a crash, a write that failed at the end, or a removal that was
\* not completed took it; what is modified is going to be saved, and copied.  This is for any
\* notes, users, numbers of edits and faults.
THEOREM StorageExactAlways ==
  ASSUME StorageAssumption
  PROVE  StorageSpec => []StorageExact
<1>1. StorageInit => StorageInv
  BY StorageInitInv
<1>2. StorageInv /\ [StorageNext]_storage => StorageInv'
  <2> SUFFICES ASSUME StorageInv, [StorageNext]_storage PROVE StorageInv'
    OBVIOUS
  <2>1. CASE UNCHANGED storage
    BY <2>1 DEF storage, StorageInv, StorageType, StorageExact, NothingLost, AutosavePending,
                CopyFollows, Linked, Up, Autosaving
  <2>2. CASE StorageNext
    <3>1. CASE CreateFolder \/ RemoveFolder \/ Stop \/ Crash \/ Start
      BY <3>1, CreateFolderStep, RemoveFolderStep, StopStep, CrashStep, StartStep
    <3>2. CASE \E i \in Intervals : Reload(i)
      BY <3>2, ReloadStep
    <3>3. ASSUME NEW n \in Notes,
                 \/ CreateNote(n) \/ Subscribe(n) \/ Unsubscribe(n) \/ EraseText(n) \/ UndoText(n)
                 \/ SaveSession(n) \/ AutosaveTimeout(n) \/ SyncTimeout(n) \/ SaveTimeout(n)
                 \/ RemoveNote(n) \/ \E u \in Editors[n] : InsertText(n, u)
          PROVE  StorageInv'
      <4>1. CASE CreateNote(n)
        BY <4>1, CreateNoteStep
      <4>2. CASE Subscribe(n)
        BY <4>2, SubscribeStep
      <4>3. CASE Unsubscribe(n)
        BY <4>3, UnsubscribeStep
      <4>4. CASE EraseText(n) \/ UndoText(n) \/ \E u \in Editors[n] : InsertText(n, u)
        BY <4>4, EditSteps
      <4>5. CASE SaveSession(n) \/ AutosaveTimeout(n) \/ SyncTimeout(n)
        BY <4>5, SavingSteps
      <4>6. CASE SaveTimeout(n)
        BY <4>6, SaveTimeoutStep
      <4>7. CASE RemoveNote(n)
        BY <4>7, RemoveNoteStep
      <4> QED BY <3>3, <4>1, <4>2, <4>3, <4>4, <4>5, <4>6, <4>7
    <3> QED BY <2>2, <3>1, <3>2, <3>3 DEF StorageNext
  <2> QED BY <2>1, <2>2
<1>3. StorageInv => StorageExact
  BY DEF StorageInv
<1> QED BY <1>1, <1>2, <1>3, PTL DEF StorageSpec

------------------------------------------------------------------------------
(* Servers: what there is *)

Ids == Nat \ {0}
Announcements == [port : Nat, group : {"none", "registering", "established"}, failed : BOOLEAN]
Catalogs == UNION {[D -> Announcements] : D \in {D \in SUBSET Ids : IsFiniteSet(D)}}
Entries == [in : BOOLEAN, held : BOOLEAN, items : Seq(Nat)]
Listeners == [status : {"CLOSED", "BOUND", "OPEN"}, port : Nat]
Worlds == [tcp : [Servers -> Listeners], xmpp : [Servers -> {"none", "CLOSED", "OPEN"}],
           pool : [Servers -> Entries], published : Catalogs]

\* No two servers have an item in common, and nothing but items is published.
Apart(w) ==
  /\ \A s, t \in Servers : s # t => Items(w.pool[s]) \cap Items(w.pool[t]) = {}
  /\ DOMAIN w.published = UNION {Items(w.pool[s]) : s \in Servers}

Announced(p) ==
  /\ publisher = "running" => \A i \in DOMAIN p : p[i].group # "none" \/ p[i].failed
  /\ publisher \in {"connecting", "disconnected"} => \A i \in DOMAIN p : p[i].group = "none"

\* The items of a server are at its port.
AtPort(w, s) ==
  \A i \in Items(w.pool[s]) : w.published[i].port = w.tcp[s].port /\ w.tcp[s].port # 0

\* What is known of a server, whose status may have changed without notice.
Kept(w, s) ==
  LET entry == w.pool[s]
  IN  /\ Items(entry) = {} \/ (entry.in /\ w.xmpp[s] = "OPEN")
      /\ entry.in /\ w.xmpp[s] = "OPEN" =>
           0 \notin ToSet(entry.items) /\ IsInjective(entry.items) /\ AtPort(w, s)
      /\ (entry.in => entry.held) /\ (entry.held => w.xmpp[s] # "none")
      /\ w.tcp[s].status # "CLOSED" => w.tcp[s].port # 0
Matching(w, s) == w.xmpp[s] \in {"none", XmppStatus(w.tcp[s].status)}

InOrder(w) ==
  /\ w \in Worlds /\ Apart(w) /\ Announced(w.published)
  /\ \A s \in Servers : Kept(w, s) /\ Matching(w, s)
\* In the middle of a call at s.
AlmostInOrder(w, s) ==
  /\ w \in Worlds /\ Apart(w) /\ Announced(w.published)
  /\ \A t \in Servers : Kept(w, t) /\ (t # s => Matching(w, t))

\* While the pool publishes s.
Filling(w, s) ==
  /\ w \in Worlds /\ Apart(w) /\ Announced(w.published)
  /\ \A t \in Servers \ {s} : Kept(w, t) /\ Matching(w, t)
  /\ w.pool[s].in /\ w.pool[s].held /\ w.xmpp[s] = "OPEN"
  /\ w.tcp[s].status = "OPEN" /\ w.tcp[s].port # 0 /\ AtPort(w, s)
  /\ \A a, b \in DOMAIN w.pool[s].items :
       w.pool[s].items[a] = w.pool[s].items[b] /\ w.pool[s].items[a] # 0 => a = b

\* What a catalog is.
LEMMA CatalogIs ==
  ASSUME NEW p
  PROVE  p \in Catalogs <=> /\ p \in [DOMAIN p -> Announcements]
                            /\ DOMAIN p \subseteq Ids /\ IsFiniteSet(DOMAIN p)
<1>1. ASSUME p \in Catalogs
      PROVE  p \in [DOMAIN p -> Announcements] /\ DOMAIN p \subseteq Ids /\ IsFiniteSet(DOMAIN p)
  <2>1. PICK D \in SUBSET Ids : IsFiniteSet(D) /\ p \in [D -> Announcements]
    BY <1>1 DEF Catalogs
  <2>2. DOMAIN p = D
    BY <2>1
  <2> QED BY <2>1, <2>2
<1>2. ASSUME p \in [DOMAIN p -> Announcements], DOMAIN p \subseteq Ids, IsFiniteSet(DOMAIN p)
      PROVE  p \in Catalogs
  <2> DEFINE D == DOMAIN p
  <2>1. D \in {C \in SUBSET Ids : IsFiniteSet(C)}
    BY <1>2
  <2>2. p \in [D -> Announcements]
    BY <1>2
  <2> QED BY <2>1, <2>2 DEF Catalogs
<1> QED BY <1>1, <1>2

\* The items of an entry.
LEMMA ItemsAre ==
  ASSUME NEW e \in Entries
  PROVE  /\ DOMAIN e.items = 1 .. Len(e.items) /\ e.items \in [DOMAIN e.items -> Nat]
         /\ Items(e) \subseteq Ids
         /\ \A i : i \in Items(e) <=> i # 0 /\ \E k \in DOMAIN e.items : e.items[k] = i
         /\ 0 \in ToSet(e.items) <=> \E k \in DOMAIN e.items : e.items[k] = 0
<1>1. e.items \in Seq(Nat)
  BY DEF Entries
<1>2. /\ DOMAIN e.items = 1 .. Len(e.items) /\ e.items \in [1 .. Len(e.items) -> Nat]
      /\ \A k \in DOMAIN e.items : e.items[k] \in Nat
  BY <1>1
<1>3. \A i : i \in ToSet(e.items) <=> \E k \in DOMAIN e.items : e.items[k] = i
  BY DEF ToSet
<1> QED BY <1>2, <1>3 DEF Items, Ids

\* A new item is none that is there.
LEMMA NextItemIsNew ==
  ASSUME NEW w \in Worlds
  PROVE  NextItem(w) \in Ids /\ NextItem(w) \notin DOMAIN w.published
<1> DEFINE D == DOMAIN w.published
           N == Cardinality(D)
           Free == {i \in 1 .. 1 + N : i \notin D}
<1>1. w.published \in Catalogs
  BY DEF Worlds
<1>2. D \subseteq Ids /\ IsFiniteSet(D)
  BY <1>1, CatalogIs
<1>3. N \in Nat
  BY <1>2, FS_CardinalityType
<1>4. Free # {}
  <2>1. SUFFICES ASSUME 1 .. 1 + N \subseteq D PROVE FALSE
    OBVIOUS
  <2>2. Cardinality(1 .. 1 + N) <= N
    BY <1>2, <2>1, FS_Subset
  <2>3. Cardinality(1 .. 1 + N) = 1 + N
    <3>1. 1 \in Int /\ 1 + N \in Int /\ ~(1 > 1 + N) /\ (1 + N) - 1 + 1 = 1 + N
      BY <1>3
    <3> QED BY <3>1, FS_Interval
  <2> QED BY <1>3, <2>2, <2>3
<1>5. Free \subseteq Nat
  BY <1>3
<1>6. \E x \in Free : \A y \in Free : x <= y
  <2> HIDE DEF Free
  <2> QED BY <1>4, <1>5, LeastNumber
<1>7. NextItem(w) = CHOOSE x \in Free : \A y \in Free : x <= y
  BY DEF NextItem, Min
<1>8. NextItem(w) \in Free
  <2> HIDE DEF Free
  <2> QED BY <1>6, <1>7
<1>9. NextItem(w) \in 1 .. 1 + N /\ NextItem(w) \notin D
  BY <1>8
<1> QED BY <1>3, <1>9 DEF Ids

------------------------------------------------------------------------------
(* The pool *)

\* A new service: it is announced as far as the daemon is there.
LEMMA PublishedIs ==
  ASSUME NEW w \in Worlds, Announced(w.published), NEW port \in Nat
  PROVE  LET p == Published(w, port)
             i == NextItem(w)
         IN  /\ p \in Catalogs /\ Announced(p)
             /\ DOMAIN p = DOMAIN w.published \cup {i}
             /\ p[i].port = port /\ \A j \in DOMAIN w.published : p[j] = w.published[j]
<1> DEFINE p == Published(w, port)
           i == NextItem(w)
           item == [port |-> port, group |-> "none", failed |-> FALSE]
           given == IF publisher = "running" THEN PublishItem(item) ELSE item
<1>1. p = [j \in DOMAIN w.published \cup {i} |->
             IF j \in DOMAIN w.published THEN w.published[j] ELSE given]
  BY DEF Published
<1>2. i \in Ids /\ i \notin DOMAIN w.published
  BY NextItemIsNew
<1>3. /\ given \in Announcements /\ given.port = port
      /\ publisher = "running" => given.group # "none"
      /\ publisher # "running" => given.group = "none"
  BY DEF Announcements, PublishItem
<1>4. /\ w.published \in [DOMAIN w.published -> Announcements]
      /\ DOMAIN w.published \subseteq Ids /\ IsFiniteSet(DOMAIN w.published)
  <2>1. w.published \in Catalogs
    BY DEF Worlds
  <2> QED BY <2>1, CatalogIs
<1>5. IsFiniteSet(DOMAIN w.published \cup {i})
  BY <1>4, FS_AddElement
<1> HIDE DEF i, given, p
<1>6. /\ DOMAIN p = DOMAIN w.published \cup {i} /\ p[i] = given
      /\ \A j \in DOMAIN w.published : p[j] = w.published[j]
  BY <1>1, <1>2
<1>7. p \in [DOMAIN p -> Announcements]
  BY <1>1, <1>3, <1>4
<1>8. p \in Catalogs
  BY <1>2, <1>4, <1>5, <1>6, <1>7, CatalogIs
<1>9. Announced(p)
  BY <1>3, <1>6 DEF Announced
<1> QED BY <1>3, <1>6, <1>8, <1>9 DEF p, i

\* One more publisher has an item of the server.
LEMMA PublishWithFills ==
  ASSUME NEW s \in Servers, NEW w, Filling(w, s), NEW k \in DOMAIN w.pool[s].items
  PROVE  LET v == PublishWith(w, s, k)
         IN  /\ Filling(v, s) /\ DOMAIN v.pool[s].items = DOMAIN w.pool[s].items
             /\ v.pool[s].items[k] # 0
             /\ \A j \in DOMAIN w.pool[s].items :
                  w.pool[s].items[j] # 0 => v.pool[s].items[j] # 0
<1>1. CASE w.pool[s].items[k] # 0
  BY <1>1 DEF PublishWith
<1>2. CASE w.pool[s].items[k] = 0
  <2> DEFINE port == w.tcp[s].port
             i == NextItem(w)
             p == Published(w, port)
             v == PublishWith(w, s, k)
             old == w.pool[s]
             new == v.pool[s]
  <2>1. w \in Worlds /\ Apart(w) /\ Announced(w.published)
    BY DEF Filling
  <2>2. /\ port \in Nat /\ old \in Entries /\ old.items \in Seq(Nat)
        /\ w.pool \in [Servers -> Entries]
    BY <2>1 DEF Worlds, Listeners, Entries
  <2>3. i \in Ids /\ i \notin DOMAIN w.published
    BY <2>1, NextItemIsNew
  <2>4. /\ p \in Catalogs /\ Announced(p)
        /\ DOMAIN p = DOMAIN w.published \cup {i}
        /\ p[i].port = port /\ \A j \in DOMAIN w.published : p[j] = w.published[j]
    BY <2>1, <2>2, PublishedIs
  <2>5. v = [w EXCEPT !.published = p, !.pool[s].items[k] = i]
    BY <1>2 DEF PublishWith
  <2> HIDE DEF v, p, i
  <2>6. /\ v.tcp = w.tcp /\ v.xmpp = w.xmpp /\ v.published = p
        /\ v.pool = [w.pool EXCEPT ![s] = [w.pool[s] EXCEPT !.items = [w.pool[s].items EXCEPT ![k] = i]]]
    BY <2>1, <2>5 DEF Worlds
  <2>7. new = [old EXCEPT !.items = [old.items EXCEPT ![k] = i]]
    BY <2>2, <2>6
  <2>8. \A t \in Servers \ {s} : v.pool[t] = w.pool[t]
    BY <2>2, <2>6
  <2>9. /\ new.in = old.in /\ new.held = old.held /\ new.items = [old.items EXCEPT ![k] = i]
        /\ new.items \in Seq(Nat) /\ new \in Entries
    <3>1. i \in Nat
      BY <2>3 DEF Ids
    <3>2. [old.items EXCEPT ![k] = i] \in Seq(Nat)
      BY <2>2, <3>1
    <3>3. /\ new.in = old.in /\ new.held = old.held /\ new.items = [old.items EXCEPT ![k] = i]
          /\ new = [in |-> old.in, held |-> old.held, items |-> new.items]
      BY <2>2, <2>7 DEF Entries
    <3> QED BY <2>2, <3>2, <3>3 DEF Entries
  <2>10. /\ DOMAIN new.items = DOMAIN old.items /\ new.items[k] = i
         /\ \A j \in DOMAIN old.items \ {k} : new.items[j] = old.items[j]
    BY <2>2, <2>9
  <2>11. Items(new) = Items(old) \cup {i}
    <3> HIDE DEF old, new
    <3>1. \A j : j \in Items(new) <=> j # 0 /\ \E n \in DOMAIN new.items : new.items[n] = j
      BY <2>9, ItemsAre
    <3>2. \A j : j \in Items(old) <=> j # 0 /\ \E n \in DOMAIN old.items : old.items[n] = j
      BY <2>2, ItemsAre
    <3>3. k \in DOMAIN old.items /\ old.items[k] = 0 /\ i # 0
      BY <1>2, <2>3 DEF old, Ids
    <3>4. ASSUME NEW j PROVE j \in Items(new) <=> j \in Items(old) \/ j = i
      BY <2>10, <3>1, <3>2, <3>3
    <3> QED BY <3>4
  <2>12. v \in Worlds
    <3>1. v.pool \in [Servers -> Entries]
      BY <2>2, <2>6, <2>9
    <3>2. v = [tcp |-> w.tcp, xmpp |-> w.xmpp, pool |-> v.pool, published |-> p]
      BY <2>1, <2>5 DEF Worlds
    <3> QED BY <2>1, <2>4, <3>1, <3>2 DEF Worlds
  <2>13. \A t \in Servers : Items(w.pool[t]) \subseteq DOMAIN w.published
    BY <2>1 DEF Apart
  <2>14. Apart(v)
    <3>1. ASSUME NEW a \in Servers, NEW b \in Servers, a # b
          PROVE  Items(v.pool[a]) \cap Items(v.pool[b]) = {}
      <4>1. Items(w.pool[a]) \cap Items(w.pool[b]) = {}
        BY <2>1, <3>1 DEF Apart
      <4>2. CASE a = s
        BY <2>3, <2>8, <2>11, <2>13, <3>1, <4>1, <4>2
      <4>3. CASE b = s
        BY <2>3, <2>8, <2>11, <2>13, <3>1, <4>1, <4>3
      <4>4. CASE a # s /\ b # s
        BY <2>8, <4>1, <4>4
      <4> QED BY <4>2, <4>3, <4>4
    <3>2. DOMAIN v.published = UNION {Items(v.pool[t]) : t \in Servers}
      <4>1. DOMAIN w.published = UNION {Items(w.pool[t]) : t \in Servers}
        BY <2>1 DEF Apart
      <4>2. \A j : (\E t \in Servers : j \in Items(v.pool[t]))
                     <=> j = i \/ \E t \in Servers : j \in Items(w.pool[t])
        BY <2>8, <2>11
      <4>3. \A j : j \in DOMAIN v.published <=> j \in UNION {Items(v.pool[t]) : t \in Servers}
        BY <2>4, <2>6, <4>1, <4>2
      <4> QED BY <4>3
    <3> QED BY <3>1, <3>2 DEF Apart
  <2>15. \A t \in Servers \ {s} : Kept(v, t) /\ Matching(v, t)
    <3> SUFFICES ASSUME NEW t \in Servers \ {s} PROVE Kept(v, t) /\ Matching(v, t)
      OBVIOUS
    <3>1. Kept(w, t) /\ Matching(w, t) /\ v.pool[t] = w.pool[t]
      BY <2>8 DEF Filling
    <3>2. AtPort(w, t) => AtPort(v, t)
      BY <2>4, <2>6, <2>13, <3>1 DEF AtPort
    <3> QED BY <2>6, <3>1, <3>2 DEF Kept, Matching
  <2>16. AtPort(v, s)
    <3>1. AtPort(w, s) /\ port # 0
      BY DEF Filling
    <3>2. \A j \in Items(old) : j \in DOMAIN w.published
      BY <2>13
    <3> QED BY <2>4, <2>6, <2>11, <3>1, <3>2 DEF AtPort
  <2>17. ASSUME NEW a \in DOMAIN new.items, NEW b \in DOMAIN new.items,
                new.items[a] = new.items[b], new.items[a] # 0
         PROVE  a = b
    <3>1. \A j \in DOMAIN old.items : old.items[j] # i
      BY <2>2, <2>3, <2>13, ItemsAre DEF Ids
    <3>2. CASE a = k \/ b = k
      BY <2>10, <2>17, <3>1, <3>2
    <3>3. CASE a # k /\ b # k
      BY <2>10, <2>17, <3>3 DEF Filling
    <3> QED BY <3>2, <3>3
  <2>18. Filling(v, s)
    <3>1. /\ old.in /\ old.held /\ w.xmpp[s] = "OPEN" /\ w.tcp[s].status = "OPEN" /\ w.tcp[s].port # 0
      BY DEF Filling
    <3> QED BY <2>4, <2>6, <2>9, <2>12, <2>14, <2>15, <2>16, <2>17, <3>1 DEF Filling
  <2>19. new.items[k] # 0 /\ \A j \in DOMAIN old.items : old.items[j] # 0 => new.items[j] # 0
    BY <2>3, <2>10 DEF Ids
  <2> QED BY <2>10, <2>18, <2>19 DEF v
<1> QED BY <1>1, <1>2

\* A server that every publisher has an item of is published as it should be.
LEMMA FilledIsInOrder ==
  ASSUME NEW s \in Servers, NEW w, Filling(w, s), \A k \in DOMAIN w.pool[s].items : w.pool[s].items[k] # 0
  PROVE  InOrder(w)
<1>1. w \in Worlds /\ w.pool[s] \in Entries
  BY DEF Filling, Worlds
<1>2. 0 \notin ToSet(w.pool[s].items)
  BY <1>1, ItemsAre
<1>3. IsInjective(w.pool[s].items)
  BY DEF Filling, IsInjective
<1>4. Kept(w, s) /\ Matching(w, s)
  BY <1>2, <1>3 DEF Kept, Matching, Filling, XmppStatus
<1> QED BY <1>4 DEF Filling, InOrder

\* One publisher after the other gets its item.
LEMMA PublishInOrder ==
  ASSUME NEW s \in Servers, NEW w, Filling(w, s)
  PROVE  InOrder(Publish(w, s))
<1> DEFINE N == Len(w.pool[s].items)
           Round(g) == [k \in 0 .. N |-> IF k = 0 THEN w ELSE PublishWith(g[k - 1], s, k)]
           J == CHOOSE g : g = Round(g)
           Reached(v, k) == /\ Filling(v, s) /\ DOMAIN v.pool[s].items = 1 .. N
                            /\ \A j \in 1 .. k : v.pool[s].items[j] # 0
           Going(f, n) == /\ f \in [0 .. n -> Worlds] /\ f[0] = w
                          /\ \A k \in 1 .. n : f[k] = PublishWith(f[k - 1], s, k)
                          /\ Reached(f[n], n)
           S == {n \in 0 .. N : \E f : Going(f, n)}
<1>1. Publish(w, s) = J[N]
  BY DEF Publish
<1>2. N \in Nat /\ DOMAIN w.pool[s].items = 1 .. N /\ N \in 0 .. N /\ w \in Worlds
  <2>1. w \in Worlds /\ w.pool[s].items \in Seq(Nat)
    BY DEF Filling, Worlds, Entries
  <2> QED BY <2>1
<1>3. 0 \in S
  <2> DEFINE f == [k \in 0 .. 0 |-> w]
  <2>1. /\ f \in [0 .. 0 -> Worlds] /\ f[0] = w
        /\ \A k \in 1 .. 0 : f[k] = PublishWith(f[k - 1], s, k)
    BY <1>2
  <2>2. Reached(w, 0)
    BY <1>2
  <2> HIDE DEF f, Reached
  <2>3. Going(f, 0)
    BY <2>1, <2>2
  <2>4. 0 \in 0 .. N
    BY <1>2
  <2> HIDE DEF Going
  <2> QED BY <2>3, <2>4
<1>4. ASSUME NEW n \in 0 .. N, n \in S, n + 1 <= N PROVE n + 1 \in S
  <2>1. PICK f : Going(f, n)
    BY <1>4
  <2> DEFINE v == PublishWith(f[n], s, n + 1)
             g == [k \in 0 .. n + 1 |-> IF k <= n THEN f[k] ELSE v]
  <2>2. /\ n \in Nat /\ n + 1 \in 1 .. N /\ n + 1 \in 0 .. N /\ n \in 0 .. n /\ 0 \in 0 .. n
        /\ n + 1 \in 0 .. n + 1 /\ ~(n + 1 <= n) /\ (n + 1) - 1 = n
    BY <1>2, <1>4
  <2>3. Reached(f[n], n) /\ n + 1 \in DOMAIN f[n].pool[s].items
    BY <2>1, <2>2
  <2>4. /\ Filling(v, s) /\ DOMAIN v.pool[s].items = DOMAIN f[n].pool[s].items
        /\ v.pool[s].items[n + 1] # 0
        /\ \A j \in DOMAIN f[n].pool[s].items : f[n].pool[s].items[j] # 0 => v.pool[s].items[j] # 0
    BY <2>3, PublishWithFills
  <2>5. Reached(v, n + 1)
    <3>1. ASSUME NEW j \in 1 .. n + 1 PROVE v.pool[s].items[j] # 0
      <4>1. CASE j = n + 1
        BY <2>4, <4>1
      <4>2. CASE j \in 1 .. n
        <5>1. f[n].pool[s].items[j] # 0
          BY <2>3, <4>2
        <5>2. j \in DOMAIN f[n].pool[s].items
          <6>1. j \in 1 .. N
            BY <1>2, <2>2, <4>2
          <6> QED BY <2>3, <6>1
        <5> HIDE DEF v
        <5> QED BY <2>4, <5>1, <5>2
      <4> QED BY <2>2, <4>1, <4>2
    <3> QED BY <2>3, <2>4, <3>1
  <2>6. v \in Worlds
    BY <2>4 DEF Filling
  <2> HIDE DEF v, Reached
  <2>7. g \in [0 .. n + 1 -> Worlds] /\ g[0] = w /\ g[n + 1] = v
    BY <2>1, <2>2, <2>6
  <2>8. ASSUME NEW k \in 1 .. n + 1 PROVE g[k] = PublishWith(g[k - 1], s, k)
    <3>1. CASE k = n + 1
      <4>1. g[k - 1] = f[n]
        BY <2>2, <3>1
      <4> QED BY <2>7, <3>1, <4>1 DEF v
    <3>2. CASE k \in 1 .. n
      <4>1. g[k] = f[k] /\ g[k - 1] = f[k - 1]
        BY <2>2, <3>2
      <4> QED BY <2>1, <3>2, <4>1
    <3> QED BY <2>2, <3>1, <3>2
  <2>9. Going(g, n + 1)
    BY <2>5, <2>7, <2>8
  <2> QED BY <2>2, <2>9
<1>5. \E f : Going(f, N)
  <2>1. \A n \in 0 .. N : n \in S
    <3> HIDE DEF S, N
    <3> QED BY <1>2, <1>3, <1>4, UpTo
  <2> QED BY <1>2, <2>1
<1>6. PICK f : Going(f, N)
  BY <1>5
<1>7. f = Round(f)
  <2>1. ASSUME NEW k \in 0 .. N PROVE f[k] = Round(f)[k]
    <3>1. CASE k = 0
      BY <1>6, <3>1
    <3>2. CASE k \in 1 .. N /\ k # 0
      BY <1>6, <3>2
    <3> QED BY <1>2, <3>1, <3>2
  <2> QED BY <1>6, <2>1
<1>8. J = Round(J)
  BY <1>7
<1> HIDE DEF J
<1>9. ASSUME NEW k \in 0 .. N
      PROVE  J[k] = IF k = 0 THEN w ELSE PublishWith(J[k - 1], s, k)
  BY <1>8
<1> DEFINE Same == {k \in 0 .. N : J[k] = f[k]}
<1>10. 0 \in Same
  <2>1. 0 \in 0 .. N
    BY <1>2
  <2>2. f[0] = w
    BY <1>6
  <2>3. J[0] = w
    BY <1>9, <2>1
  <2> QED BY <2>1, <2>2, <2>3
<1>11. ASSUME NEW k \in 0 .. N, k \in Same, k + 1 <= N PROVE k + 1 \in Same
  <2>1. k + 1 \in 0 .. N /\ k + 1 \in 1 .. N /\ k + 1 # 0 /\ (k + 1) - 1 = k
    BY <1>2, <1>11
  <2>2. J[k + 1] = PublishWith(J[k], s, k + 1)
    BY <1>9, <2>1
  <2>3. f[k + 1] = PublishWith(f[k], s, k + 1)
    BY <1>6, <2>1
  <2> QED BY <1>11, <2>1, <2>2, <2>3
<1>12. \A k \in 0 .. N : k \in Same
  <2> HIDE DEF Same, N
  <2> QED BY <1>2, <1>10, <1>11, UpTo
<1>13. Publish(w, s) = f[N] /\ Reached(f[N], N)
  BY <1>1, <1>2, <1>6, <1>12
<1> QED BY <1>13, FilledIsInOrder

\* Other entries, and some items withdrawn.
Withdrawn(w, entries, out) ==
  [tcp |-> w.tcp, xmpp |-> w.xmpp, pool |-> entries, published |-> Unpublished(w, out)]

\* The items of some servers are withdrawn.
LEMMA WithdrawnIsInOrder ==
  ASSUME NEW w \in Worlds, Apart(w), Announced(w.published), NEW gone \in SUBSET Servers,
         NEW entries \in [Servers -> Entries], \A t \in gone : Items(entries[t]) = {},
         \A t \in Servers \ gone : entries[t] = w.pool[t],
         NEW out, \A i : i \in out <=> \E t \in gone : i \in Items(w.pool[t])
  PROVE  LET v == Withdrawn(w, entries, out)
         IN  /\ v \in Worlds /\ Apart(v) /\ Announced(v.published)
             /\ v.pool = entries /\ v.tcp = w.tcp /\ v.xmpp = w.xmpp
             /\ \A t \in Servers \ gone : Kept(w, t) => Kept(v, t)
<1> DEFINE v == Withdrawn(w, entries, out)
           p == Unpublished(w, out)
<1>1. /\ v.pool = entries /\ v.tcp = w.tcp /\ v.xmpp = w.xmpp /\ v.published = p
  BY DEF Withdrawn
<1>2. DOMAIN p = DOMAIN w.published \ out /\ \A i \in DOMAIN p : p[i] = w.published[i]
  BY DEF Unpublished
<1>3. p \in Catalogs
  <2>1. /\ w.published \in [DOMAIN w.published -> Announcements]
        /\ DOMAIN w.published \subseteq Ids /\ IsFiniteSet(DOMAIN w.published)
    <3>1. w.published \in Catalogs
      BY DEF Worlds
    <3> QED BY <3>1, CatalogIs
  <2>2. DOMAIN p \in SUBSET DOMAIN w.published
    BY <1>2
  <2>3. IsFiniteSet(DOMAIN p)
    BY <2>1, <2>2, FS_Subset
  <2>4. p \in [DOMAIN p -> Announcements]
    BY <1>2, <2>1 DEF Unpublished
  <2> HIDE DEF p
  <2> QED BY <2>1, <2>2, <2>3, <2>4, CatalogIs
<1> HIDE DEF p
<1>4. v \in Worlds
  BY <1>1, <1>3 DEF Worlds, Withdrawn
<1> HIDE DEF v
<1>5. Announced(p)
  BY <1>2 DEF Announced
<1>6. \A a, b \in Servers : a # b => Items(w.pool[a]) \cap Items(w.pool[b]) = {}
  BY DEF Apart
<1>7. \A t \in Servers : Items(entries[t]) \subseteq Items(w.pool[t])
  OBVIOUS
<1>8. Apart(v)
  <2>1. ASSUME NEW a \in Servers, NEW b \in Servers, a # b
        PROVE  Items(entries[a]) \cap Items(entries[b]) = {}
    BY <1>6, <1>7, <2>1
  <2>2. ASSUME NEW i
        PROVE  i \in DOMAIN p <=> \E t \in Servers : i \in Items(entries[t])
    <3>1. i \in DOMAIN w.published <=> \E t \in Servers : i \in Items(w.pool[t])
      BY DEF Apart
    <3> QED BY <1>2, <1>6, <3>1
  <2>3. \A i : i \in DOMAIN p <=> i \in UNION {Items(entries[t]) : t \in Servers}
    BY <2>2
  <2>4. DOMAIN p = UNION {Items(entries[t]) : t \in Servers}
    BY <2>3
  <2> QED BY <1>1, <2>1, <2>4 DEF Apart
<1>9. ASSUME NEW t \in Servers \ gone, Kept(w, t) PROVE Kept(v, t)
  <2>1. v.pool[t] = w.pool[t]
    BY <1>1
  <2>2. \A i \in Items(w.pool[t]) : i \in DOMAIN p
    <3>1. \A i \in Items(w.pool[t]) : i \in DOMAIN w.published
      BY DEF Apart
    <3> QED BY <1>2, <1>6, <3>1
  <2>3. AtPort(w, t) => AtPort(v, t)
    BY <1>1, <1>2, <2>1, <2>2 DEF AtPort
  <2> QED BY <1>1, <1>9, <2>1, <2>3 DEF Kept
<1> QED BY <1>1, <1>4, <1>5, <1>8, <1>9 DEF v

------------------------------------------------------------------------------
(* One server changes *)

\* A world in which s is another, with the same items.
At(w, s, l, x, e) ==
  [tcp |-> [w.tcp EXCEPT ![s] = l], xmpp |-> [w.xmpp EXCEPT ![s] = x],
   pool |-> [w.pool EXCEPT ![s] = e], published |-> w.published]

\* What such a change leaves.
LEMMA ChangedAt ==
  ASSUME NEW w \in Worlds, Apart(w), Announced(w.published), NEW s \in Servers,
         NEW l \in Listeners, NEW x \in {"none", "CLOSED", "OPEN"}, NEW e \in Entries,
         Items(e) = Items(w.pool[s])
  PROVE  LET v == At(w, s, l, x, e)
         IN  /\ v \in Worlds /\ Apart(v) /\ Announced(v.published)
             /\ v.tcp[s] = l /\ v.xmpp[s] = x /\ v.pool[s] = e /\ v.published = w.published
             /\ \A t \in Servers \ {s} : /\ Kept(w, t) => Kept(v, t)
                                         /\ Matching(w, t) => Matching(v, t)
<1> DEFINE v == At(w, s, l, x, e)
<1>1. /\ v.tcp = [w.tcp EXCEPT ![s] = l] /\ v.xmpp = [w.xmpp EXCEPT ![s] = x]
      /\ v.pool = [w.pool EXCEPT ![s] = e] /\ v.published = w.published
  BY DEF At
<1>2. /\ w.tcp \in [Servers -> Listeners] /\ w.xmpp \in [Servers -> {"none", "CLOSED", "OPEN"}]
      /\ w.pool \in [Servers -> Entries] /\ w.published \in Catalogs
  BY DEF Worlds
<1>3. /\ v.tcp[s] = l /\ v.xmpp[s] = x /\ v.pool[s] = e
      /\ \A t \in Servers \ {s} :
           v.tcp[t] = w.tcp[t] /\ v.xmpp[t] = w.xmpp[t] /\ v.pool[t] = w.pool[t]
  BY <1>1, <1>2
<1>4. v \in Worlds
  BY <1>1, <1>2 DEF At, Worlds
<1>5. \A t \in Servers : Items(v.pool[t]) = Items(w.pool[t])
  BY <1>3
<1> HIDE DEF v
<1>6. Apart(v)
  <2>1. UNION {Items(v.pool[t]) : t \in Servers} = UNION {Items(w.pool[t]) : t \in Servers}
    BY <1>5
  <2> QED BY <1>1, <1>5, <2>1 DEF Apart
<1>7. ASSUME NEW t \in Servers \ {s}
      PROVE  (Kept(w, t) => Kept(v, t)) /\ (Matching(w, t) => Matching(v, t))
  BY <1>1, <1>3 DEF Kept, AtPort, Matching
<1> QED BY <1>1, <1>3, <1>4, <1>6, <1>7 DEF v

\* The world as it is, seen as such a change.
LEMMA SameAt ==
  ASSUME NEW w \in Worlds, NEW s \in Servers
  PROVE  /\ w.tcp[s] \in Listeners /\ w.xmpp[s] \in {"none", "CLOSED", "OPEN"}
         /\ w.pool[s] \in Entries
         /\ w.tcp[s] = [status |-> w.tcp[s].status, port |-> w.tcp[s].port]
         /\ \A x : [w EXCEPT !.xmpp[s] = x] = At(w, s, w.tcp[s], x, w.pool[s])
         /\ \A x : [w EXCEPT !.tcp[s].status = x]
                     = At(w, s, [status |-> x, port |-> w.tcp[s].port], w.xmpp[s], w.pool[s])
         /\ \A x, p : [w EXCEPT !.tcp[s].status = x, !.tcp[s].port = p]
                     = At(w, s, [status |-> x, port |-> p], w.xmpp[s], w.pool[s])
         /\ \A e : [w EXCEPT !.pool[s] = e] = At(w, s, w.tcp[s], w.xmpp[s], e)
<1>1. /\ w = [tcp |-> w.tcp, xmpp |-> w.xmpp, pool |-> w.pool, published |-> w.published]
      /\ w.tcp \in [Servers -> Listeners] /\ w.xmpp \in [Servers -> {"none", "CLOSED", "OPEN"}]
      /\ w.pool \in [Servers -> Entries]
  BY DEF Worlds
<1>2. /\ w.tcp[s] \in Listeners /\ w.xmpp[s] \in {"none", "CLOSED", "OPEN"}
      /\ w.pool[s] \in Entries
  BY <1>1
<1>3. w.tcp[s] = [status |-> w.tcp[s].status, port |-> w.tcp[s].port]
  BY <1>2 DEF Listeners
<1>4. /\ [w.tcp EXCEPT ![s] = w.tcp[s]] = w.tcp /\ [w.xmpp EXCEPT ![s] = w.xmpp[s]] = w.xmpp
      /\ [w.pool EXCEPT ![s] = w.pool[s]] = w.pool
  BY <1>1
<1>5. ASSUME NEW x PROVE [w EXCEPT !.xmpp[s] = x] = At(w, s, w.tcp[s], x, w.pool[s])
  BY <1>1, <1>4 DEF At
<1>6. ASSUME NEW x
      PROVE  [w EXCEPT !.tcp[s].status = x]
               = At(w, s, [status |-> x, port |-> w.tcp[s].port], w.xmpp[s], w.pool[s])
  <2>1. [w.tcp[s] EXCEPT !.status = x] = [status |-> x, port |-> w.tcp[s].port]
    BY <1>3
  <2>2. [w EXCEPT !.tcp[s].status = x] = [w EXCEPT !.tcp = [w.tcp EXCEPT ![s] = [w.tcp[s] EXCEPT !.status = x]]]
    OBVIOUS
  <2> QED BY <1>1, <1>4, <2>1, <2>2 DEF At
<1>7. ASSUME NEW x, NEW p
      PROVE  [w EXCEPT !.tcp[s].status = x, !.tcp[s].port = p]
               = At(w, s, [status |-> x, port |-> p], w.xmpp[s], w.pool[s])
  <2> DEFINE u == [w EXCEPT !.tcp[s].status = x]
             l == [status |-> x, port |-> w.tcp[s].port]
  <2>1. u = At(w, s, l, w.xmpp[s], w.pool[s])
    BY <1>6
  <2>2. /\ u = [tcp |-> [w.tcp EXCEPT ![s] = l], xmpp |-> w.xmpp, pool |-> w.pool, published |-> w.published]
    BY <1>4, <2>1 DEF At
  <2>3. u.tcp[s] = l
    BY <1>1, <2>2
  <2> HIDE DEF u
  <2>4. [u EXCEPT !.tcp[s].port = p] = [u EXCEPT !.tcp = [u.tcp EXCEPT ![s] = [u.tcp[s] EXCEPT !.port = p]]]
    OBVIOUS
  <2>5. [u.tcp[s] EXCEPT !.port = p] = [status |-> x, port |-> p]
    BY <2>3
  <2>6. [u.tcp EXCEPT ![s] = [status |-> x, port |-> p]] = [w.tcp EXCEPT ![s] = [status |-> x, port |-> p]]
    BY <1>1, <2>2
  <2>7. [u EXCEPT !.tcp[s].port = p] = At(w, s, [status |-> x, port |-> p], w.xmpp[s], w.pool[s])
    BY <1>4, <2>2, <2>4, <2>5, <2>6 DEF At
  <2> QED BY <2>7 DEF u
<1>8. ASSUME NEW e PROVE [w EXCEPT !.pool[s] = e] = At(w, s, w.tcp[s], w.xmpp[s], e)
  BY <1>1, <1>4 DEF At
<1> QED BY <1>2, <1>3, <1>5, <1>6, <1>7, <1>8

\* The listener of a server changes; unless it listened, its port may, too.
LEMMA ListenerChanges ==
  ASSUME NEW w, InOrder(w), NEW s \in Servers, NEW l \in Listeners,
         l.status # "CLOSED" => l.port # 0, l.port = w.tcp[s].port \/ w.tcp[s].status # "OPEN"
  PROVE  AlmostInOrder(At(w, s, l, w.xmpp[s], w.pool[s]), s)
<1> DEFINE v == At(w, s, l, w.xmpp[s], w.pool[s])
<1>1. w \in Worlds /\ Apart(w) /\ Announced(w.published) /\ Kept(w, s) /\ Matching(w, s)
  BY DEF InOrder
<1>2. w.xmpp[s] \in {"none", "CLOSED", "OPEN"} /\ w.pool[s] \in Entries
  BY <1>1, SameAt
<1>3. /\ v \in Worlds /\ Apart(v) /\ Announced(v.published)
      /\ v.tcp[s] = l /\ v.xmpp[s] = w.xmpp[s] /\ v.pool[s] = w.pool[s] /\ v.published = w.published
      /\ \A t \in Servers \ {s} : /\ Kept(w, t) => Kept(v, t)
                                  /\ Matching(w, t) => Matching(v, t)
  BY <1>1, <1>2, ChangedAt
<1> HIDE DEF v
<1>4. Kept(v, s)
  <2>1. w.xmpp[s] = "OPEN" => w.tcp[s].status = "OPEN"
    BY <1>1 DEF Matching, XmppStatus
  <2>2. w.xmpp[s] = "OPEN" /\ AtPort(w, s) => AtPort(v, s)
    BY <1>3, <2>1 DEF AtPort
  <2> QED BY <1>1, <1>3, <2>2 DEF Kept
<1>5. AlmostInOrder(v, s)
  BY <1>3, <1>4 DEF AlmostInOrder, InOrder
<1> QED BY <1>5 DEF v

\* The notifications make it right again.
LEMMA NotifiedIsInOrder ==
  ASSUME NEW s \in Servers, NEW w, AlmostInOrder(w, s)
  PROVE  InOrder(Notified(w, s)) /\ (~w.pool[s].in => Notified(w, s).pool = w.pool)
<1> DEFINE x == XmppStatus(w.tcp[s].status)
           u == [w EXCEPT !.xmpp[s] = x]
<1>1. w \in Worlds /\ Apart(w) /\ Announced(w.published) /\ Kept(w, s)
  BY DEF AlmostInOrder
<1>2. CASE w.xmpp[s] \in {"none", x}
  <2>1. Notified(w, s) = w
    BY <1>2 DEF Notified
  <2>2. Matching(w, s)
    BY <1>2 DEF Matching
  <2> QED BY <2>1, <2>2 DEF AlmostInOrder, InOrder
<1>3. CASE w.xmpp[s] \notin {"none", x}
  <2>1. x \in {"CLOSED", "OPEN"} /\ (x = "OPEN" <=> w.tcp[s].status = "OPEN")
    BY DEF XmppStatus
  <2>2. Notified(w, s) = PoolNotify(u, s)
    BY <1>3 DEF Notified
  <2>3. u = At(w, s, w.tcp[s], x, w.pool[s]) /\ w.tcp[s] \in Listeners /\ w.pool[s] \in Entries
        /\ w.xmpp[s] \in {"none", "CLOSED", "OPEN"}
    <3>1. \A y : [w EXCEPT !.xmpp[s] = y] = At(w, s, w.tcp[s], y, w.pool[s])
      BY <1>1, SameAt
    <3> HIDE DEF x
    <3>2. u = At(w, s, w.tcp[s], x, w.pool[s])
      BY <3>1
    <3> QED BY <1>1, <3>2, SameAt
  <2>4. /\ u \in Worlds /\ Apart(u) /\ Announced(u.published)
        /\ u.tcp[s] = w.tcp[s] /\ u.xmpp[s] = x /\ u.pool[s] = w.pool[s] /\ u.published = w.published
        /\ \A t \in Servers \ {s} : Kept(u, t) /\ Matching(u, t)
    <3> HIDE DEF u, x
    <3> QED BY <1>1, <2>1, <2>3, ChangedAt DEF AlmostInOrder
  <2>5. u.pool = w.pool
    BY <1>1 DEF Worlds
  <2>6. Matching(u, s)
    BY <2>4 DEF Matching
  <2> HIDE DEF u, x
  <2>7. CASE ~w.pool[s].in
    <3>1. Kept(u, s)
      BY <1>1, <1>3, <2>1, <2>4, <2>7 DEF Kept
    <3>2. PoolNotify(u, s) = u
      BY <2>4, <2>7 DEF PoolNotify
    <3> QED BY <2>2, <2>4, <2>5, <2>6, <3>1, <3>2 DEF InOrder
  <2>8. CASE w.pool[s].in /\ x = "OPEN"
    <3>1. w.xmpp[s] = "CLOSED"
      BY <1>3, <2>3, <2>8
    <3>2. Items(u.pool[s]) = {} /\ w.pool[s].held /\ w.tcp[s].port # 0
      BY <1>1, <2>1, <2>4, <2>8, <3>1 DEF Kept
    <3>3. \A a \in DOMAIN u.pool[s].items : u.pool[s].items[a] = 0
      <4> SUFFICES ASSUME NEW a \in DOMAIN u.pool[s].items, u.pool[s].items[a] # 0 PROVE FALSE
        OBVIOUS
      <4>1. u.pool[s] \in Entries
        BY <2>3, <2>4
      <4>2. u.pool[s].items[a] \in Items(u.pool[s])
        BY <4>1, ItemsAre
      <4> QED BY <3>2, <4>2
    <3>4. Filling(u, s)
      BY <2>1, <2>4, <2>8, <3>2, <3>3 DEF Filling, AtPort
    <3>5. PoolNotify(u, s) = Publish(u, s)
      BY <2>4, <2>8 DEF PoolNotify
    <3> QED BY <2>2, <2>8, <3>4, <3>5, PublishInOrder
  <2>9. CASE w.pool[s].in /\ x = "CLOSED"
    <3> DEFINE gone == {s}
               e == [u.pool[s] EXCEPT !.items = [k \in DOMAIN u.pool[s].items |-> 0]]
               entries == [u.pool EXCEPT ![s] = e]
               v == Withdrawn(u, entries, Items(u.pool[s]))
    <3>1. e \in Entries /\ Items(e) = {}
      <4>1. u.pool[s] \in Entries /\ DOMAIN u.pool[s].items = 1 .. Len(u.pool[s].items)
            /\ Len(u.pool[s].items) \in Nat
        BY <2>3, <2>4, ItemsAre DEF Entries
      <4>2. e = [in |-> u.pool[s].in, held |-> u.pool[s].held, items |-> [k \in 1 .. Len(u.pool[s].items) |-> 0]]
        <5> DEFINE r == u.pool[s]
                   zeros == [k \in DOMAIN r.items |-> 0]
        <5>1. r = [in |-> r.in, held |-> r.held, items |-> r.items]
          BY <4>1 DEF Entries
        <5>2. zeros = [k \in 1 .. Len(r.items) |-> 0]
          BY <4>1
        <5>3. e = [r EXCEPT !.items = zeros]
          OBVIOUS
        <5> HIDE DEF r, zeros
        <5>4. e = [in |-> r.in, held |-> r.held, items |-> zeros]
          BY <5>1, <5>3
        <5> QED BY <5>2, <5>4 DEF r
      <4>3. [k \in 1 .. Len(u.pool[s].items) |-> 0] \in Seq(Nat)
        BY <4>1
      <4>4. e \in Entries
        BY <4>1, <4>2, <4>3 DEF Entries
      <4>5. \A k \in DOMAIN e.items : e.items[k] = 0
        BY <4>2
      <4> HIDE DEF e
      <4> QED BY <4>4, <4>5, ItemsAre
    <3> HIDE DEF e
    <3>2. /\ entries \in [Servers -> Entries] /\ Items(entries[s]) = {}
          /\ \A t \in Servers \ {s} : entries[t] = u.pool[t]
          /\ entries[s] = e
      <4>1. u.pool \in [Servers -> Entries]
        BY <2>4 DEF Worlds
      <4> QED BY <3>1, <4>1
    <3>3. /\ v \in Worlds /\ Apart(v) /\ Announced(v.published)
          /\ v.pool = entries /\ v.tcp = u.tcp /\ v.xmpp = u.xmpp
          /\ \A t \in Servers \ {s} : Kept(u, t) => Kept(v, t)
      <4> HIDE DEF entries
      <4>1. gone \in SUBSET Servers
        OBVIOUS
      <4>2. /\ \A t \in gone : Items(entries[t]) = {}
            /\ \A t \in Servers \ gone : entries[t] = u.pool[t]
        BY <3>2
      <4>3. /\ \A t \in Servers \ {s} : t \in Servers \ gone
            /\ \A i : i \in Items(u.pool[s]) <=> \E t \in gone : i \in Items(u.pool[t])
        OBVIOUS
      <4> HIDE DEF gone
      <4>4. /\ v \in Worlds /\ Apart(v) /\ Announced(v.published)
            /\ v.pool = entries /\ v.tcp = u.tcp /\ v.xmpp = u.xmpp
            /\ \A t \in Servers \ gone : Kept(u, t) => Kept(v, t)
        BY <2>4, <3>2, <4>1, <4>2, <4>3, WithdrawnIsInOrder
      <4> QED BY <4>3, <4>4
    <3>4. PoolNotify(u, s) = v
      <4>1. PoolNotify(u, s) = Unpublish(u, s)
        BY <2>4, <2>9 DEF PoolNotify
      <4>2. u = [tcp |-> u.tcp, xmpp |-> u.xmpp, pool |-> u.pool, published |-> u.published]
        BY <2>4 DEF Worlds
      <4> QED BY <4>1, <4>2 DEF Unpublish, Withdrawn, e
    <3> HIDE DEF v, entries
    <3>5. \A t \in Servers \ {s} : Matching(v, t)
      BY <2>4, <3>3 DEF Matching
    <3>6. Matching(v, s)
      BY <2>6, <3>3 DEF Matching
    <3>7. Kept(v, s)
      <4>1. e.in = u.pool[s].in /\ e.held = u.pool[s].held
        BY <2>3, <2>4 DEF e, Entries
      <4> QED BY <1>1, <2>4, <2>9, <3>2, <3>3, <4>1 DEF Kept
    <3> QED BY <2>2, <2>4, <2>9, <3>3, <3>4, <3>5, <3>6, <3>7 DEF InOrder
  <2> QED BY <2>1, <2>7, <2>8, <2>9
<1> QED BY <1>2, <1>3

\* A server that is closed is told of.
LEMMA CloseIsInOrder ==
  ASSUME NEW s \in Servers, NEW w, InOrder(w)
  PROVE  /\ InOrder(CloseListener(w, s))
         /\ ~w.pool[s].in => CloseListener(w, s).pool = w.pool
<1> DEFINE l == [status |-> "CLOSED", port |-> w.tcp[s].port]
           v == At(w, s, l, w.xmpp[s], w.pool[s])
<1>1. w \in Worlds
  BY DEF InOrder
<1>2. CloseListener(w, s) = Notified(v, s)
  <2>1. \A x : [w EXCEPT !.tcp[s].status = x]
                = At(w, s, [status |-> x, port |-> w.tcp[s].port], w.xmpp[s], w.pool[s])
    BY <1>1, SameAt
  <2> QED BY <2>1 DEF CloseListener
<1>3. l \in Listeners
  BY <1>1 DEF Worlds, Listeners
<1>4. AlmostInOrder(v, s)
  <2> DEFINE k == l
  <2>1. l.status = "CLOSED" /\ l.port = w.tcp[s].port
    OBVIOUS
  <2> HIDE DEF l
  <2> QED BY <1>3, <2>1, ListenerChanges
<1>5. v.pool = w.pool
  BY <1>1 DEF At, Worlds
<1> HIDE DEF v
<1> QED BY <1>2, <1>4, <1>5, NotifiedIsInOrder

\* The entries of some servers are freed, with what was published for them.
LEMMA FreeIsInOrder ==
  ASSUME NEW w, InOrder(w), NEW gone \in SUBSET Servers
  PROVE  InOrder(EntriesFree(w, gone))
<1> DEFINE entries == [s \in Servers |-> IF s \in gone THEN Freed(w.pool[s]) ELSE w.pool[s]]
           out == UNION {Items(w.pool[s]) : s \in gone}
           v == Withdrawn(w, entries, out)
<1>1. w \in Worlds /\ Apart(w) /\ Announced(w.published) /\ \A s \in Servers : Kept(w, s) /\ Matching(w, s)
  BY DEF InOrder
<1>2. ASSUME NEW e \in Entries
      PROVE  /\ Freed(e) \in Entries /\ Items(Freed(e)) = {}
             /\ ~Freed(e).in /\ Freed(e).held = e.held
  <2>1. e = [in |-> e.in, held |-> e.held, items |-> e.items] /\ e.held \in BOOLEAN
    BY DEF Entries
  <2>2. Freed(e) = [in |-> FALSE, held |-> e.held, items |-> <<>>]
    <3> DEFINE no == FALSE
               f == [e EXCEPT !.in = no]
    <3>1. Freed(e) = [f EXCEPT !.items = <<>>]
      BY DEF Freed
    <3> HIDE DEF no
    <3>2. f = [in |-> no, held |-> e.held, items |-> e.items]
      BY <2>1
    <3> HIDE DEF f
    <3>3. [f EXCEPT !.items = <<>>] = [in |-> no, held |-> e.held, items |-> <<>>]
      BY <3>2
    <3>4. Freed(e) = [in |-> no, held |-> e.held, items |-> <<>>]
      BY <3>1, <3>3
    <3> QED BY <3>4 DEF no
  <2>3. <<>> \in Seq(Nat) /\ DOMAIN <<>> = {}
    OBVIOUS
  <2>4. Freed(e) \in Entries
    BY <2>1, <2>2, <2>3 DEF Entries
  <2>5. Freed(e).items = <<>>
    BY <2>2
  <2>6. Items(Freed(e)) = {}
    BY <2>3, <2>4, <2>5, ItemsAre
  <2>7. Freed(e).in = FALSE /\ Freed(e).held = e.held
    BY <2>2
  <2> QED BY <2>4, <2>6, <2>7
<1>3. \A s \in Servers : w.pool[s] \in Entries
  BY <1>1 DEF Worlds
<1>4. /\ entries \in [Servers -> Entries]
      /\ \A s \in gone : entries[s] = Freed(w.pool[s])
      /\ \A s \in Servers \ gone : entries[s] = w.pool[s]
  BY <1>2, <1>3
<1>5. \A i : i \in out <=> \E s \in gone : i \in Items(w.pool[s])
  OBVIOUS
<1>6. EntriesFree(w, gone) = v
  <2> DEFINE u == [w EXCEPT !.published = Unpublished(w, out)]
  <2>1. w = [tcp |-> w.tcp, xmpp |-> w.xmpp, pool |-> w.pool, published |-> w.published]
    BY <1>1 DEF Worlds
  <2>2. u = [tcp |-> w.tcp, xmpp |-> w.xmpp, pool |-> w.pool, published |-> Unpublished(w, out)]
    BY <2>1
  <2>3. EntriesFree(w, gone)
          = [u EXCEPT !.pool = [s \in Servers |-> IF s \in gone THEN Freed(u.pool[s]) ELSE u.pool[s]]]
    BY DEF EntriesFree
  <2>4. [s \in Servers |-> IF s \in gone THEN Freed(u.pool[s]) ELSE u.pool[s]] = entries
    BY <2>2
  <2> HIDE DEF u, out
  <2>5. [u EXCEPT !.pool = entries] = v
    <3> HIDE DEF entries
    <3> QED BY <2>2 DEF Withdrawn
  <2> QED BY <2>3, <2>4, <2>5
<1> HIDE DEF entries, out
<1>7. \A s \in gone : Items(entries[s]) = {}
  BY <1>2, <1>3, <1>4
<1>8. /\ v \in Worlds /\ Apart(v) /\ Announced(v.published)
      /\ v.pool = entries /\ v.tcp = w.tcp /\ v.xmpp = w.xmpp
      /\ \A s \in Servers \ gone : Kept(w, s) => Kept(v, s)
  BY <1>1, <1>4, <1>5, <1>7, WithdrawnIsInOrder
<1> HIDE DEF v
<1>9. ASSUME NEW s \in gone PROVE Kept(v, s)
  <2>1. ~v.pool[s].in /\ v.pool[s].held = w.pool[s].held /\ Items(v.pool[s]) = {}
    BY <1>2, <1>3, <1>4, <1>7, <1>8
  <2>2. Kept(w, s)
    BY <1>1
  <2> QED BY <1>8, <2>1, <2>2 DEF Kept
<1>10. \A s \in Servers : Matching(v, s)
  BY <1>1, <1>8 DEF Matching
<1> QED BY <1>1, <1>6, <1>8, <1>9, <1>10 DEF InOrder

\* What an operation leaves is what there is.
LEMMA BecomesInOrder ==
  ASSUME NEW w, InOrder(w), listener' = w.tcp, xmpp' = w.xmpp, pool' = w.pool,
         published' = w.published, UNCHANGED publisher
  PROVE  InOrder(ServersNow)'
<1>1. w = [tcp |-> w.tcp, xmpp |-> w.xmpp, pool |-> w.pool, published |-> w.published]
  BY DEF InOrder, Worlds
<1>2. ServersNow' = w
  BY <1>1 DEF ServersNow
<1>3. (ServersNow \in Worlds)' /\ Apart(ServersNow)'
  BY <1>2 DEF InOrder
<1>4. Announced(ServersNow.published)'
  BY <1>2 DEF InOrder, Announced
<1>5. (\A s \in Servers : Kept(ServersNow, s) /\ Matching(ServersNow, s))'
  BY <1>2 DEF InOrder
<1> QED BY <1>3, <1>4, <1>5 DEF InOrder

\* What a bound server is.
LEMMA BoundIs ==
  ASSUME ServersAssumption, NEW w \in Worlds, NEW s \in Servers, NEW v \in Bound(w, s)
  PROVE  \E p \in Nat \ {0} : v = At(w, s, [status |-> "BOUND", port |-> p], w.xmpp[s], w.pool[s])
<1>1. PICK p \in Ports : v = [w EXCEPT !.tcp[s].status = "BOUND", !.tcp[s].port = p]
  BY DEF Bound
<1>2. p \in Nat \ {0}
  BY DEF ServersAssumption
<1>3. \A x, q : [w EXCEPT !.tcp[s].status = x, !.tcp[s].port = q]
                 = At(w, s, [status |-> x, port |-> q], w.xmpp[s], w.pool[s])
  BY SameAt
<1> QED BY <1>1, <1>2, <1>3

\* One change after another.
LEMMA AtAt ==
  ASSUME NEW w \in Worlds, NEW s \in Servers, NEW k, NEW l, NEW x, NEW y, NEW d, NEW e
  PROVE  At(At(w, s, k, x, d), s, l, y, e) = At(w, s, l, y, e)
BY DEF At, Worlds

------------------------------------------------------------------------------
(* The servers' steps *)

\* Initially, nothing is there.
LEMMA NothingIsInOrder ==
  ASSUME ServersInit
  PROVE  InOrder(ServersNow)
<1>1. /\ ServersNow.tcp = listener /\ ServersNow.xmpp = xmpp /\ ServersNow.pool = pool
      /\ ServersNow.published = published
  BY DEF ServersNow
<1>2. /\ listener = [s \in Servers |-> [status |-> "CLOSED", port |-> 0]]
      /\ xmpp = [s \in Servers |-> "none"] /\ pool = [s \in Servers |-> NoEntry]
      /\ published = [i \in {} |-> 0]
  BY DEF ServersInit
<1>3. NoEntry \in Entries /\ NoEntry.items = <<>> /\ ~NoEntry.in /\ ~NoEntry.held
  <2>1. <<>> \in Seq(Nat)
    OBVIOUS
  <2> QED BY <2>1 DEF NoEntry, Entries
<1>4. Items(NoEntry) = {}
  <2>1. DOMAIN NoEntry.items = {}
    BY <1>3
  <2> QED BY <1>3, <2>1, ItemsAre
<1>5. published \in Catalogs
  <2>1. DOMAIN published = {} /\ published \in [{} -> Announcements]
    BY <1>2
  <2> QED BY <2>1, CatalogIs, FS_EmptySet
<1>6. ServersNow \in Worlds
  <2>1. [status |-> "CLOSED", port |-> 0] \in Listeners
    BY DEF Listeners
  <2> QED BY <1>2, <1>3, <1>5, <2>1 DEF Worlds, ServersNow
<1>7. Apart(ServersNow)
  BY <1>1, <1>2, <1>4 DEF Apart
<1>8. Announced(ServersNow.published)
  BY <1>1, <1>2 DEF Announced
<1>9. ASSUME NEW s \in Servers PROVE Kept(ServersNow, s) /\ Matching(ServersNow, s)
  <2>1. pool[s] = NoEntry /\ xmpp[s] = "none" /\ listener[s].status = "CLOSED"
    BY <1>2
  <2> QED BY <1>1, <1>3, <1>4, <2>1 DEF Kept, Matching
<1> QED BY <1>6, <1>7, <1>8, <1>9 DEF InOrder

\* The listener's steps.
LEMMA ListenerSteps ==
  ASSUME ServersAssumption, InOrder(ServersNow), NEW s \in Servers,
         \/ \E p \in Ports : SetLocalPort(s, p)
         \/ Bind(s) \/ OpenServer(s) \/ CloseServer(s) \/ ServerIo(s)
  PROVE  InOrder(ServersNow)'
<1> DEFINE w == ServersNow
           Into(x, p) == At(w, s, [status |-> x, port |-> p], w.xmpp[s], w.pool[s])
<1>1. /\ w.tcp = listener /\ w.xmpp = xmpp /\ w.pool = pool /\ w.published = published
      /\ w \in Worlds /\ InOrder(w)
  BY DEF ServersNow, InOrder
<1>2. /\ w.tcp[s] \in Listeners
      /\ w.tcp[s] = [status |-> w.tcp[s].status, port |-> w.tcp[s].port]
      /\ w.tcp[s].status \in {"CLOSED", "BOUND", "OPEN"} /\ w.tcp[s].port \in Nat
      /\ w.tcp[s].status # "CLOSED" => w.tcp[s].port # 0
      /\ w.tcp \in [Servers -> Listeners]
  <2>1. w.tcp \in [Servers -> Listeners] /\ Kept(w, s)
    BY <1>1 DEF Worlds, InOrder
  <2> HIDE DEF w
  <2> QED BY <2>1 DEF Kept, Listeners
<1> HIDE DEF w
<1>3. ASSUME NEW x \in {"CLOSED", "BOUND", "OPEN"}, NEW p \in Nat, x # "CLOSED" => p # 0,
             p = w.tcp[s].port \/ w.tcp[s].status # "OPEN"
      PROVE  AlmostInOrder(Into(x, p), s)
  <2> DEFINE l == [status |-> x, port |-> p]
  <2>1. l \in Listeners /\ l.status = x /\ l.port = p
    BY DEF Listeners
  <2> HIDE DEF l
  <2>2. AlmostInOrder(At(w, s, l, w.xmpp[s], w.pool[s]), s)
    BY <1>1, <1>3, <2>1, ListenerChanges
  <2> QED BY <2>2 DEF l
<1>4. ASSUME NEW v, InOrder(v), ServersBecome(v), UNCHANGED publisher PROVE InOrder(ServersNow)'
  BY <1>4, BecomesInOrder DEF ServersBecome
<1>5. ASSUME NEW p \in Ports, SetLocalPort(s, p) PROVE InOrder(ServersNow)'
  <2> DEFINE v == Into("CLOSED", p)
  <2>1. p \in Nat
    BY DEF ServersAssumption
  <2>2. listener[s].status = "CLOSED"
    BY <1>5 DEF SetLocalPort
  <2>3. AlmostInOrder(v, s)
    BY <1>1, <1>3, <2>1, <2>2
  <2>4. v.tcp = [listener EXCEPT ![s] = [status |-> "CLOSED", port |-> p]]
        /\ v.xmpp = xmpp /\ v.pool = pool /\ v.published = published
    BY <1>1 DEF At, Worlds
  <2>5. listener' = v.tcp
    <3>1. listener' = [listener EXCEPT ![s] = [listener[s] EXCEPT !.port = p]]
      BY <1>5 DEF SetLocalPort
    <3>2. [listener[s] EXCEPT !.port = p] = [status |-> "CLOSED", port |-> p]
      BY <1>1, <1>2, <2>2
    <3> QED BY <2>4, <3>1, <3>2
  <2>6. Matching(v, s)
    <3> HIDE DEF v
    <3>1. Matching(w, s)
      BY <1>1 DEF InOrder
    <3>2. v.tcp[s] = [status |-> "CLOSED", port |-> p]
      BY <1>1, <1>2, <2>4
    <3>3. v.tcp[s].status = "CLOSED"
      BY <3>2
    <3> QED BY <1>1, <2>2, <2>4, <3>1, <3>3 DEF Matching
  <2> HIDE DEF v
  <2>7. InOrder(v)
    BY <2>3, <2>6 DEF AlmostInOrder, InOrder
  <2> QED BY <1>5, <2>4, <2>5, <2>7, BecomesInOrder DEF SetLocalPort
<1>6. ASSUME NEW v \in Bound(w, s), w.tcp[s].status # "OPEN"
      PROVE  \E p \in Nat \ {0} : v = Into("BOUND", p)
  BY <1>1, <1>6, BoundIs
<1>7. ASSUME Bind(s) PROVE InOrder(ServersNow)'
  <2>1. PICK v \in Bound(w, s) : ServersBecome(Notified(v, s))
    BY <1>7 DEF Bind, w
  <2>2. w.tcp[s].status = "CLOSED" /\ UNCHANGED publisher
    BY <1>1, <1>7 DEF Bind
  <2>3. AlmostInOrder(v, s)
    BY <1>3, <1>6, <2>2
  <2> QED BY <1>4, <2>1, <2>2, <2>3, NotifiedIsInOrder
<1>8. ASSUME OpenServer(s) PROVE InOrder(ServersNow)'
  <2> DEFINE starts == IF listener[s].status = "BOUND" THEN {w} ELSE Bound(w, s)
  <2>1. /\ listener[s].status # "OPEN" /\ UNCHANGED publisher
        /\ \E v \in starts, listens \in BOOLEAN, closing \in BOOLEAN :
             IF listens
             THEN LET u == [v EXCEPT !.tcp[s].status = "OPEN"]
                  IN  ServersBecome(IF closing THEN NotifiedClosing(u, s) ELSE Notified(u, s))
             ELSE ServersBecome(Notified([v EXCEPT !.tcp[s].status = listener[s].status], s))
    BY <1>8 DEF OpenServer, w
  <2>2. PICK v \in starts :
          \E listens \in BOOLEAN, closing \in BOOLEAN :
             IF listens
             THEN LET u == [v EXCEPT !.tcp[s].status = "OPEN"]
                  IN  ServersBecome(IF closing THEN NotifiedClosing(u, s) ELSE Notified(u, s))
             ELSE ServersBecome(Notified([v EXCEPT !.tcp[s].status = listener[s].status], s))
    BY <2>1
  <2>3. \E p \in Nat \ {0} : v = Into("BOUND", p)
    <3>1. CASE listener[s].status = "BOUND"
      <4>1. v = w
        BY <3>1
      <4>2. w = Into("BOUND", w.tcp[s].port)
        <5>1. \A x : [w EXCEPT !.tcp[s].status = x] = Into(x, w.tcp[s].port)
          BY <1>1, SameAt
        <5>2. [w EXCEPT !.tcp[s].status = "BOUND"] = w
          BY <1>1, <1>2, <3>1 DEF Worlds
        <5> QED BY <5>1, <5>2
      <4> QED BY <1>1, <1>2, <3>1, <4>1, <4>2
    <3>2. CASE listener[s].status # "BOUND"
      BY <1>1, <1>6, <2>1, <3>2
    <3> QED BY <3>1, <3>2
  <2>4. PICK p \in Nat \ {0} : v = Into("BOUND", p)
    BY <2>3
  <2>5. p = w.tcp[s].port \/ w.tcp[s].status # "OPEN"
    BY <1>1, <2>1
  <2>6. ASSUME NEW x PROVE [v EXCEPT !.tcp[s].status = x] = Into(x, p)
    <3>1. v = [tcp |-> [w.tcp EXCEPT ![s] = [status |-> "BOUND", port |-> p]], xmpp |-> v.xmpp, pool |-> v.pool,
               published |-> w.published]
          /\ v.xmpp = [w.xmpp EXCEPT ![s] = w.xmpp[s]] /\ v.pool = [w.pool EXCEPT ![s] = w.pool[s]]
      BY <2>4 DEF At
    <3>2. [v EXCEPT !.tcp[s].status = x] = [v EXCEPT !.tcp = [v.tcp EXCEPT ![s] = [v.tcp[s] EXCEPT !.status = x]]]
      OBVIOUS
    <3>3. v.tcp[s] = [status |-> "BOUND", port |-> p]
      BY <1>2, <3>1
    <3>4. [v.tcp[s] EXCEPT !.status = x] = [status |-> x, port |-> p]
      BY <3>3
    <3>5. [v.tcp EXCEPT ![s] = [status |-> x, port |-> p]] = [w.tcp EXCEPT ![s] = [status |-> x, port |-> p]]
      BY <1>2, <3>1
    <3> QED BY <3>1, <3>2, <3>4, <3>5 DEF At
  <2>7. AlmostInOrder(Into("OPEN", p), s) /\ AlmostInOrder(Into(listener[s].status, p), s)
    BY <1>1, <1>2, <1>3, <2>5
  <2> DEFINE open == Into("OPEN", p)
             failed == Into(listener[s].status, p)
  <2> HIDE DEF Into
  <2>8. \/ ServersBecome(NotifiedClosing(open, s)) \/ ServersBecome(Notified(open, s))
        \/ ServersBecome(Notified(failed, s))
    <3>1. /\ [v EXCEPT !.tcp[s].status = "OPEN"] = open
          /\ [v EXCEPT !.tcp[s].status = listener[s].status] = failed
      BY <2>6
    <3> QED BY <2>2, <3>1
  <2>9. InOrder(Notified(open, s)) /\ InOrder(Notified(failed, s))
    BY <2>7, NotifiedIsInOrder
  <2>10. InOrder(NotifiedClosing(open, s))
    BY <2>9, CloseIsInOrder DEF NotifiedClosing
  <2> QED BY <1>4, <2>1, <2>8, <2>9, <2>10
<1>9. InOrder(CloseListener(w, s))
  BY <1>1, CloseIsInOrder
<1>10. ASSUME CloseServer(s) PROVE InOrder(ServersNow)'
  BY <1>4, <1>9, <1>10 DEF CloseServer, w
<1>11. ASSUME ServerIo(s) PROVE InOrder(ServersNow)'
  <2>1. \/ /\ listener' = CloseListener(w, s).tcp /\ xmpp' = CloseListener(w, s).xmpp
           /\ pool' = CloseListener(w, s).pool /\ published' = CloseListener(w, s).published
        \/ /\ listener' = w.tcp /\ xmpp' = w.xmpp /\ pool' = w.pool /\ published' = w.published
    BY <1>11 DEF ServerIo, w
  <2>2. UNCHANGED publisher
    BY <1>11 DEF ServerIo
  <2> QED BY <1>1, <1>9, <2>1, <2>2, BecomesInOrder
<1> QED BY <1>5, <1>7, <1>8, <1>10, <1>11

\* A change of a server that has no items.
LEMMA EntryChanges ==
  ASSUME NEW w, InOrder(w), NEW s \in Servers, NEW l \in Listeners,
         NEW x \in {"none", "CLOSED", "OPEN"}, NEW e \in Entries
  PROVE  /\ Items(w.pool[s]) = {} /\ Items(e) = {}
         /\ l.status # "CLOSED" => l.port # 0
         /\ x \in {"none", XmppStatus(l.status)}
         /\ e.in => e.held
         /\ e.held => x # "none"
         /\ e.in /\ x = "OPEN" => e.items = <<>>
         => InOrder(At(w, s, l, x, e))
<1> DEFINE v == At(w, s, l, x, e)
<1>1. w \in Worlds /\ Apart(w) /\ Announced(w.published) /\ \A t \in Servers : Kept(w, t) /\ Matching(w, t)
  BY DEF InOrder
<1>2. Items(e) = Items(w.pool[s])
      => /\ v \in Worlds /\ Apart(v) /\ Announced(v.published)
         /\ v.tcp[s] = l /\ v.xmpp[s] = x /\ v.pool[s] = e /\ v.published = w.published
         /\ \A t \in Servers \ {s} : /\ Kept(w, t) => Kept(v, t)
                                     /\ Matching(w, t) => Matching(v, t)
  BY <1>1, ChangedAt
<1> HIDE DEF v
<1> SUFFICES ASSUME Items(w.pool[s]) = {}, Items(e) = {},
                    l.status # "CLOSED" => l.port # 0, x \in {"none", XmppStatus(l.status)},
                    e.in => e.held, e.held => x # "none", e.in /\ x = "OPEN" => e.items = <<>>
             PROVE  InOrder(v)
  BY DEF v
<1>3. e.items = <<>> => 0 \notin ToSet(e.items) /\ IsInjective(e.items)
  <2>1. e.items = <<>> => DOMAIN e.items = {}
    OBVIOUS
  <2> QED BY <2>1, ItemsAre DEF IsInjective
<1>4. Kept(v, s)
  <2>1. AtPort(v, s)
    BY <1>2 DEF AtPort
  <2> QED BY <1>2, <1>3, <2>1 DEF Kept
<1>5. Matching(v, s)
  BY <1>2 DEF Matching
<1> QED BY <1>1, <1>2, <1>4, <1>5 DEF InOrder

\* What is known of an entry that is there, and of one that is not.
LEMMA EntryIs ==
  ASSUME NEW w, InOrder(w), NEW s \in Servers
  PROVE  /\ w \in Worlds /\ w.tcp[s] \in Listeners /\ w.pool[s] \in Entries
         /\ w.xmpp[s] \in {"none", "CLOSED", "OPEN"} /\ w.tcp[s].status \in {"CLOSED", "BOUND", "OPEN"}
         /\ w.xmpp[s] \in {"none", XmppStatus(w.tcp[s].status)}
         /\ w.tcp[s].status # "CLOSED" => w.tcp[s].port # 0
         /\ ~w.pool[s].in => Items(w.pool[s]) = {}
         /\ w.xmpp[s] # "OPEN" => Items(w.pool[s]) = {}
         /\ w.pool[s].in => w.pool[s].held
         /\ w.pool[s].held => w.xmpp[s] # "none"
<1>1. w \in Worlds /\ Kept(w, s) /\ Matching(w, s)
  BY DEF InOrder
<1>2. /\ w.tcp[s] \in Listeners /\ w.pool[s] \in Entries
      /\ w.xmpp[s] \in {"none", "CLOSED", "OPEN"}
  BY <1>1 DEF Worlds
<1> QED BY <1>1, <1>2 DEF Kept, Matching, Listeners

\* An entry without items.
LEMMA NewEntry ==
  ASSUME NEW items, items = <<>> \/ items = << 0 >>
  PROVE  LET e == [in |-> TRUE, held |-> TRUE, items |-> items]
         IN  e \in Entries /\ Items(e) = {} /\ e.in /\ e.held /\ e.items = items
<1> DEFINE e == [in |-> TRUE, held |-> TRUE, items |-> items]
<1>1. items \in Seq(Nat) /\ \A k \in DOMAIN items : items[k] = 0
  <2>1. CASE items = <<>>
    BY <2>1
  <2>2. CASE items = << 0 >>
    BY <2>2
  <2> QED BY <2>1, <2>2
<1>2. e \in Entries /\ e.items = items
  BY <1>1 DEF Entries
<1>3. Items(e) = {}
  <2> HIDE DEF e
  <2> QED BY <1>1, <1>2, ItemsAre
<1> QED BY <1>2, <1>3

\* The steps of XMPP servers and of the pool.
LEMMA PoolSteps ==
  ASSUME ServersAssumption, InOrder(ServersNow), NEW s \in Servers,
         CreateXmpp(s) \/ DisposeXmpp(s) \/ AddServer(s) \/ RemoveServer(s) \/ CreateServer(s)
  PROVE  InOrder(ServersNow)'
<1> DEFINE w == ServersNow
<1>1. /\ w.tcp = listener /\ w.xmpp = xmpp /\ w.pool = pool /\ w.published = published
      /\ InOrder(w)
  BY DEF ServersNow
<1> HIDE DEF w
<1>2. /\ w \in Worlds /\ w.tcp[s] \in Listeners /\ w.pool[s] \in Entries
      /\ w.xmpp[s] \in {"none", "CLOSED", "OPEN"} /\ w.tcp[s].status \in {"CLOSED", "BOUND", "OPEN"}
      /\ w.xmpp[s] \in {"none", XmppStatus(w.tcp[s].status)}
      /\ w.tcp[s].status # "CLOSED" => w.tcp[s].port # 0
      /\ ~w.pool[s].in => Items(w.pool[s]) = {}
      /\ w.pool[s].in => w.pool[s].held
      /\ w.pool[s].held => w.xmpp[s] # "none"
  BY <1>1, EntryIs
<1>3. ASSUME NEW v, InOrder(v), ServersBecome(v), UNCHANGED publisher PROVE InOrder(ServersNow)'
  BY <1>3, BecomesInOrder DEF ServersBecome
<1>4. /\ [w.tcp EXCEPT ![s] = w.tcp[s]] = w.tcp /\ [w.xmpp EXCEPT ![s] = w.xmpp[s]] = w.xmpp
      /\ [w.pool EXCEPT ![s] = w.pool[s]] = w.pool
  BY <1>2 DEF Worlds
<1>5. ASSUME CreateXmpp(s) PROVE InOrder(ServersNow)'
  <2> DEFINE x == XmppStatus(w.tcp[s].status)
             v == At(w, s, w.tcp[s], x, w.pool[s])
  <2>1. xmpp[s] = "none" /\ xmpp' = [xmpp EXCEPT ![s] = x]
        /\ UNCHANGED <<listener, pool, published, publisher>>
    BY <1>1, <1>5 DEF CreateXmpp
  <2>2. x \in {"none", "CLOSED", "OPEN"} /\ x # "none"
    BY DEF XmppStatus
  <2>3. ~w.pool[s].held /\ ~w.pool[s].in
    BY <1>1, <1>2, <2>1
  <2>4. InOrder(v)
    <3> DEFINE l == w.tcp[s]
               e == w.pool[s]
    <3>1. l \in Listeners /\ e \in Entries /\ Items(e) = {} /\ (l.status # "CLOSED" => l.port # 0)
          /\ x \in {"none", XmppStatus(l.status)}
      BY <1>2, <2>3
    <3> QED BY <1>1, <2>2, <2>3, <3>1, EntryChanges
  <2>5. v.tcp = w.tcp /\ v.pool = w.pool /\ v.published = w.published /\ v.xmpp = [w.xmpp EXCEPT ![s] = x]
    BY <1>4 DEF At
  <2> HIDE DEF v, x
  <2> QED BY <1>1, <2>1, <2>4, <2>5, BecomesInOrder
<1>6. ASSUME DisposeXmpp(s) PROVE InOrder(ServersNow)'
  <2> DEFINE u == IF listener[s].status # "CLOSED" THEN CloseListener(w, s) ELSE w
             v == [u EXCEPT !.xmpp[s] = "none"]
  <2>1. ~pool[s].held /\ ServersBecome(v) /\ UNCHANGED publisher
    BY <1>6 DEF DisposeXmpp, w
  <2>2. InOrder(u) /\ u.pool = w.pool
    <3>1. ~w.pool[s].in
      BY <1>1, <1>2, <2>1
    <3> QED BY <1>1, <3>1, CloseIsInOrder
  <2> HIDE DEF u
  <2>3. v = At(u, s, u.tcp[s], "none", u.pool[s])
    <3>1. u \in Worlds
      BY <2>2 DEF InOrder
    <3>2. \A x : [u EXCEPT !.xmpp[s] = x] = At(u, s, u.tcp[s], x, u.pool[s])
      BY <3>1, SameAt
    <3> QED BY <3>2
  <2>4. /\ u.tcp[s] \in Listeners /\ u.pool[s] \in Entries /\ Items(u.pool[s]) = {}
        /\ u.tcp[s].status # "CLOSED" => u.tcp[s].port # 0
        /\ ~u.pool[s].in /\ ~u.pool[s].held
    BY <1>1, <1>2, <2>1, <2>2, EntryIs
  <2> HIDE DEF v
  <2>5. InOrder(v)
    BY <2>2, <2>3, <2>4, EntryChanges
  <2> QED BY <1>3, <2>1, <2>5
<1>7. ASSUME AddServer(s) PROVE InOrder(ServersNow)'
  <2> DEFINE e == [in |-> TRUE, held |-> TRUE, items |-> <<>>]
             v == At(w, s, w.tcp[s], w.xmpp[s], e)
  <2>1. xmpp[s] # "none" /\ ~pool[s].in /\ pool' = [pool EXCEPT ![s] = e]
        /\ UNCHANGED <<listener, xmpp, published, publisher>>
    BY <1>7 DEF AddServer
  <2>2. e \in Entries /\ Items(e) = {} /\ e.in /\ e.held /\ e.items = <<>>
    BY NewEntry
  <2> HIDE DEF e
  <2>3. Items(w.pool[s]) = {}
    BY <1>1, <1>2, <2>1
  <2>4. InOrder(v)
    BY <1>1, <1>2, <2>1, <2>2, <2>3, EntryChanges
  <2>5. v.tcp = w.tcp /\ v.xmpp = w.xmpp /\ v.published = w.published /\ v.pool = [w.pool EXCEPT ![s] = e]
    BY <1>4 DEF At
  <2> HIDE DEF v
  <2> QED BY <1>1, <2>1, <2>4, <2>5, BecomesInOrder
<1>8. ASSUME RemoveServer(s) PROVE InOrder(ServersNow)'
  <2>1. InOrder(EntriesFree(w, {s}))
    BY <1>1, FreeIsInOrder
  <2> QED BY <1>3, <1>8, <2>1 DEF RemoveServer, w
<1>9. ASSUME CreateServer(s) PROVE InOrder(ServersNow)'
  <2> DEFINE e == [in |-> TRUE, held |-> TRUE, items |-> <<0>>]
  <2>1. /\ listener[s].status = "CLOSED" /\ xmpp[s] = "none" /\ ~pool[s].in
        /\ UNCHANGED publisher
        /\ \E u \in Bound(w, s) : ServersBecome([u EXCEPT !.xmpp[s] = "CLOSED", !.pool[s] = e])
    BY <1>9 DEF CreateServer, w
  <2>2. PICK u \in Bound(w, s) : ServersBecome([u EXCEPT !.xmpp[s] = "CLOSED", !.pool[s] = e])
    BY <2>1
  <2>3. PICK p \in Nat \ {0} : u = At(w, s, [status |-> "BOUND", port |-> p], w.xmpp[s], w.pool[s])
    BY <1>2, BoundIs
  <2>4. e \in Entries /\ Items(e) = {} /\ e.in /\ e.held
    BY NewEntry
  <2> HIDE DEF e
  <2> DEFINE l == [status |-> "BOUND", port |-> p]
             f == [u EXCEPT !.xmpp[s] = "CLOSED"]
             v == At(w, s, l, "CLOSED", e)
  <2>5. l \in Listeners /\ l.status = "BOUND" /\ l.port # 0
    BY DEF Listeners
  <2> HIDE DEF l
  <2>6. [u EXCEPT !.xmpp[s] = "CLOSED", !.pool[s] = e] = v
    <3>1. u = [tcp |-> [w.tcp EXCEPT ![s] = l], xmpp |-> w.xmpp, pool |-> w.pool, published |-> w.published]
      BY <1>4, <2>3 DEF At, l
    <3>2. f = [tcp |-> [w.tcp EXCEPT ![s] = l], xmpp |-> [w.xmpp EXCEPT ![s] = "CLOSED"],
               pool |-> w.pool, published |-> w.published]
      BY <3>1
    <3>3. [u EXCEPT !.xmpp[s] = "CLOSED", !.pool[s] = e] = [f EXCEPT !.pool[s] = e]
      OBVIOUS
    <3> HIDE DEF f
    <3>4. [f EXCEPT !.pool[s] = e] = v
      BY <3>2 DEF At
    <3> QED BY <3>3, <3>4
  <2>7. Items(w.pool[s]) = {}
    BY <1>1, <1>2, <2>1
  <2>8. InOrder(v)
    BY <1>1, <2>4, <2>5, <2>7, EntryChanges DEF XmppStatus
  <2> QED BY <1>3, <2>1, <2>2, <2>6, <2>8
<1> QED BY <1>5, <1>6, <1>7, <1>8, <1>9

\* A publisher more.
LEMMA AddLocalPublisherStep ==
  ASSUME InOrder(ServersNow), NEW s \in Servers, AddLocalPublisher(s)
  PROVE  InOrder(ServersNow)'
<1> DEFINE w == ServersNow
           old == w.pool[s]
           e == [old EXCEPT !.items = <<0>> \o old.items]
           u == [w EXCEPT !.pool[s].items = <<0>> \o @]
           v == At(w, s, w.tcp[s], w.xmpp[s], e)
<1>1. /\ w.tcp = listener /\ w.xmpp = xmpp /\ w.pool = pool /\ w.published = published
      /\ InOrder(w)
  BY DEF ServersNow
<1>2. /\ pool[s].in /\ UNCHANGED publisher
      /\ ServersBecome(IF xmpp[s] = "OPEN" THEN PublishWith(u, s, 1) ELSE u)
  BY DEF AddLocalPublisher
<1> HIDE DEF w
<1>3. /\ w \in Worlds /\ Apart(w) /\ Announced(w.published)
      /\ \A t \in Servers : Kept(w, t) /\ Matching(w, t)
  BY <1>1 DEF InOrder
<1>4. /\ w.tcp[s] \in Listeners /\ old \in Entries /\ old.items \in Seq(Nat)
      /\ w.xmpp[s] \in {"none", "CLOSED", "OPEN"}
      /\ w.pool \in [Servers -> Entries]
  BY <1>3 DEF Worlds, Entries
<1> DEFINE items == <<0>> \o old.items
<1>5. /\ items \in Seq(Nat) /\ DOMAIN items = 1 .. Len(old.items) + 1 /\ items[1] = 0
      /\ \A k \in 2 .. Len(old.items) + 1 : k - 1 \in DOMAIN old.items /\ items[k] = old.items[k - 1]
      /\ \A k \in DOMAIN old.items : k + 1 \in DOMAIN items /\ items[k + 1] = old.items[k]
      /\ Len(old.items) \in Nat /\ DOMAIN old.items = 1 .. Len(old.items)
  <2>1. <<0>> \in Seq(Nat) /\ Len(<<0>>) = 1 /\ <<0>>[1] = 0
    OBVIOUS
  <2> HIDE DEF old
  <2> QED BY <1>4, <2>1
<1> HIDE DEF items
<1>6. /\ e \in Entries /\ e.items = items /\ e.in = old.in /\ e.held = old.held
  <2>1. old = [in |-> old.in, held |-> old.held, items |-> old.items]
    BY <1>4 DEF Entries
  <2>2. e = [old EXCEPT !.items = items]
    BY DEF items
  <2> HIDE DEF old, e
  <2>3. e = [in |-> old.in, held |-> old.held, items |-> items]
    BY <2>1, <2>2
  <2>4. e \in Entries
    BY <1>4, <1>5, <2>3 DEF Entries
  <2> QED BY <2>3, <2>4
<1>7. u = v
  <2>1. \A d : [w EXCEPT !.pool[s] = d] = At(w, s, w.tcp[s], w.xmpp[s], d)
    BY <1>3, SameAt
  <2>2. [w EXCEPT !.pool[s] = e] = v
    BY <2>1
  <2>3. u = [w EXCEPT !.pool[s] = e]
    OBVIOUS
  <2> QED BY <2>2, <2>3
<1> HIDE DEF e, old, u
<1>8. Items(e) = Items(old)
  <2>1. \A i : i \in Items(e) <=> i # 0 /\ \E k \in DOMAIN e.items : e.items[k] = i
    BY <1>6, ItemsAre
  <2>2. \A i : i \in Items(old) <=> i # 0 /\ \E k \in DOMAIN old.items : old.items[k] = i
    BY <1>4, ItemsAre
  <2>3. ASSUME NEW i, i \in Items(e) PROVE i \in Items(old)
    <3>1. PICK k \in DOMAIN items : items[k] = i
      BY <1>6, <2>1, <2>3
    <3>2. i # 0 /\ k \in 2 .. Len(old.items) + 1
      BY <1>5, <2>1, <2>3, <3>1
    <3> QED BY <1>5, <2>2, <3>1, <3>2
  <2>4. ASSUME NEW i, i \in Items(old) PROVE i \in Items(e)
    <3>1. PICK k \in DOMAIN old.items : old.items[k] = i
      BY <2>2, <2>4
    <3>2. k + 1 \in DOMAIN e.items /\ e.items[k + 1] = i
      BY <1>5, <1>6, <3>1
    <3>3. i # 0
      BY <2>2, <2>4
    <3> QED BY <2>1, <3>2, <3>3
  <2> QED BY <2>3, <2>4
<1>9. Items(e) = Items(w.pool[s])
  BY <1>8 DEF old
<1>10. /\ v \in Worlds /\ Apart(v) /\ Announced(v.published)
       /\ v.tcp[s] = w.tcp[s] /\ v.xmpp[s] = w.xmpp[s] /\ v.pool[s] = e /\ v.published = w.published
       /\ \A t \in Servers \ {s} : Kept(v, t) /\ Matching(v, t)
  BY <1>3, <1>4, <1>6, <1>9, ChangedAt
<1> HIDE DEF v
<1>11. old.in /\ e.in
  BY <1>1, <1>2, <1>6 DEF old
<1>12. ASSUME NEW z, InOrder(z), ServersBecome(z) PROVE InOrder(ServersNow)'
  BY <1>2, <1>12, BecomesInOrder DEF ServersBecome
<1>13. CASE xmpp[s] # "OPEN"
  <2>1. Kept(v, s) /\ Matching(v, s)
    <3>1. Kept(w, s) /\ Matching(w, s) /\ w.xmpp[s] # "OPEN"
      BY <1>1, <1>3, <1>13
    <3> QED BY <1>6, <1>9, <1>10, <1>11, <3>1 DEF Kept, Matching, old
  <2>2. InOrder(v)
    BY <1>10, <2>1 DEF InOrder
  <2> QED BY <1>2, <1>7, <1>12, <1>13, <2>2
<1>14. CASE xmpp[s] = "OPEN"
  <2>1. Kept(w, s) /\ Matching(w, s) /\ w.xmpp[s] = "OPEN"
    BY <1>1, <1>3, <1>14
  <2>2. /\ old.held /\ w.tcp[s].status = "OPEN" /\ w.tcp[s].port # 0 /\ AtPort(w, s)
        /\ 0 \notin ToSet(old.items) /\ IsInjective(old.items)
    BY <1>11, <2>1 DEF Kept, Matching, XmppStatus, old
  <2>3. \A k \in DOMAIN old.items : old.items[k] # 0
    BY <1>4, <2>2, ItemsAre
  <2>4. \A k \in DOMAIN items : k = 1 \/ (k \in 2 .. Len(old.items) + 1 /\ items[k] # 0)
    <3> SUFFICES ASSUME NEW k \in DOMAIN items, k # 1
                 PROVE  k \in 2 .. Len(old.items) + 1 /\ items[k] # 0
      OBVIOUS
    <3>1. k \in 2 .. Len(old.items) + 1
      BY <1>5
    <3>2. k - 1 \in DOMAIN old.items /\ items[k] = old.items[k - 1]
      BY <1>5, <3>1
    <3> QED BY <2>3, <3>1, <3>2
  <2>5. ASSUME NEW a \in DOMAIN items, NEW b \in DOMAIN items, items[a] = items[b], items[a] # 0
        PROVE  a = b
    <3>1. a \in 2 .. Len(old.items) + 1 /\ b \in 2 .. Len(old.items) + 1
      BY <1>5, <2>4, <2>5
    <3>2. a - 1 \in DOMAIN old.items /\ b - 1 \in DOMAIN old.items /\ old.items[a - 1] = old.items[b - 1]
      BY <1>5, <2>5, <3>1
    <3>3. a - 1 = b - 1
      BY <2>2, <3>2 DEF IsInjective
    <3> QED BY <1>5, <3>1, <3>3
  <2>6. Filling(v, s)
    <3>1. AtPort(v, s)
      BY <1>9, <1>10, <2>2 DEF AtPort
    <3> QED BY <1>6, <1>10, <1>11, <2>1, <2>2, <2>5, <3>1 DEF Filling
  <2>7. 1 \in DOMAIN v.pool[s].items
    BY <1>5, <1>6, <1>10
  <2> DEFINE z == PublishWith(v, s, 1)
  <2>8. /\ Filling(z, s) /\ DOMAIN z.pool[s].items = DOMAIN v.pool[s].items
        /\ z.pool[s].items[1] # 0
        /\ \A j \in DOMAIN v.pool[s].items : v.pool[s].items[j] # 0 => z.pool[s].items[j] # 0
    BY <2>6, <2>7, PublishWithFills
  <2> HIDE DEF z
  <2>9. ASSUME NEW j \in DOMAIN z.pool[s].items PROVE z.pool[s].items[j] # 0
    <3>1. j \in DOMAIN items /\ v.pool[s].items = items
      BY <1>6, <1>10, <2>8
    <3> QED BY <2>4, <2>8, <3>1
  <2>10. InOrder(z)
    BY <2>8, <2>9, FilledIsInOrder
  <2> QED BY <1>2, <1>7, <1>12, <1>14, <2>10 DEF z
<1> QED BY <1>13, <1>14

\* What the publisher and the Avahi daemon do to the services changes none of their ports.
LEMMA PublisherSteps ==
  ASSUME InOrder(ServersNow),
         \/ PublisherRuns \/ PublisherRegisters \/ PublisherFails
         \/ \E i \in DOMAIN published : EntryGroup(i)
  PROVE  InOrder(ServersNow)'
<1> DEFINE w == ServersNow
           Groups == {"none", "registering", "established"}
<1>1. /\ w.tcp = listener /\ w.xmpp = xmpp /\ w.pool = pool /\ w.published = published
      /\ w = [tcp |-> listener, xmpp |-> xmpp, pool |-> pool, published |-> published]
      /\ InOrder(w)
  BY DEF ServersNow
<1> HIDE DEF w
<1>2. /\ w \in Worlds /\ Apart(w) /\ Announced(published)
      /\ \A s \in Servers : Kept(w, s) /\ Matching(w, s)
      /\ published \in Catalogs
  BY <1>1 DEF InOrder, Worlds
<1>3. /\ published \in [DOMAIN published -> Announcements]
      /\ DOMAIN published \subseteq Ids /\ IsFiniteSet(DOMAIN published)
  BY <1>2, CatalogIs
<1>4. /\ UNCHANGED <<listener, xmpp, pool>>
      /\ published' \in [DOMAIN published -> Announcements]
      /\ \A i \in DOMAIN published : published'[i].port = published[i].port
      /\ Announced(published)'
  <2>1. ASSUME NEW a \in Announcements
        PROVE  /\ PublishItem(a) \in Announcements /\ PublishItem(a).port = a.port
               /\ PublishItem(a).group # "none"
               /\ UnpublishItem(a) \in Announcements /\ UnpublishItem(a).port = a.port
               /\ UnpublishItem(a).group = "none"
    <3>1. a = [port |-> a.port, group |-> a.group, failed |-> a.failed]
          /\ a.port \in Nat /\ a.group \in Groups
      BY DEF Announcements
    <3> DEFINE no == FALSE
    <3>2. no \in BOOLEAN /\ a.failed \in BOOLEAN
      BY DEF Announcements
    <3>3. PublishItem(a)
            = IF a.group = "none" THEN [a EXCEPT !.group = "registering", !.failed = no] ELSE a
      BY DEF PublishItem
    <3> HIDE DEF no
    <3> DEFINE b == [a EXCEPT !.group = "registering"]
    <3>4. b = [port |-> a.port, group |-> "registering", failed |-> a.failed]
      BY <3>1
    <3>5. [a EXCEPT !.group = "registering", !.failed = no]
            = [port |-> a.port, group |-> "registering", failed |-> no]
      <4>1. [a EXCEPT !.group = "registering", !.failed = no] = [b EXCEPT !.failed = no]
        OBVIOUS
      <4> HIDE DEF b
      <4>2. [b EXCEPT !.failed = no] = [port |-> a.port, group |-> "registering", failed |-> no]
        BY <3>4
      <4> QED BY <4>1, <4>2
    <3>6. PublishItem(a) \in {[port |-> a.port, group |-> "registering", failed |-> no], a}
          /\ (PublishItem(a) = a => a.group # "none")
      BY <3>3, <3>5
    <3>7. UnpublishItem(a) = [port |-> a.port, group |-> "none", failed |-> a.failed]
      BY <3>1 DEF UnpublishItem
    <3> QED BY <3>1, <3>2, <3>6, <3>7 DEF Announcements
  <2>2. CASE PublisherRuns
    <3>1. /\ publisher' = "running" /\ UNCHANGED <<listener, xmpp, pool>>
          /\ published' = [i \in DOMAIN published |-> PublishItem(published[i])]
      BY <2>2 DEF PublisherRuns, PublishAll
    <3>2. \A i \in DOMAIN published :
            published'[i] \in Announcements /\ published'[i].port = published[i].port
            /\ published'[i].group # "none"
      BY <1>3, <2>1, <3>1
    <3>3. published' \in [DOMAIN published -> Announcements] /\ DOMAIN published' = DOMAIN published
      BY <3>1, <3>2
    <3> QED BY <3>1, <3>2, <3>3 DEF Announced
  <2>3. CASE PublisherRegisters
    <3>1. publisher' = "registering" /\ UNCHANGED <<listener, xmpp, pool, published>>
      BY <2>3 DEF PublisherRegisters
    <3> QED BY <1>3, <3>1 DEF Announced
  <2>4. CASE PublisherFails
    <3>1. /\ publisher' \in {"connecting", "disconnected"} /\ UNCHANGED <<listener, xmpp, pool>>
          /\ published' = [i \in DOMAIN published |-> UnpublishItem(published[i])]
      BY <2>4 DEF PublisherFails, UnpublishAll
    <3>2. \A i \in DOMAIN published :
            published'[i] \in Announcements /\ published'[i].port = published[i].port
            /\ published'[i].group = "none"
      BY <1>3, <2>1, <3>1
    <3>3. published' \in [DOMAIN published -> Announcements] /\ DOMAIN published' = DOMAIN published
      BY <3>1, <3>2
    <3> QED BY <3>1, <3>2, <3>3 DEF Announced
  <2>5. CASE \E i \in DOMAIN published : EntryGroup(i)
    <3>1. PICK i \in DOMAIN published : EntryGroup(i)
      BY <2>5
    <3> DEFINE a == published[i]
    <3>2. a \in Announcements /\ a.group # "none"
      BY <1>3, <3>1 DEF EntryGroup
    <3>3. /\ UNCHANGED <<listener, xmpp, pool, publisher>>
          /\ \E item \in {[a EXCEPT !.group = "established"], [a EXCEPT !.group = "registering"],
                           [UnpublishItem(a) EXCEPT !.failed = TRUE]} :
               published' = [published EXCEPT ![i] = item]
      BY <3>1 DEF EntryGroup
    <3>4. PICK item \in {[a EXCEPT !.group = "established"], [a EXCEPT !.group = "registering"],
                         [UnpublishItem(a) EXCEPT !.failed = TRUE]} :
            published' = [published EXCEPT ![i] = item]
      BY <3>3
    <3> HIDE DEF a
    <3>5. /\ item \in Announcements /\ item.port = a.port
          /\ item.group # "none" \/ item.failed
      <4>1. a = [port |-> a.port, group |-> a.group, failed |-> a.failed]
            /\ a.port \in Nat /\ a.failed \in BOOLEAN
        BY <3>2 DEF Announcements
      <4>2. CASE item = [a EXCEPT !.group = "established"]
        <5>1. item = [port |-> a.port, group |-> "established", failed |-> a.failed]
          BY <4>1, <4>2
        <5> QED BY <4>1, <5>1 DEF Announcements
      <4>3. CASE item = [a EXCEPT !.group = "registering"]
        <5>1. item = [port |-> a.port, group |-> "registering", failed |-> a.failed]
          BY <4>1, <4>3
        <5> QED BY <4>1, <5>1 DEF Announcements
      <4>4. CASE item = [UnpublishItem(a) EXCEPT !.failed = TRUE]
        <5> DEFINE yes == TRUE
                   b == UnpublishItem(a)
        <5>1. item = [b EXCEPT !.failed = yes]
          BY <4>4
        <5>2. yes \in BOOLEAN
          OBVIOUS
        <5> HIDE DEF yes
        <5>3. b = [port |-> a.port, group |-> "none", failed |-> a.failed]
          BY <4>1 DEF UnpublishItem
        <5> HIDE DEF b
        <5>4. item = [port |-> a.port, group |-> "none", failed |-> yes]
          BY <5>1, <5>3
        <5>5. item \in Announcements /\ item.port = a.port
          <6>1. "none" \in Groups
            OBVIOUS
          <6> QED BY <4>1, <5>4, <5>2, <6>1 DEF Announcements
        <5>6. item.failed = yes
          BY <5>4
        <5> QED BY <5>5, <5>6 DEF yes
      <4> QED BY <3>4, <4>2, <4>3, <4>4
    <3>6. /\ DOMAIN published' = DOMAIN published /\ published'[i] = item
          /\ \A j \in DOMAIN published \ {i} : published'[j] = published[j]
          /\ published' \in [DOMAIN published -> Announcements]
      BY <1>3, <3>4, <3>5
    <3>7. publisher \notin {"connecting", "disconnected"}
      BY <1>2, <3>2 DEF Announced, a
    <3>8. Announced(published)'
      BY <1>2, <3>3, <3>5, <3>6, <3>7 DEF Announced
    <3> QED BY <3>3, <3>5, <3>6, <3>8 DEF a
  <2> QED BY <2>2, <2>3, <2>4, <2>5
<1> DEFINE v == [tcp |-> listener, xmpp |-> xmpp, pool |-> pool, published |-> published']
<1>5. v.tcp = w.tcp /\ v.xmpp = w.xmpp /\ v.pool = w.pool /\ v.published = published'
  BY <1>1
<1>6. DOMAIN published' = DOMAIN published /\ published' \in Catalogs
  <2>1. DOMAIN published' = DOMAIN published
    BY <1>4
  <2> QED BY <1>3, <1>4, <2>1, CatalogIs
<1>7. v \in Worlds
  BY <1>1, <1>2, <1>6 DEF Worlds
<1>8. ServersNow' = v
  BY <1>4 DEF ServersNow
<1> HIDE DEF v
<1>9. Apart(v)
  BY <1>1, <1>2, <1>5, <1>6 DEF Apart
<1>10. ASSUME NEW s \in Servers PROVE Kept(v, s) /\ Matching(v, s)
  <2>1. \A i \in Items(w.pool[s]) : i \in DOMAIN published
    BY <1>1, <1>2 DEF Apart
  <2>2. AtPort(w, s) => AtPort(v, s)
    BY <1>1, <1>4, <1>5, <2>1 DEF AtPort
  <2> QED BY <1>2, <1>5, <2>2 DEF Kept, Matching
<1>11. (ServersNow \in Worlds)' /\ Apart(ServersNow)'
  BY <1>7, <1>8, <1>9
<1>12. Announced(ServersNow.published)'
  BY <1>4 DEF ServersNow, Announced
<1>13. (\A s \in Servers : Kept(ServersNow, s) /\ Matching(ServersNow, s))'
  BY <1>8, <1>10
<1> QED BY <1>11, <1>12, <1>13 DEF InOrder

\* Every step.
LEMMA ServersStep ==
  ASSUME ServersAssumption, InOrder(ServersNow), [ServersNext]_servers
  PROVE  InOrder(ServersNow)'
<1>1. /\ ServersNow.tcp = listener /\ ServersNow.xmpp = xmpp /\ ServersNow.pool = pool
      /\ ServersNow.published = published
  BY DEF ServersNow
<1>2. ASSUME UNCHANGED <<listener, xmpp, pool, published, publisher>> PROVE InOrder(ServersNow)'
  <2> DEFINE w == ServersNow
  <2>1. InOrder(w) /\ listener' = w.tcp /\ xmpp' = w.xmpp /\ pool' = w.pool /\ published' = w.published
    BY <1>1, <1>2
  <2> HIDE DEF w
  <2> QED BY <1>2, <2>1, BecomesInOrder
<1>3. CASE DisposePool
  <2> DEFINE gone == {s \in Servers : pool[s].in}
  <2>1. ServersBecome(EntriesFree(ServersNow, gone)) /\ UNCHANGED publisher
    BY <1>3 DEF DisposePool
  <2>2. gone \in SUBSET Servers
    OBVIOUS
  <2> HIDE DEF gone
  <2> DEFINE v == EntriesFree(ServersNow, gone)
  <2>3. InOrder(v) /\ ServersBecome(v)
    BY <2>1, <2>2, FreeIsInOrder
  <2> HIDE DEF v
  <2> QED BY <2>1, <2>3, BecomesInOrder DEF ServersBecome
<1>4. CASE PublisherRuns \/ PublisherRegisters \/ PublisherFails
           \/ \E i \in DOMAIN published : EntryGroup(i)
  BY <1>4, PublisherSteps
<1>5. CASE \E p \in Ports : OtherPorts(p)
  BY <1>2, <1>5 DEF OtherPorts
<1>6. CASE \E p \in Ports, s \in Servers : SetLocalPort(s, p)
  BY <1>6, ListenerSteps
<1>7. CASE \E s \in Servers : Bind(s) \/ OpenServer(s) \/ CloseServer(s) \/ ServerIo(s)
  BY <1>7, ListenerSteps
<1>8. CASE \E s \in Servers : Arrive(s)
  BY <1>2, <1>8 DEF Arrive
<1>9. CASE \E s \in Servers : CreateXmpp(s) \/ DisposeXmpp(s) \/ AddServer(s)
                              \/ RemoveServer(s) \/ CreateServer(s)
  BY <1>9, PoolSteps
<1>10. CASE \E s \in Servers : AddLocalPublisher(s)
  BY <1>10, AddLocalPublisherStep
<1>11. CASE UNCHANGED servers
  BY <1>2, <1>11 DEF servers
<1> QED BY <1>3, <1>4, <1>5, <1>6, <1>7, <1>8, <1>9, <1>10, <1>11 DEF ServersNext

\* What is known implies what is promised.
LEMMA InOrderIsExact ==
  ASSUME InOrder(ServersNow)
  PROVE  ServersExact
<1>1. /\ ServersNow.tcp = listener /\ ServersNow.xmpp = xmpp /\ ServersNow.pool = pool
      /\ ServersNow.published = published
  BY DEF ServersNow
<1>2. /\ Apart(ServersNow) /\ Announced(published)
      /\ \A s \in Servers : Kept(ServersNow, s) /\ Matching(ServersNow, s)
  BY <1>1 DEF InOrder
<1>3. StatusFollows
  BY <1>1, <1>2 DEF StatusFollows, Matching
<1>4. AnnouncedExact
  BY <1>2 DEF AnnouncedExact, Announced
<1>5. DOMAIN published = UNION {Items(pool[s]) : s \in Servers}
  BY <1>1, <1>2 DEF Apart
<1>6. ASSUME NEW s \in Servers
      PROVE  /\ Items(pool[s]) = {} \/ (pool[s].in /\ xmpp[s] = "OPEN" /\ listener[s].status = "OPEN")
             /\ pool[s].in /\ xmpp[s] = "OPEN" =>
                  /\ 0 \notin ToSet(pool[s].items) /\ IsInjective(pool[s].items)
                  /\ \A i \in Items(pool[s]) : published[i].port = listener[s].port /\ listener[s].port # 0
             /\ \A t \in Servers \ {s} : Items(pool[s]) \cap Items(pool[t]) = {}
  <2>1. xmpp[s] = "OPEN" => listener[s].status = "OPEN"
    BY <1>1, <1>2 DEF Matching, XmppStatus
  <2>2. Kept(ServersNow, s)
    BY <1>2
  <2>3. /\ Items(pool[s]) = {} \/ (pool[s].in /\ xmpp[s] = "OPEN")
        /\ pool[s].in /\ xmpp[s] = "OPEN" =>
             0 \notin ToSet(pool[s].items) /\ IsInjective(pool[s].items) /\ AtPort(ServersNow, s)
    BY <1>1, <2>2 DEF Kept
  <2>4. AtPort(ServersNow, s) =>
          \A i \in Items(pool[s]) : published[i].port = listener[s].port /\ listener[s].port # 0
    BY <1>1 DEF AtPort
  <2>5. \A t \in Servers \ {s} : Items(pool[s]) \cap Items(pool[t]) = {}
    BY <1>1, <1>2 DEF Apart
  <2> QED BY <2>1, <2>3, <2>4, <2>5
<1>7. PublishedExact
  BY <1>5, <1>6 DEF PublishedExact
<1> QED BY <1>3, <1>4, <1>7 DEF ServersExact

\* What is published is always what can be reached, whatever the servers and their ports
\* are, however often and in whatever order servers are opened, closed, moved, added,
\* removed and published, and whenever sockets or the Avahi daemon fail.
THEOREM ServersExactAlways ==
  ASSUME ServersAssumption
  PROVE  ServersSpec => []ServersExact
<1>1. ServersInit => InOrder(ServersNow)
  BY NothingIsInOrder
<1>2. InOrder(ServersNow) /\ [ServersNext]_servers => InOrder(ServersNow)'
  BY ServersStep
<1>3. InOrder(ServersNow) => ServersExact
  BY InOrderIsExact
<1> QED BY <1>1, <1>2, <1>3, PTL DEF ServersSpec
==============================================================================
