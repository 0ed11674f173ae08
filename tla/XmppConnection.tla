----------------------------- MODULE XmppConnection -----------------------------
(***************************************************************************)
(* One end of a connection, as InfXmppConnection keeps it, a client's or   *)
(* a server's; and the two of them, with the TCP connection in between     *)
(* and the programs that use them. An end negotiates TLS and SASL before   *)
(* messages may be sent, reports which of them the TCP connection has      *)
(* sent, and closes the stream in agreement with the other end.  What      *)
(* travels is a sequence of units: the two halves of a stream's header,    *)
(* whole elements, steps of the TLS handshake, and the final alert of TLS  *)
(* ("bye").  (inf-xmpp-connection.c, and what it uses of inf-tcp-          *)
(* connection.c, inf-sasl-context.c, libxml2 and GnuTLS)                   *)
(***************************************************************************)
EXTENDS Integers, SequencesExt, FiniteSets

\* What the program does when it is called back: about the certificate, about
\* a failed authentication, and about a message that has been sent.
NewConnection(site, policy, program) ==
  [site       |-> site,      \* "client" or "server"
   policy     |-> policy,
   program    |-> program,
   status     |-> IF site = "client" THEN "CONNECTING" ELSE "CLOSED",
   tls        |-> FALSE,     \* there is a GnuTLS session
   sasl       |-> "none",    \* or "idle", or "busy" while its thread makes a step
   mechanisms |-> FALSE,     \* those of the server are known
   parser     |-> "none",    \* or how far it has come
   parsing    |-> FALSE,
   position   |-> 0,
   messages   |-> <<>>,      \* whose sending is still to be reported
   tcp        |-> "connecting",
   queue      |-> <<>>,      \* what the TCP connection has not sent yet
   room       |-> 0,         \* units that the socket still takes now
   out        |-> <<>>,      \* what it has taken
   submitted  |-> 0,         \* history: messages passed to send,
   reported   |-> <<>>,      \* reported as sent,
   received   |-> <<>>,      \* and received from the other end
   trusted    |-> FALSE,     \* the certificate was accepted,
   closed     |-> "no",      \* and it was closed from outside the parser in this status
   failure    |-> "none"]

\* An assertion fails: the first one counts.
Fail(x, what) == IF x.failure = "none" THEN [x EXCEPT !.failure = what] ELSE x
Require(x, condition, what) == IF condition THEN x ELSE Fail(x, what)

Unit(x, type) == [type |-> type, tls |-> x.tls]

------------------------------------------------------------------------------
(* The end of the TCP connection *)

\* A message that was not reported yet never is.
Clear(x) ==
  [x EXCEPT !.sasl = "none", !.mechanisms = FALSE, !.tls = FALSE,
            !.parser = "none", !.messages = <<>>]

\* notify_status_cb.  While the parser runs it is received_cb that clears.
TcpClose(x) ==
  IF x.tcp = "closed" THEN x
  ELSE [(IF x.parsing THEN x ELSE Clear(x)) EXCEPT
         !.tcp = "closed", !.queue = <<>>, !.status = "CLOSED", !.position = 0]

------------------------------------------------------------------------------
(* Sending.  "sent" may be emitted while something is being sent, and the    *)
(* program may send a further message when it is told of one.                *)

\* Mutant: a message is reported when more than its last character has left.
Flagged_OneShort(x, n) ==
  LET flag(m) == IF m.sent THEN m
                 ELSE IF m.position < n THEN [m EXCEPT !.sent = TRUE]
                 ELSE [m EXCEPT !.position = @ - n]
  IN  [x EXCEPT !.position = @ - n, !.messages = [i \in DOMAIN @ |-> flag(@[i])]]

\* sent_cb, up to the loop.
Flagged(x, n) ==
  LET flag(m) == IF m.sent THEN m
                 ELSE IF m.position <= n THEN [m EXCEPT !.sent = TRUE]
                 ELSE [m EXCEPT !.position = @ - n]
  IN  [Require(x, n <= x.position, "sent more than was to be sent") EXCEPT
        !.position = @ - n, !.messages = [i \in DOMAIN @ |-> flag(@[i])]]

Message(x) == [type |-> "message", tls |-> x.tls, number |-> x.submitted + 1]
Waiting(x, what) == [what |-> what, position |-> x.position, sent |-> FALSE]

Taken(x) == x.queue = <<>> /\ x.room > 0
Put(x, unit) ==
  IF Taken(x) THEN [x EXCEPT !.out = Append(@, unit), !.room = @ - 1, !.position = @ + 1]
  ELSE [x EXCEPT !.queue = Append(@, unit), !.position = @ + 1]

\* The program sends from its handler of "sent": sent_cb, called recursively,
\* leaves the reports to the call that is running.
Wrote(x, n) ==
  [Put(x, Message(x)) EXCEPT !.submitted = n, !.program.again = @ - 1]
Enqueued(x, n) ==
  IF x.position = 0 THEN [x EXCEPT !.reported = Append(@, n)]
  ELSE [x EXCEPT !.messages = Append(@, Waiting(x, n))]
SendFromSent(x) ==
  LET n == x.submitted + 1
  IN  Enqueued(IF Taken(x) THEN Flagged(Wrote(x, n), 1) ELSE Wrote(x, n), n)

Reported(x, n) ==
  LET y == [x EXCEPT !.reported = Append(@, n)]
  IN  IF y.program.again > 0 /\ y.status = "READY" THEN SendFromSent(y) ELSE y

\* The function of a message whose last character has been sent.
Close_ == 0
CallSent(x, what) == IF what = Close_ THEN TcpClose(x) ELSE Reported(x, what)

\* The loop of sent_cb: the function may have cleared the connection.
Popped(x) == IF x.messages = <<>> THEN x ELSE [x EXCEPT !.messages = Tail(@)]
ReportSent(x) ==
  LET step(y, i) == IF y.messages = <<>> \/ ~Head(y.messages).sent THEN y
                    ELSE Popped(CallSent(y, Head(y.messages).what))
  IN  FoldLeft(step, x, [i \in 1 .. (Len(x.messages) + x.program.again) |-> i])

\* A call from within the loop leaves the reports to the one that is running.
SentCb(x, n) ==
  LET nothing == x.messages = <<>> \/ Head(x.messages).sent
      after(y) == IF nothing THEN y ELSE ReportSent(y)
  IN  after(Flagged(x, n))

TcpSend(x, unit) ==
  IF x.tcp # "connected" THEN [x EXCEPT !.position = @ + 1]
  ELSE IF Taken(x) THEN SentCb(Put(x, unit), 1)
  ELSE Put(x, unit)

PushMessage(x, what) ==
  IF x.position = 0 THEN CallSent(x, what)
  ELSE [x EXCEPT !.messages = Append(@, Waiting(x, what))]

SendUnit(x, unit) ==
  TcpSend(Require(x, x.status # "HANDSHAKING", "send while handshaking"), unit)
SendChars(x, type) == SendUnit(x, Unit(x, type))

\* inf_xml_connection_send
Send(x) ==
  LET n == x.submitted + 1
      y == SendUnit(Require(x, x.status = "READY", "send while not ready"), Message(x))
  IN  PushMessage([y EXCEPT !.submitted = n], n)

SendHeader(x) == SendChars(SendChars(x, "open"), "stream")

------------------------------------------------------------------------------
(* Closing *)

\* The stream is closed, without waiting for the other end.  Who calls this
\* from a callback of the parser leaves the rest to received_cb.
Silent(x) == x.status \in {"HANDSHAKING", "ENCRYPTION_REQUESTED"}
SendAbort(x) == IF x.status = "AUTHENTICATING" THEN SendChars(x, "abort") ELSE x
SendEnd(x) ==
  IF Silent(x) \/ x.status \in {"CONNECTED", "AUTH_CONNECTED", "CLOSING_STREAM"} THEN x
  ELSE SendChars(x, "/stream")
SendBye(x) == IF x.tls /\ ~Silent(x) THEN TcpSend(x, Unit(x, "bye")) ELSE x
Ended(x) == [(IF x.parsing THEN x ELSE Clear(x)) EXCEPT !.status = "CLOSING_GNUTLS"]

Terminate(x) ==
  Ended(SendBye(SendEnd(SendAbort(
    Require(x, x.status \notin {"CLOSED", "CLOSING_GNUTLS", "CONNECTING"}, "terminate what is closed")))))

TerminateError(x) ==
  Terminate(SendChars(Require(x, x.parser # "none" /\ ~Silent(x), "error without a stream"), "error"))

\* The other end is asked to close the stream, too.
Deinitiate(x) ==
  LET y == [Require(x, x.status \notin {"CLOSING_GNUTLS", "CLOSING_STREAM", "CONNECTED",
                                        "AUTH_CONNECTED"}, "close what is closing")
              EXCEPT !.mechanisms = FALSE]
  IN  [SendChars(IF y.sasl # "none" THEN SendAbort(y) ELSE y, "/stream")
         EXCEPT !.status = "CLOSING_STREAM"]

\* inf_xml_connection_close.  Terminate alone leaves the TCP connection open.
Closed(x) ==
  CASE x.status \in {"CLOSING_STREAM", "CLOSING_GNUTLS", "CLOSED"} ->
         Fail(x, "closed twice")
    [] x.status = "CONNECTING" -> TcpClose(x)
    [] x.status \in {"CONNECTED", "AUTH_CONNECTED", "AUTHENTICATING"} ->
         Terminate(Require(x, ~x.parsing, "close in a callback"))
    [] x.status \in {"HANDSHAKING", "ENCRYPTION_REQUESTED"} ->
         TcpClose([Require(x, x.tls, "close without a session") EXCEPT !.tls = FALSE])
    [] OTHER -> Deinitiate(x)
Close(x) == [Closed(x) EXCEPT !.closed = x.status]

------------------------------------------------------------------------------
(* Starting a stream, and TLS *)

\* The parser of an earlier stream is replaced.
Initiate(x) ==
  LET y == [Require(x, x.status \in {"CONNECTED", "AUTH_CONNECTED"}, "initiate a stream twice")
              EXCEPT !.parser = "fresh"]
  IN  IF x.site = "server" THEN y
      ELSE [SendHeader(y) EXCEPT
             !.status = IF @ = "CONNECTED" THEN "INITIATED" ELSE "AUTH_INITIATED"]

\* The TCP connection is established, or (server) the connection constructed.
Connected(x) == Initiate([x EXCEPT !.tcp = "connected", !.status = "CONNECTED"])

Verify_continue(x) == Initiate([x EXCEPT !.trusted = TRUE])
Verify_cancel(x) == Close(x)

HandshakeDone(x) ==
  LET y == [x EXCEPT !.status = "CONNECTED"]
  IN  CASE x.site = "server" \/ x.program.certificate = "ignored" -> Initiate(y)
        [] x.program.certificate = "accepted" -> Verify_continue(y)
        [] x.program.certificate = "refused" -> Verify_cancel(y)
        [] x.program.certificate = "asked" -> y   \* decided some time later

\* So that a closing tag is sent, the server pretends not to have started.
HandshakeFailed(x) ==
  LET y == [x EXCEPT !.tls = FALSE]
  IN  Terminate(IF x.site = "client" THEN y ELSE [y EXCEPT !.status = "INITIATED"])

\* gnutls_handshake, given what has arrived: four messages, of which each end
\* sends two.  It may fail when an end learns what the other one supports.
Handshake(x, type) ==
  LET able == ~x.program.incapable
      reply(answer) == TcpSend(x, [type |-> answer, tls |-> FALSE])
  IN  CASE x.site = "server" /\ type = "client hello" /\ able -> reply("server hello")
        [] x.site = "client" /\ type = "server hello" /\ able -> reply("client finished")
        [] type = (IF x.site = "server" THEN "client finished" ELSE "server finished") ->
             HandshakeDone(IF x.site = "server" THEN reply("server finished") ELSE x)
        [] OTHER -> HandshakeFailed(x)

TlsInit(x) ==
  LET y == [Require(x, ~x.tls, "two TLS sessions") EXCEPT !.tls = TRUE, !.status = "HANDSHAKING"]
  IN  IF x.site = "server" THEN y ELSE TcpSend(y, [type |-> "client hello", tls |-> FALSE])

------------------------------------------------------------------------------
(* SASL *)

SaslRequest(x) ==
  [Require(x, x.status = "AUTHENTICATING" /\ x.sasl = "idle", "step of no SASL session")
     EXCEPT !.sasl = "busy"]

SaslInit(x) ==
  LET started == [Require(x, x.sasl = "none", "two SASL sessions")
                    EXCEPT !.status = "AUTHENTICATING", !.sasl = "idle"]
  IN  IF x.site = "server" THEN SaslRequest(started) ELSE SendChars(started, "auth")

\* Mutant: the session that has failed is kept.
SaslFailed_KeepsSession(x) ==
  [x EXCEPT !.status = IF x.site = "client" THEN "AWAITING_FEATURES" ELSE "INITIATED"]

\* The client goes back to where it may try again, the server to where it waits
\* for that.  A success starts a new stream, now or at the end of received_cb.
SaslFailed(x) ==
  [x EXCEPT !.sasl = "none",
            !.status = IF x.site = "client" THEN "AWAITING_FEATURES" ELSE "INITIATED"]
SaslSucceeded(x) ==
  LET y == [Require(x, x.mechanisms = (x.site = "client"), "remote mechanisms")
              EXCEPT !.sasl = "none", !.status = "AUTH_CONNECTED", !.mechanisms = FALSE]
  IN  IF x.parsing THEN y ELSE Initiate(y)

SendAuthError(x) == SendChars(x, "failure")

\* The session's thread has made a step: it needs more, is done, or has failed.
SaslStepped(x, result) ==
  LET y == [Require(x, x.status = "AUTHENTICATING", "answer without authentication")
              EXCEPT !.sasl = "idle"]
  IN  CASE result = "error" /\ x.site = "client" ->
             [Terminate(SaslFailed(y)) EXCEPT !.closed = x.status]
        [] result = "error" /\ x.site = "server" -> SaslFailed(SendAuthError(y))
        [] result # "error" /\ x.site = "client" -> SendChars(y, "response")
        [] result = "more" /\ x.site = "server" -> SendChars(y, "challenge")
        [] result = "done" /\ x.site = "server" -> SaslSucceeded(SendChars(y, "success"))

\* reset_sasl_authentication: the session is gone, but not yet for the other end.
Reset(x) ==
  IF x.status # "AUTHENTICATING" \/ x.sasl = "none" THEN x
  ELSE [(IF x.site = "client" THEN SendChars(x, "abort") ELSE x) EXCEPT !.sasl = "none"]

------------------------------------------------------------------------------
(* Elements of the stream *)

Features(x) ==
  [type |-> "features", tls |-> x.tls,
   starttls |-> IF x.tls \/ x.status = "AUTH_INITIATED" \/ x.policy = "only unsecured" THEN "no"
                ELSE IF x.policy = "only tls" THEN "required" ELSE "offered",
   mechanisms |-> x.status = "INITIATED"]

SendFeatures(x) == SendUnit(x, Features(x))

\* The server knows no more to do after the second header.
ProcessConnected(x) ==
  LET initiated == IF x.status = "CONNECTED" THEN "INITIATED" ELSE "AUTH_INITIATED"
      after(y) == IF y.status = "AUTH_INITIATED" THEN [y EXCEPT !.status = "READY"] ELSE y
  IN  after(SendFeatures([SendHeader(x) EXCEPT !.status = initiated]))

ProcessInitiated(x, unit) ==
  LET secure == x.tls \/ x.policy = "only unsecured"
  IN  CASE ~secure /\ unit.type = "starttls" -> TlsInit(SendChars(x, "proceed"))
        [] ~secure /\ unit.type # "starttls" /\ x.policy = "only tls" -> TerminateError(x)
        [] unit.type = "auth" /\ (secure \/ x.policy # "only tls") -> SaslInit(x)
        [] OTHER -> TerminateError(x)

PrefersTls(x) == x.policy \in {"prefer tls", "only tls"}

ProcessFeatures(x, unit) ==
  CASE unit.type # "features" -> x
    [] unit.type = "features" /\ x.status = "AUTH_AWAITING_FEATURES" ->
         [x EXCEPT !.status = "READY"]
    [] unit.type = "features" /\ x.status # "AUTH_AWAITING_FEATURES" ->
         LET offered == unit.starttls # "no"
             must    == unit.starttls = "required"
         IN  CASE ~x.tls /\ ~offered /\ x.policy = "only tls" -> Deinitiate(x)
               [] ~x.tls /\ must /\ x.policy = "only unsecured" -> Deinitiate(x)
               [] ~x.tls /\ ((must /\ x.policy # "only unsecured") \/ (offered /\ PrefersTls(x))) ->
                    [SendChars(x, "starttls") EXCEPT !.status = "ENCRYPTION_REQUESTED"]
               [] OTHER -> IF unit.mechanisms
                           THEN SaslInit([Require(x, ~x.mechanisms, "features twice")
                                            EXCEPT !.mechanisms = TRUE])
                           ELSE Deinitiate(x)

ProcessEncryption(x, type) ==
  CASE type = "proceed" -> TlsInit(x)
    [] type = "failure" -> [x EXCEPT !.status = "CLOSING_STREAM"]
    [] OTHER -> x

\* The program may try again from its handler of the error.
AuthenticationFailed(x) ==
  LET y == SaslFailed(x)
  IN  IF y.program.retries = 0 THEN Deinitiate(y)
      ELSE SaslInit([y EXCEPT !.program.retries = @ - 1])

ProcessAuthentication(x, type) ==
  CASE x.site = "client" /\ type = "challenge" -> IF x.sasl = "none" THEN x ELSE SaslRequest(x)
    [] x.site = "client" /\ type = "failure"   -> AuthenticationFailed(x)
    [] x.site = "client" /\ type = "success"   -> SaslSucceeded(x)
    [] x.site = "server" /\ type = "response"  ->
         IF x.sasl = "none" THEN SendAuthError(SaslFailed(x)) ELSE SaslRequest(x)
    [] x.site = "server" /\ type = "abort"     -> SendAuthError(SaslFailed(x))
    [] OTHER -> x

\* A complete element within the stream.
Element(x, unit) ==
  CASE unit.type = "error" /\ x.status \notin {"HANDSHAKING", "CLOSING_GNUTLS", "CLOSED"} -> x
    [] unit.type # "error" /\ x.status = "INITIATED" -> ProcessInitiated(x, unit)
    [] unit.type # "error" /\ x.status \in {"AWAITING_FEATURES", "AUTH_AWAITING_FEATURES"} ->
         ProcessFeatures(x, unit)
    [] unit.type # "error" /\ x.status = "ENCRYPTION_REQUESTED" ->
         ProcessEncryption(x, unit.type)
    [] unit.type # "error" /\ x.status = "AUTHENTICATING" -> ProcessAuthentication(x, unit.type)
    [] unit.type # "error" /\ x.status = "READY" ->
         [x EXCEPT !.received = Append(@, IF unit.type = "message" THEN unit.number ELSE 0)]
    [] OTHER -> Fail(x, IF x.status # "CLOSING_STREAM" THEN "element out of place"
                        ELSE IF unit.type = "message" THEN "message while closing"
                        ELSE "element while closing")

\* The header of the other end's stream is complete.  Who is closing takes it for
\* the begin of an element, which contains everything up to the end of the stream.
StreamStarted(x) ==
  CASE x.status \in {"CONNECTED", "AUTH_CONNECTED"} -> ProcessConnected(x)
    [] x.status = "INITIATED"      -> [x EXCEPT !.status = "AWAITING_FEATURES"]
    [] x.status = "AUTH_INITIATED" -> [x EXCEPT !.status = "AUTH_AWAITING_FEATURES"]
    [] x.status = "CLOSING_STREAM" -> [x EXCEPT !.parser = "element"]
    [] OTHER -> Fail(x, "header out of place")

StreamEnded(x) ==
  CASE x.status \in {"CLOSED", "CLOSING_GNUTLS"} -> x
    [] x.status \in {"CONNECTED", "AUTH_CONNECTED", "HANDSHAKING", "CONNECTING"} ->
         Fail(x, "end out of place")
    [] OTHER -> Terminate(x)

\* After an error the parser does not go on.
XmlError(x) ==
  LET y == [x EXCEPT !.parser = "stopped"]
  IN  IF x.status \in {"ENCRYPTION_REQUESTED", "CONNECTED", "AUTH_CONNECTED"}
      THEN Terminate(y) ELSE TerminateError(y)

Elements == {"features", "starttls", "proceed", "auth", "challenge", "response", "success",
             "failure", "abort", "error", "message"}

\* What the parser makes of a unit.  An element that comes instead of a header
\* ends the connection.
Parse(x, unit) ==
  LET t == unit.type
  IN  CASE x.parser = "stopped" -> x
        [] x.parser = "fresh" /\ t = "open" -> [x EXCEPT !.parser = "header"]
        [] x.parser = "fresh" /\ t \in Elements -> Terminate([x EXCEPT !.parser = "end"])
        [] x.parser = "header" /\ t = "stream" -> StreamStarted([x EXCEPT !.parser = "stream"])
        [] x.parser = "element" /\ t \in Elements -> x
        [] \/ x.parser = "stream" /\ t \in Elements
           \/ x.parser = "element" /\ t = "/stream" -> Element(x, unit)
        [] x.parser = "stream" /\ t = "/stream" -> StreamEnded([x EXCEPT !.parser = "end"])
        [] OTHER -> XmlError(x)

------------------------------------------------------------------------------
(* Receiving *)

\* One record after the other is decrypted and parsed.
Read(x, unit, encrypted) ==
  CASE encrypted /\ x.status \in {"CLOSING_GNUTLS", "CLOSED"} -> x
    [] encrypted /\ x.status \notin {"CLOSING_GNUTLS", "CLOSED"} /\ (~unit.tls \/ unit.type = "bye") ->
         TcpClose(x)
    [] OTHER -> Parse(x, unit)

Negotiate(x, unit) ==
  CASE x.status = "HANDSHAKING" -> Handshake(x, unit.type)
    [] x.status = "CLOSING_GNUTLS" -> x
    [] OTHER -> Fail(x, "data behind the handshake")

\* The end of received_cb: what was left is cleared, and the TCP connection
\* closed when the rest has been sent; or a new stream begins.
Parsed(x) ==
  LET y == [x EXCEPT !.parsing = FALSE]
  IN  CASE y.status = "CLOSED" -> Clear(y)
        [] y.status = "CLOSING_GNUTLS" -> PushMessage(Clear(y), Close_)
        [] y.status = "AUTH_CONNECTED" -> Initiate(y)
        [] OTHER -> y

\* received_cb, for a piece of what the other end sent.
Received(x, piece) ==
  LET y == [Require(x, x.parser # "none", "data without a parser") EXCEPT !.parsing = TRUE]
      feed(z, unit) == IF x.status = "HANDSHAKING" THEN Negotiate(z, unit) ELSE Read(z, unit, x.tls)
  IN  IF x.status = "CLOSING_GNUTLS" THEN x ELSE Parsed(FoldLeft(feed, y, piece))

------------------------------------------------------------------------------
(* A client's and a server's end: the TCP connection may deliver what is sent in *)
(* pieces of any size, take what is sent late, and break down; and a program may *)
(* close its connection whenever it likes.                                       *)

CONSTANT Scenarios   \* what the two programs do

Sites == {"client", "server"}
Policies == {"only unsecured", "prefer unsecured", "prefer tls", "only tls"}

VARIABLES scenario,
          end,      \* both ends of the connection
          line,     \* what the kernel has taken from each end, and not delivered
          left,     \* what each program may still do
          broken    \* the TCP connection has broken down

connectionVars == <<scenario, end, line, left, broken>>

Program(of, site) ==
  [certificate |-> of.certificate, incapable |-> site \in of.incapable,
   retries |-> of.retries, again |-> IF site = "client" THEN of.again ELSE 0]

ConnectionInit ==
  /\ scenario \in Scenarios
  /\ end = [e \in Sites |-> NewConnection(e, scenario.policy[e], Program(scenario, e))]
  /\ line = [e \in Sites |-> <<>>]
  /\ left = scenario.does
  /\ broken = FALSE

Other(e) == IF e = "client" THEN "server" ELSE "client"
Running == \A e \in Sites : end[e].failure = "none"

\* The end is now x, and what the socket has taken is on its way.
Becomes(e, x) ==
  /\ end' = [end EXCEPT ![e] = [x EXCEPT !.out = <<>>, !.room = 0]]
  /\ line' = [line EXCEPT ![e] = IF broken THEN <<>> ELSE @ \o x.out]

\* The socket takes so many units before it is full.
Rooms == scenario.rooms
With(room, x) == [x EXCEPT !.room = room]

Establish(client, server) ==
  /\ end' = [client |-> [client EXCEPT !.out = <<>>, !.room = 0], server |-> server]
  /\ line' = [line EXCEPT !["client"] = client.out]

Connect ==
  /\ Running /\ end["client"].status = "CONNECTING"
  /\ \E room \in Rooms : Establish(Connected(With(room, end["client"])), Connected(end["server"]))
  /\ UNCHANGED <<scenario, left, broken>>

------------------------------------------------------------------------------
(* The TCP connection *)

Delivered(e, n, x) ==
  /\ end' = [end EXCEPT ![e] = [x EXCEPT !.out = <<>>, !.room = 0]]
  /\ line' = [line EXCEPT ![e] = @ \o x.out, ![Other(e)] = SubSeq(@, n + 1, Len(@))]

Receive(e) ==
  /\ Running /\ end[e].tcp = "connected"
  /\ \E n \in 1 .. Len(line[Other(e)]), room \in Rooms :
       Delivered(e, n, Received(With(room, end[e]), SubSeq(line[Other(e)], 1, n)))
  /\ UNCHANGED <<scenario, left, broken>>

\* The socket has room again for n of the units that wait.  (What is sent from
\* the handler of "sent" then finds the queue empty, or has to wait behind it.)
Transmit(e) ==
  /\ Running /\ end[e].tcp = "connected"
  /\ \E n \in 1 .. Len(end[e].queue), room \in Rooms :
       LET x == end[e]
           taken == [x EXCEPT !.out = SubSeq(x.queue, 1, n), !.room = room,
                              !.queue = SubSeq(@, n + 1, Len(@))]
       IN  Becomes(e, SentCb(taken, n))
  /\ UNCHANGED <<scenario, left, broken>>

\* The other end has closed its socket, or nothing comes through any more.
Gone(e) == broken \/ (end[Other(e)].tcp = "closed" /\ line[Other(e)] = <<>>)

EndOfFile(e) ==
  /\ Running /\ end[e].tcp = "connected" /\ Gone(e)
  /\ Becomes(e, TcpClose(end[e]))
  /\ UNCHANGED <<scenario, left, broken>>

Break ==
  /\ Running /\ scenario.breaks /\ ~broken
  /\ \E e \in Sites : end[e].tcp = "connected"
  /\ broken' = TRUE
  /\ line' = [e \in Sites |-> <<>>]
  /\ UNCHANGED <<scenario, end, left>>

------------------------------------------------------------------------------
(* The programs, and the threads of SASL *)

May(e, what) == Running /\ left[e][what] > 0
Does(e, what, x) ==
  /\ left' = [left EXCEPT ![e][what] = @ - 1]
  /\ \E room \in Rooms : Becomes(e, x[room])
  /\ UNCHANGED <<scenario, broken>>

\* Messages are sent while the connection is ready.
SendMessage(e) ==
  /\ May(e, "send") /\ end[e].status = "READY"
  /\ Does(e, "send", [room \in Rooms |-> Send(With(room, end[e]))])

\* A connection that is closing is not closed again.
CloseConnection(e) ==
  /\ May(e, "close") /\ end[e].status \notin {"CLOSING_STREAM", "CLOSING_GNUTLS", "CLOSED"}
  /\ Does(e, "close", [room \in Rooms |-> Close(With(room, end[e]))])

ResetAuthentication(e) ==
  /\ May(e, "reset") /\ end[e].status = "AUTHENTICATING" /\ end[e].sasl # "none"
  /\ Does(e, "reset", [room \in Rooms |-> Reset(With(room, end[e]))])

\* The user has looked at the certificate.
MayDecide ==
  end["client"].status = "CONNECTED" /\ end["client"].tls /\ ~end["client"].trusted

Decide ==
  /\ Running /\ MayDecide
  /\ \E room \in Rooms :
       LET client == With(room, end["client"])
       IN  Becomes("client", Verify_continue(client)) \/ Becomes("client", Verify_cancel(client))
  /\ UNCHANGED <<scenario, left, broken>>

\* A step of SASL: as many as the mechanism needs, unless it fails.
Step(e) ==
  /\ Running /\ end[e].sasl = "busy"
  /\ \E result \in {"more", "done", "error"}, room \in Rooms :
       /\ result = "more" => left[e].steps > 0
       /\ result = "done" => left[e].steps = 0
       /\ result = "error" => e \in scenario.unable
       /\ left' = [left EXCEPT ![e].steps = IF @ > 0 THEN @ - 1 ELSE 0]
       /\ Becomes(e, SaslStepped(With(room, end[e]), result))
  /\ UNCHANGED <<scenario, broken>>

ConnectionNext ==
  \/ Connect \/ Break \/ Decide
  \/ \E e \in Sites :
       \/ Receive(e) \/ Transmit(e) \/ EndOfFile(e) \/ Step(e)
       \/ SendMessage(e) \/ CloseConnection(e) \/ ResetAuthentication(e)

ConnectionSpec == ConnectionInit /\ [][ConnectionNext]_connectionVars

------------------------------------------------------------------------------
(* Properties *)

UpTo(n) == [i \in 1 .. n |-> i]
AreIn(numbers, x) == \A n \in numbers : \E i \in DOMAIN x.messages : x.messages[i].what = n
Unsent(x) == {x.queue[i].number : i \in {j \in DOMAIN x.queue : x.queue[j].type = "message"}}

\* Messages arrive in the order in which they were sent, and none is left out.
\* Each is reported as sent once, and not before the socket has taken it; while
\* the connection is ready, none that was taken remains to be reported.
MessagesExact == Running => \A e \in Sites :
  LET x == end[e]
      reported == Range(x.reported)
  IN  /\ IsPrefix(end[Other(e)].received, UpTo(x.submitted))
      /\ Len(x.reported) = Cardinality(reported)
      /\ reported \subseteq (1 .. x.submitted) \ Unsent(x)
      /\ x.status = "READY" => (1 .. x.submitted) \ reported = Unsent(x)
      /\ x.status = "READY" => AreIn(Unsent(x), x)

Permits(policy, tls) ==
  /\ policy = "only tls" => tls
  /\ policy = "only unsecured" => ~tls

\* Who is ready is secured as its policy demands, and at a client's end by a
\* certificate that the program has accepted.  The client is ready only if the
\* server was before, and then both speak TLS or neither does.
ReadyIsSecured == Running => \A e \in Sites :
  LET x == end[e]
  IN  x.status = "READY" =>
        /\ Permits(x.policy, x.tls)
        /\ x.site = "client" /\ x.tls /\ x.program.certificate # "ignored" => x.trusted
        /\ x.sasl = "none" /\ ~x.mechanisms /\ x.parser = "stream"
        /\ end[Other(e)].status = "READY" => end[Other(e)].tls = x.tls
        /\ x.site = "client" => end["server"].status \in
             {"READY", "CLOSING_STREAM", "CLOSING_GNUTLS", "CLOSED"}

\* Nothing is on its way, and nothing of what goes on by itself is left to do.
Settled ==
  /\ Running /\ end["client"].status # "CONNECTING" /\ ~MayDecide
  /\ \A e \in Sites :
       /\ end[e].sasl # "busy"
       /\ end[e].tcp = "connected" => line[Other(e)] = <<>> /\ end[e].queue = <<>> /\ ~Gone(e)

BothReady == \A e \in Sites : end[e].status = "READY"
BothClosed == \A e \in Sites : end[e].tcp # "connected"

\* What keeps the two waiting for each other: an end that was closed before its
\* stream began, and so had nothing to send, leaves the TCP connection open; so
\* do both when both were closed while they authenticated.  A server that resets
\* the authentication while its own step is under way expects a reply from a
\* client which still waits for the step.
KnownStandstill ==
  LET left_open(e) == end[e].status = "CLOSING_GNUTLS" /\ end[e].tcp = "connected"
  IN  \/ \E e \in Sites : left_open(e) /\ end[e].closed \in {"CONNECTED", "AUTH_CONNECTED"}
                                       /\ end[Other(e)].closed # "AUTHENTICATING"
      \/ \A e \in Sites : left_open(e) /\ end[e].closed \in {"AUTHENTICATING", "AUTH_CONNECTED"}
      \/ /\ \A e \in Sites : end[e].status = "AUTHENTICATING"
         /\ end["client"].sasl = "idle" /\ end["server"].sasl = "none"

\* When everything has arrived, the connection is ready at both ends or closed
\* at both: neither waits for the other for ever, except as above.
NoStandstill == Settled => BothReady \/ BothClosed \/ KnownStandstill

\* The assertions that fail:  an element arrives at an end that waits for the
\* end of the stream;  the certificate is refused within the callback;  a client
\* is closed after it has asked for TLS and before it has a session;  what a
\* server says that is closed right after the handshake comes along with the
\* handshake's end.  A server which takes a client's "abort" for a mistake, since
\* its own answer is under way already, terminates the stream and still parses
\* the rest of what has arrived with it.
KnownFailures ==
  [client |-> {"none", "message while closing", "element while closing", "close in a callback",
               "close without a session", "data behind the handshake"},
   server |-> {"none", "message while closing", "element while closing", "element out of place",
               "terminate what is closed"}]

\* Of a connection that is closed nothing remains.
IsClear(x) == x.sasl = "none" /\ ~x.tls /\ x.parser = "none" /\ x.messages = <<>> /\ x.position = 0

\* No assertion fails but those that are known, whatever the two programs and
\* the connection do, and a closed connection can be opened again: there is
\* neither a session nor a parser nor a message of the last time.
OnlyKnownConnectionFailures ==
  /\ \A e \in Sites : end[e].failure \in KnownFailures[e]
  /\ Running => \A e \in Sites : end[e].status = "CLOSED" /\ end[e].tcp = "closed" => IsClear(end[e])
==============================================================================
