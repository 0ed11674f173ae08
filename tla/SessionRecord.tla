---------------------------- MODULE SessionRecord ----------------------------
(***************************************************************************)
(* A record of a session: the state at its start, and from then on every   *)
(* request that is executed and every user that is added, written as it    *)
(* happens (inf-adopted-session-record.c).  The vectors of the requests    *)
(* are differences to the one recorded last for the user.  A replay takes  *)
(* the record for what a publisher sends, and plays it step by step        *)
(* (inf-adopted-session-replay.c).  That users come and go is not written. *)
(***************************************************************************)
EXTENDS Integers, Sequences, FiniteSets, SequencesExt

CONSTANTS Users, MaxRequests, MaxChanges   \* requests, and changes of status, in a session

VARIABLES session, changes,   \* what is recorded: its state, and how often users came and went
          status,             \* "synchronizing", "running", "closed"
          recorder,           \* [state, last: the vectors]; "waiting" for the synchronization
          file,               \* the elements that were written, and whether the last was
          states,             \* the session as it was after each of the elements
          replay              \* what plays the file

Zero == [u \in Users |-> 0]
Up(v, u, n) == [v EXCEPT ![u] = @ + n]
ToDiff(v, from) == [u \in Users |-> v[u] - from[u]]
FromDiff(diff, from) == [u \in Users |-> from[u] + diff[u]]

RecordAssumption == Users # {} /\ MaxRequests \in Nat /\ MaxChanges \in Nat

\* A session: the users that are known, those that are there, their vectors, what was
\* executed, and the state that this led to.
NewSession == [known |-> {}, there |-> {}, vector |-> [u \in Users |-> Zero], current |-> Zero,
               done |-> <<>>]
Affects(kind) == kind = "text"

\* A request is executed: its user's vector is what it leads to.
Executed(s, u, vector, kind) ==
  [s EXCEPT !.vector[u] = IF Affects(kind) THEN Up(vector, u, 1) ELSE vector,
            !.current = IF Affects(kind) THEN Up(@, u, 1) ELSE @,
            !.done = Append(@, [user |-> u, vector |-> vector, kind |-> kind])]

Known(s, u, vector) ==
  [s EXCEPT !.known = @ \cup {u}, !.there = @ \cup {u}, !.vector[u] = vector]

------------------------------------------------------------------------------
(* Recording *)

WriteNode(node, s) ==
  /\ file' = [file EXCEPT !.nodes = Append(@, node)]
  /\ states' = Append(states, s)
Unwritten == UNCHANGED <<file, states>>

UserJoined(last, u, vector) == [last EXCEPT ![u] = vector]

\* What the session would send to synchronize, as the start of the record.
RealStart(s) ==
  LET joined == [u \in Users |-> IF u \in s.known THEN s.vector[u] ELSE Zero]
  IN  /\ recorder' = [state |-> "recording", last |-> joined]
      /\ WriteNode([name |-> "initial", session |-> s], s)

\* Mutant: a request that does not affect the buffer does not count as sent.
SentLast_Text(last, u, vector, kind) ==
  IF Affects(kind) THEN [last EXCEPT ![u] = Up(vector, u, 1)] ELSE last

SentLast(last, u, vector, kind) ==
  [last EXCEPT ![u] = IF Affects(kind) THEN Up(vector, u, 1) ELSE vector]

StartRecording ==
  /\ status # "closed" /\ recorder.state = "none" /\ file.nodes = <<>>
  /\ IF status = "running" THEN RealStart(session)
     ELSE recorder' = [recorder EXCEPT !.state = "waiting"] /\ Unwritten
  /\ UNCHANGED <<session, changes, status, replay>>

\* The document is ended.
StopRecording ==
  /\ recorder.state \in {"waiting", "recording"}
  /\ recorder' = [state |-> "stopped", last |-> [u \in Users |-> Zero]]
  /\ file' = [file EXCEPT !.ended = TRUE]
  /\ UNCHANGED <<session, changes, status, states, replay>>

\* The program ends before the record is finished.
Crash ==
  /\ recorder.state = "recording"
  /\ recorder' = [recorder EXCEPT !.state = "stopped"] /\ status' = "closed"
  /\ UNCHANGED <<session, changes, file, states, replay>>

------------------------------------------------------------------------------
(* The session that is recorded *)

Requests(s) == Len(s.done)

\* What happens after the record is finished does not matter.
Followed == recorder.state # "stopped"

\* A request as the algorithm executes them: made by the user after everything that
\* the user had seen before, and seen here (here, nothing more or everything).
ExecuteRequest == \E u \in session.there, kind \in {"text", "caret"} :
  \E vector \in {[session.vector[u] EXCEPT ![u] = session.current[u]], session.current} :
    LET s == Executed(session, u, vector, kind)
        last == recorder.last[u]
    IN  /\ Followed /\ status = "running" /\ Requests(session) < MaxRequests
        /\ session' = s
        /\ IF recorder.state = "recording"
           THEN /\ recorder' = [recorder EXCEPT !.last = SentLast(@, u, vector, kind)]
                /\ WriteNode([name |-> "request", user |-> u, kind |-> kind,
                              diff |-> ToDiff(vector, last)], s)
           ELSE UNCHANGED recorder /\ Unwritten
        /\ UNCHANGED <<changes, status, replay>>

\* A user is added, with what it had seen when it asked to join.
AddUser == \E u \in Users \ session.known, vector \in {Zero, session.current} :
  LET s == Known(session, u, vector)
  IN  /\ Followed /\ status = "running" /\ session' = s
      /\ IF recorder.state = "recording"
         THEN /\ recorder' = [recorder EXCEPT !.last = UserJoined(@, u, vector)]
              /\ WriteNode([name |-> "user", user |-> u, vector |-> vector], s)
         ELSE UNCHANGED recorder /\ Unwritten
      /\ UNCHANGED <<changes, status, replay>>

\* Users leave, and come back having seen more.
ChangeStatus == \E u \in session.known :
  /\ Followed /\ status = "running" /\ changes < MaxChanges /\ changes' = changes + 1
  /\ session' = IF u \in session.there THEN [session EXCEPT !.there = @ \ {u}]
                ELSE Known(session, u, session.current)
  /\ UNCHANGED <<status, recorder, file, states, replay>>

SynchronizationComplete ==
  /\ Followed /\ status = "synchronizing" /\ status' = "running"
  /\ IF recorder.state = "waiting" THEN RealStart(session) ELSE UNCHANGED recorder /\ Unwritten
  /\ UNCHANGED <<session, changes, replay>>

CloseSession ==
  /\ Followed /\ status # "closed" /\ status' = "closed"
  /\ UNCHANGED <<session, changes, recorder, file, states, replay>>

------------------------------------------------------------------------------
(* Replaying *)

Playing == [session |-> NewSession, at |-> 0, error |-> FALSE]
NotPlaying == [Playing EXCEPT !.at = -1]
AtEnd(at) == at = Len(file.nodes)

\* The next element is looked for: there is one, or the end of the document.
Advanced(r) == [r EXCEPT !.at = @ + 1, !.error = AtEnd(r.at + 1) /\ ~file.ended]

\* The initial state is played, as a synchronization.
PlayInitial(r) ==
  IF file.nodes = <<>> THEN [NotPlaying EXCEPT !.error = TRUE]
  ELSE Advanced([r EXCEPT !.session = Head(file.nodes).session])

SetRecord ==
  /\ recorder.state = "stopped" /\ replay = NotPlaying
  /\ replay' = PlayInitial(Playing)
  /\ UNCHANGED <<session, changes, status, recorder, file, states>>

\* Who issues a request is there, whatever the record says.
PlayRequest(s, m) ==
  Executed([s EXCEPT !.there = @ \cup {m.user}], m.user, FromDiff(m.diff, s.vector[m.user]), m.kind)

PlayUser(s, m) == Known(s, m.user, m.vector)

PlayNext ==
  LET m == file.nodes[replay.at + 1]
      played == IF m.name = "request" THEN PlayRequest(replay.session, m)
                ELSE PlayUser(replay.session, m)
  IN  /\ replay.at > 0 /\ ~replay.error /\ ~AtEnd(replay.at)
      /\ replay' = IF (m.name = "request") <=> (m.user \notin replay.session.known)
                   THEN [replay EXCEPT !.error = TRUE]
                   ELSE Advanced([replay EXCEPT !.session = played])
      /\ UNCHANGED <<session, changes, status, recorder, file, states>>

------------------------------------------------------------------------------

\* The session has a user from the start.
RecordInit ==
  /\ session = Known(NewSession, CHOOSE u \in Users : TRUE, Zero)
  /\ changes = 0 /\ status = "synchronizing"
  /\ recorder = [state |-> "none", last |-> [u \in Users |-> Zero]]
  /\ file = [nodes |-> <<>>, ended |-> FALSE] /\ states = <<>>
  /\ replay = NotPlaying

RecordNext ==
  \/ StartRecording \/ StopRecording \/ Crash
  \/ ExecuteRequest \/ AddUser \/ ChangeStatus \/ SynchronizationComplete \/ CloseSession
  \/ SetRecord \/ PlayNext
record == <<session, changes, status, recorder, file, states, replay>>
RecordSpec == RecordInit /\ [][RecordNext]_record

------------------------------------------------------------------------------
(* Properties *)

\* After every element that is played, the replay knows the users and has executed
\* the requests, with the same vectors, that the session had when it was written;
\* and it fails only where the record ends too early.
ReplayFollowsRecord ==
  /\ replay.at > 0 =>
       LET s == states[replay.at]
           r == replay.session
       IN  r.known = s.known /\ r.current = s.current /\ r.done = s.done
  /\ replay.error => file.nodes = <<>> \/ (AtEnd(replay.at) /\ ~file.ended)
==============================================================================
