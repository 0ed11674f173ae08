--------------------------- MODULE AdoptedReplicas ---------------------------
(***************************************************************************)
(* Several sites edit one text through InfAdoptedAlgorithm.  What a user   *)
(* sends arrives at every other site, each user's requests in their order, *)
(* but requests of different users in any order: what the algorithm relies *)
(* on, and how test/inf-test-text-session.c permutes recorded sessions.    *)
(* A user's own site is where it is local; observers only receive.         *)
(***************************************************************************)
EXTENDS AdoptedAlgorithm

CONSTANTS Observers,        \* sites without a user, such as a server
          Orders,           \* the order in which a site looks at the users
          InitialText,      \* the text that the session starts with
          MaxRequests,      \* bounds on the requests of every user, one of which holds
          MaxInserts,       \* bound on the inserts of each user
          MaxErase,         \* bound on the length of an erasure
          Kinds             \* what the users do: a subset of AllKinds

AllKinds == {"insert", "erase", "undo", "redo", "noop", "save"}

Sites == Users \cup Observers

ASSUME ReplicasAssumption ==
  /\ Users \subseteq Nat \ {0} /\ Observers \cap Users = {}
  /\ Orders \in [Sites -> Seq(Users)]
  /\ MaxRequests \subseteq [Users -> Nat] /\ MaxInserts \in [Users -> Nat]
  /\ Kinds \subseteq AllKinds /\ MaxErase \in Nat /\ MaxTotalLogSize \in Nat

VARIABLES site,    \* the algorithm's state at every site
          sent,    \* for every user, the requests sent so far
          got,     \* for every site and user, how many of them were received
          disk     \* for every site, the text that was saved last

vars == <<site, sent, got, disk>>

Local(s) == {s} \cap Users

Init ==
  /\ site = [s \in Sites |-> NewSite(Orders[s], Local(s), InitialText)]
  /\ sent = [u \in Users |-> <<>>]
  /\ got = [s \in Sites |-> [u \in Users |-> 0]]
  /\ disk = [s \in Sites |-> InitialText]

------------------------------------------------------------------------------
(* A user's own steps *)

\* The characters of a session are distinct, so that texts show what happened.
Inserts(u) ==
  Cardinality({i \in DOMAIN sent[u] : sent[u][i].op.kind = "insert"})
NewText(u) == <<10 * u + Inserts(u)>>

\* What the others are sent: an erasure goes out as a position and a length.
OnTheWire(req) ==
  IF req.op.kind = "delete"
  THEN [req EXCEPT !.op = Text!RemoteDelete(req.op.pos, Len(req.op.text), <<>>, 0)]
  ELSE req

MaySend(u) == \E bound \in MaxRequests :
  \A v \in Users : Len(sent[v]) + (IF v = u THEN 1 ELSE 0) <= bound[v]

\* S is the user's site when the request is made.
Send(u, type, op, S, apply) ==
  LET req == Generated(S, type, u, op)
  IN  /\ ~site[u].failed
      /\ MaySend(u)
      /\ site' = [site EXCEPT ![u] = Generate(S, req, apply)]
      /\ sent' = [sent EXCEPT ![u] = Append(@, OnTheWire(req))]
      /\ UNCHANGED <<got, disk>>

\* Typing changes the buffer, whose callback makes the request.
Type(u, op) ==
  Send(u, "DO", op, [site[u] EXCEPT !.buffer = Text!Apply(op, @)], FALSE)

InsertText(u) == \E pos \in 0 .. Len(site[u].buffer) :
  /\ "insert" \in Kinds
  /\ Inserts(u) < MaxInserts[u]
  /\ Type(u, Text!Insert(pos, NewText(u)))

EraseText(u) == \E pos \in 0 .. Len(site[u].buffer), length \in 1 .. MaxErase :
  /\ "erase" \in Kinds
  /\ pos + length <= Len(site[u].buffer)
  /\ Type(u, Text!Delete(pos, Text!Substring(site[u].buffer, pos, length)))

Undo(u) == /\ "undo" \in Kinds
           /\ CanUndo(site[u], u)
           /\ Send(u, "UNDO", Text!Noop, site[u], TRUE)

Redo(u) == /\ "redo" \in Kinds
           /\ CanRedo(site[u], u)
           /\ Send(u, "REDO", Text!Noop, site[u], TRUE)

\* A request that changes nothing but tells the others how far u is.
SendNoop(u) == /\ "noop" \in Kinds
               /\ Send(u, "DO", Text!Noop, site[u], FALSE)

------------------------------------------------------------------------------
(* Receiving *)

\* The connection hands the next request of u to site s.
Delivers(s, u) ==
  /\ s # u /\ ~site[s].failed
  /\ got[s][u] < Len(sent[u])
  /\ got' = [got EXCEPT ![s][u] = @ + 1]

ReceiveFrom(s, u) ==
  /\ Delivers(s, u)
  /\ site' = [site EXCEPT ![s] = Receive(@, sent[u][got[s][u] + 1])]
  /\ UNCHANGED <<sent, disk>>

\* What autosave does some time after the buffer was marked modified: the text
\* is written and the flag is cleared, which the algorithm takes note of.
Save(s) ==
  /\ "save" \in Kinds
  /\ site[s].modified /\ ~site[s].failed
  /\ disk' = [disk EXCEPT ![s] = site[s].buffer]
  /\ site' = [site EXCEPT ![s].modified = FALSE, ![s].saved = site[s].current]
  /\ UNCHANGED <<sent, got>>

Next ==
  \/ \E u \in Users : InsertText(u) \/ EraseText(u) \/ Undo(u) \/ Redo(u) \/ SendNoop(u)
  \/ \E s \in Sites : Save(s)
  \/ \E s \in Sites, u \in Users : ReceiveFrom(s, u)

Spec == Init /\ [][Next]_vars

------------------------------------------------------------------------------
(* Properties *)

\* The sites whose program has not been ended by a failed assertion.
Alive == {s \in Sites : ~site[s].failed}

\* Sites that have processed the same requests show the same text, whatever
\* the order in which the requests arrived.
Convergence == \A s, t \in Sites :
  site[s].current = site[t].current => site[s].buffer = site[t].buffer

\* A site that is ahead of another one only by changes that were taken back
\* shows the same text: what the algorithm assumes when it folds.
UndoRestores == \A s, t \in Sites :
  BufferStatesEquivalent(site[s], site[t].current, site[s].current)
    => site[s].buffer = site[t].buffer

\* A buffer that is not marked modified holds what was saved last: autosave
\* has nothing to do for it, and its changes would be lost with the program.
UnmodifiedIsSaved == \A s \in Alive : ~site[s].modified => site[s].buffer = disk[s]

\* No assertion of the algorithm ever fails.
NoAssertionFails == \A s \in Sites : ~site[s].failed

\* A request stands in every log with the same content, the text of a deletion
\* included, which the other sites reconstruct from a position and a length.
LogsAgree == \A s, t \in Sites, u \in Users :
  \A n \in Numbers(site[s].log[u]) \cap Numbers(site[t].log[u]) :
    /\ Logged(site[s], u, n) = Logged(site[t], u, n)
    /\ site[s].log[u].prev[n] = site[t].log[u].prev[n]

\* Every translation found in the cache is the one a fresh start would find.
CacheCoherent == \A s \in Sites : \A r \in site[s].cache :
  /\ Cached(site[s].cache, r.user, r.vec) = {r}
  /\ Translate([site[s] EXCEPT !.cache = {}], Logged(site[s], r.user, NumberOf(r)), r.vec).req
       = r

\* What a site believes of the progress of a user is true: only then may it
\* forget requests.
BeliefsTrue == \A s \in Alive, u \in Alive \cap Users :
  Before(site[s].vec[u], site[u].current)

\* The queue holds exactly what has arrived too early.
QueueExact == \A s \in Alive :
  /\ \A i \in DOMAIN site[s].queue : ~IsReady(site[s], site[s].queue[i])
  /\ \A u \in Users \ {s} :
       Cardinality({i \in 1 .. got[s][u] : AffectsBuffer(sent[u][i])})
         = site[s].current[u]
           + Cardinality({i \in DOMAIN site[s].queue :
                /\ site[s].queue[i].user = u /\ AffectsBuffer(site[s].queue[i])})

\* Cleanup only forgets what nobody can refer to any more: a request that is
\* still on its way meets every request it is concurrent to, and what a user
\* may undo is known wherever the undo will arrive.
CleanupSafe == \A s \in Alive : \A u \in Users \ {s} :
  /\ \A i \in (got[s][u] + 1) .. Len(sent[u]), w \in Users :
       site[s].log[w].begin <= sent[u][i].vec[w]
  /\ u \in Alive /\ CanUndo(site[u], u) =>
       site[s].log[u].begin <= site[u].log[u].original[site[u].log[u].next_undo]

\* Whatever a user sends is executed at every site in the end, however early
\* it arrives: nothing stays in the queue.
EverythingExecuted ==
  <>[](\A s \in Sites, u \in Users : site[s].current[u] = site[u].current[u])
==============================================================================
