-------------------------- MODULE AdoptedAlgorithm --------------------------
(***************************************************************************)
(* InfAdoptedAlgorithm: one site's copy of a document that several users   *)
(* change concurrently, with undo and redo.  Each operator maps the site's *)
(* state before a call to its state afterwards.                            *)
(*                                                                         *)
(* A site is a record of                                                   *)
(*   order    the users in the order in which the site looks at them       *)
(*   local    the users that this site speaks for                          *)
(*   current  the state vector the buffer has reached                      *)
(*   vec      for every user, the vector the user is known to have reached *)
(*   log      for every user, a request log (RequestLogOps)                *)
(*   present  the users whose status is not UNAVAILABLE                    *)
(*   cache    the translated requests, found by user and vector            *)
(*   queue    requests received too early, newest first                    *)
(*   buffer   the text                                                     *)
(*   modified the modified flag of the buffer                              *)
(*   saved    the vector at which the flag was last cleared                *)
(*   failed   an assertion has failed: the program is gone                 *)
(***************************************************************************)
EXTENDS StateVector, RequestLogOps, Sequences, SequencesExt

CONSTANT MaxTotalLogSize    \* the max-total-log-size property

Text == INSTANCE TextOperation

\* A request; an UNDO or REDO carries no operation of its own.
Request(type, vec, user, op) == [type |-> type, vec |-> vec, user |-> user, op |-> op]

\* What a translation yields when an assertion fails on the way.
Failure == Request("DO", Zero, "nobody", Text!Abort)

NumberOf(req) == req.vec[req.user]

AffectsBuffer(req) == req.type # "DO" \/ Text!AffectsBuffer(req.op)

NewSite(order, local, buffer) ==
  [order |-> order, local |-> local, current |-> Zero,
   vec |-> [u \in Users |-> Zero], log |-> [u \in Users |-> EmptyLog(0)],
   present |-> Users, cache |-> {}, queue |-> <<>>, buffer |-> buffer,
   modified |-> FALSE, saved |-> Zero, failed |-> FALSE]

Logged(S, u, n) == S.log[u].request[n]
PrevNumber(S, req) == PrevAssociated(S.log[req.user], req.type, NumberOf(req))
OriginalOf(S, req) ==
  LET n == OriginalRequest(S.log[req.user], req.type, NumberOf(req))
  IN  IF n = NumberOf(req) THEN req ELSE Logged(S, req.user, n)

------------------------------------------------------------------------------
(* Requests at one state: transform, mirror and fold *)

TransformRequestAt(req, against, cid) ==
  LET by_user == IF req.user > against.user THEN Text!Other ELSE Text!Self
      id      == IF cid = Text!NoId THEN by_user ELSE cid
  IN  Request("DO", Add(req.vec, against.user, 1), req.user,
              Text!Transform(req.op, against.op, id))

Mirror(req, by) ==
  Request("DO", Add(req.vec, req.user, by), req.user,
          IF Text!IsReversible(req.op) THEN Text!Revert(req.op) ELSE Text!Abort)

Fold(req, into, by) == [req EXCEPT !.vec = Add(@, into, by)]

------------------------------------------------------------------------------
(* Reachability: the states that exist in the space of this site *)

\* The last request of u before v must have been issued in the past of v; an
\* UNDO or REDO is skipped together with what it undoes or redoes.
IsComponentReachable(S, v, u) ==
  LET l == S.log[u]
      reachable[n \in l.begin .. l.end] ==
        CASE n = l.begin -> TRUE
          [] n > l.begin /\ TypeOf(l, n - 1) = "DO" ->
               BeforeInc(l.request[n - 1].vec, v, u)
          [] OTHER -> reachable[l.prev[n - 1]]
  IN  v[u] \in l.begin .. l.end /\ reachable[v[u]]

IsReachable(S, v) == \A u \in Users : IsComponentReachable(S, v, u)

------------------------------------------------------------------------------
(* Translating a request to a later state.  A result is the translated     *)
(* request together with the cache, which every translation extends.       *)

Result(req, cache) == [req |-> req, cache |-> cache]
IsFailure(r) == r.req.op.kind = "abort"

\* can_cache, for the DO requests that translations yield
CanCache(req) == Text!AffectsBuffer(req.op) /\ Text!IsReversible(req.op)

Cached(cache, user, to) == {r \in cache : r.user = user /\ r.vec = to}

\* Undoing a change at `to` is its DO (or REDO) before the chain, mirrored.
MirrorFrom(S, req, to) == [to EXCEPT ![req.user] = PrevNumber(S, req)]

CanMirror(S, req, to) ==
  req.type # "DO" /\ PrevNumber(S, req) # None /\ IsReachable(S, MirrorFrom(S, req, to))

\* The last request of u before `to` undoes or redoes an earlier one: nothing
\* changed between before that one and now.
FoldFrom(S, to, u) == [to EXCEPT ![u] = S.log[u].prev[to[u] - 1]]

HasLast(S, to, u) == to[u] > S.log[u].begin

\* Mutant: no folding; what was undone is followed step by step.
CanFold_Never(S, req, to, u) == FALSE

CanFold(S, req, to, u) ==
  /\ HasLast(S, to, u)
  /\ TypeOf(S.log[u], to[u] - 1) # "DO"
  /\ IsReachable(S, FoldFrom(S, to, u))
  /\ Before(req.vec, FoldFrom(S, to, u))

StepBack(to, u) == [to EXCEPT ![u] = @ - 1]

CanTransform(S, req, to, u) ==
  /\ HasLast(S, to, u)
  /\ req.vec[u] < to[u]
  /\ IsReachable(S, StepBack(to, u))

\* The users along which the translation can go, in the site's order.
Directions(S, req, to) ==
  SelectSeq(S.order, LAMBDA u : /\ u # req.user
                                /\ CanFold(S, req, to, u) \/ CanTransform(S, req, to, u))

RECURSIVE Translate(_, _, _)

\* Two translations in a row: the second one uses what the first one cached.
TranslateTwo(S, first, second, to) ==
  LET AndThen(one) == <<one, Translate([S EXCEPT !.cache = one.cache], second, to)>>
  IN  AndThen(Translate(S, first, to))

AnyFailure(results) == \E i \in DOMAIN results : IsFailure(results[i])

\* at[2] gives way to at[1]: the results for two requests translated to one state.
Transformed(at, cid, cache) ==
  Result(TransformRequestAt(at[2].req, at[1].req, cid), cache)

\* Mutant: inserts at one place are ordered by user, wherever they first met.
TransformFrom_NoConcurrencyId(S, req, against, at, here) ==
  Transformed(here, Text!NoId, here[2].cache)

\* When both insert at one place, the state at which they first met decides
\* who moves.
TransformFrom(S, req, against, at, here) ==
  LET lcs == LeastCommonSuccessor(req.vec, against.vec)
      LikeThen(met) ==
        IF AnyFailure(met) THEN Result(Failure, S.cache)
        ELSE Transformed(here, Text!GetConcurrencyId(met[2].req.op, met[1].req.op),
                         met[2].cache)
  IN  IF lcs # at /\ Text!NeedConcurrencyId(here[2].req.op, here[1].req.op)
      THEN LikeThen(TranslateTwo([S EXCEPT !.cache = here[2].cache], against, req, lcs))
      ELSE Transformed(here, Text!NoId, here[2].cache)

\* transform_request: both requests are translated to `at`, then transformed.
TransformRequest(S, req, against, at) ==
  LET AtOnce(here) == IF AnyFailure(here) THEN Result(Failure, S.cache)
                      ELSE TransformFrom(S, req, against, at, here)
  IN  IF Before(req.vec, at) /\ Before(against.vec, at)
      THEN AtOnce(TranslateTwo(S, against, req, at))
      ELSE Result(Failure, S.cache)

Mirrored(r, by) == IF IsFailure(r) THEN r ELSE Result(Mirror(r.req, by), r.cache)
Folded(r, u, by) == IF IsFailure(r) THEN r ELSE Result(Fold(r.req, u, by), r.cache)

\* Along the first user in whose direction a fold or a transformation can go.
TranslateAlong(S, req, to, u) ==
  LET from == FoldFrom(S, to, u)
  IN  IF CanFold(S, req, to, u) THEN Folded(Translate(S, req, from), u, to[u] - from[u])
      ELSE TransformRequest(S, req, Logged(S, u, to[u] - 1), StepBack(to, u))

TranslateNoCache(S, req, to) ==
  LET undone == PrevNumber(S, req)
      dirs   == Directions(S, req, to)
  IN  IF CanMirror(S, req, to)
      THEN Mirrored(Translate(S, Logged(S, req.user, undone), MirrorFrom(S, req, to)),
                    to[req.user] - undone)
      ELSE IF req.type = "DO" /\ req.vec = to THEN Result(req, S.cache)
      ELSE IF dirs = <<>> \/ (req.type # "DO" /\ undone = None)
      THEN Result(Failure, S.cache)
      ELSE TranslateAlong(S, req, to, Head(dirs))

\* A result that may be cached is stored under its user and vector, which no
\* other result may occupy.
Stored(S, to, fresh) ==
  IF IsFailure(fresh) \/ fresh.req.vec # to THEN Result(Failure, S.cache)
  ELSE IF ~CanCache(fresh.req) THEN fresh
  ELSE IF Cached(fresh.cache, fresh.req.user, to) # {} THEN Result(Failure, S.cache)
  ELSE Result(fresh.req, fresh.cache \cup {fresh.req})

\* The public translate_request.
Translate(S, req, to) ==
  LET found == Cached(S.cache, req.user, to)
  IN  IF \/ ~Before(to, S.current)
         \/ ~Before(OriginalOf(S, req).vec, to)
         \/ ~IsReachable(S, to)
      THEN Result(Failure, S.cache)
      ELSE IF AffectsBuffer(req) /\ found # {}
      THEN Result(CHOOSE r \in found : TRUE, S.cache)
      ELSE Stored(S, to, TranslateNoCache(S, req, to))

------------------------------------------------------------------------------
(* Executing a request *)

Fail(S) == [S EXCEPT !.failed = TRUE]

\* What the log records: an UNDO or REDO only depends on its original request.
LogRequest(S, req) ==
  IF req.type = "DO" THEN req
  ELSE [req EXCEPT !.vec = [OriginalOf(S, req).vec EXCEPT ![req.user] = NumberOf(req)]]

\* A DO that cannot be reverted yet is completed with the text it deletes.
Recorded(S, log_request, translated) ==
  IF log_request.type # "DO" \/ Text!IsReversible(log_request.op) THEN log_request
  ELSE [log_request EXCEPT !.op = Text!MakeReversible(@, translated.op, S.buffer)]

\* Mutant: every user is taken to have seen what this site has seen.
InSync_AllUsers(S) == [S EXCEPT !.vec = [u \in Users |-> S.current]]

\* update_local_user_times
InSync(S) == [S EXCEPT !.vec = [u \in Users |-> IF u \in S.local THEN S.current ELSE @[u]]]

Log(S, req) ==
  LET n == NumberOf(req)
      added == IF CanAdd(S.log[req.user], n)
               THEN [S EXCEPT !.log[req.user] = AddRequest(@, req, n)]
               ELSE S
  IN  InSync([added EXCEPT !.current = Add(@, req.user, 1)])

\* Mutant: takes every UNDO for the undo of what was done since `first`.
BufferStatesEquivalent_Types(S, first, second) ==
  \A u \in Users : \A n \in first[u] .. (second[u] - 1) :
    n >= S.log[u].begin /\ TypeOf(S.log[u], n) # "DO"

\* buffer_states_equivalent: second is first again once every change that was
\* undone or redone in between is left out.  Unknown when requests are missing.
BufferStatesEquivalent(S, first, second) ==
  \A u \in Users :
    LET back[n \in 0 .. second[u]] ==
          IF n <= first[u] THEN n = first[u]
          ELSE IF n <= S.log[u].begin \/ TypeOf(S.log[u], n - 1) = "DO" THEN FALSE
          ELSE back[S.log[u].prev[n - 1]]
    IN  back[second[u]]

\* The buffer sets its flag on every change; the flag is cleared when the
\* changes since it was last clear have been taken back.
UpdateModified(S, changed) ==
  IF BufferStatesEquivalent(S, S.saved, S.current)
  THEN [S EXCEPT !.modified = FALSE, !.saved = S.current]
  ELSE [S EXCEPT !.modified = @ \/ changed]

\* The rest of execute_request, once the request is translated.  apply is FALSE
\* when the caller changes the buffer itself.
Executed(S, req, translated, apply) ==
  LET recorded == Recorded(S, LogRequest(S, req), translated.req)
      known    == [S EXCEPT !.cache = translated.cache]
      logged   == IF AffectsBuffer(req) THEN Log(known, recorded) ELSE known
      buffer   == IF apply THEN Text!Apply(translated.req.op, S.buffer) ELSE S.buffer
  IN  IF \/ recorded.op.kind = "abort"
         \/ apply /\ ~Text!CanApply(translated.req.op)
      THEN Fail(S)
      ELSE UpdateModified([logged EXCEPT !.buffer = buffer],
                          Text!AffectsBuffer(translated.req.op))

ExecuteRequest(S, req, apply) ==
  LET Continue(translated) == IF IsFailure(translated) THEN Fail(S)
                              ELSE Executed(S, req, translated, apply)
  IN  IF Before(req.vec, S.current)
      THEN Continue(Translate(S, LogRequest(S, req), S.current))
      ELSE Fail(S)

------------------------------------------------------------------------------
(* Garbage collection and the limits of undo *)

\* A state that all sites are known to have reached.
CommonPast(S) ==
  FoldFunctionOnSet(LeastCommonPredecessor, S.current, S.vec, S.present)

\* Drop sets of related requests, oldest first, while everybody has processed
\* the set and its first request is max-total-log-size requests behind.
CleanLog(S, u, past) ==
  LET l == S.log[u]
      Droppable(n) ==
        /\ BeforeInc(l.request[UpperRelated(l, n)].vec, past, u)
        /\ Vdiff(l.request[n].vec, past) >= MaxTotalLogSize
      cut[n \in l.begin .. l.end] ==
        IF n < l.end /\ Droppable(n) THEN cut[UpperRelated(l, n) + 1] ELSE n
  IN  RemoveRequests(l, cut[l.begin])

Cleanup(S) ==
  LET past == CommonPast(S)
      Old(r) == Before(r.vec, past) /\ Vdiff(r.vec, past) > MaxTotalLogSize
  IN  [S EXCEPT !.log = [u \in Users |-> CleanLog(S, u, past)],
                !.cache = {r \in @ : ~Old(r)}]

\* Mutant: one request more may be undone than the log is sure to keep.
CanUndoRedo_OffByOne(S, u, n) ==
  /\ n # None
  /\ Vdiff(Logged(S, u, S.log[u].original[n]).vec, S.vec[u]) <= MaxTotalLogSize

\* can_undo_redo for the entry n that would be undone or redone; update_undo_redo
\* stores the answer for the local users after every call.
CanUndoRedo(S, u, n) ==
  /\ n # None
  /\ Vdiff(Logged(S, u, S.log[u].original[n]).vec, S.vec[u]) < MaxTotalLogSize

CanUndo(S, u) == CanUndoRedo(S, u, S.log[u].next_undo)
CanRedo(S, u) == CanUndoRedo(S, u, S.log[u].next_redo)

------------------------------------------------------------------------------
(* The calls of the session *)

\* generate_request, generate_undo and generate_redo: the request to broadcast
\* and the site after executing it.
Generated(S, type, u, op) == Request(type, S.current, u, op)
Generate(S, req, apply) == Cleanup(ExecuteRequest(S, req, apply))

\* What the request tells about its sender.
Witness(S, req) ==
  LET reached == IF AffectsBuffer(req) THEN Add(req.vec, req.user, 1) ELSE req.vec
  IN  IF Before(S.vec[req.user], req.vec) THEN [S EXCEPT !.vec[req.user] = reached] ELSE S

IsReady(S, req) == Before(req.vec, S.current)

RECURSIVE ExecuteQueued(_)

\* Mutant: the queue is searched once.
ExecuteQueued_Once(S) ==
  LET ready == {i \in DOMAIN S.queue : IsReady(S, S.queue[i])}
  IN  IF S.failed \/ ready = {} THEN S
      ELSE [ExecuteRequest(S, S.queue[Min(ready)], TRUE) EXCEPT !.queue = RemoveAt(@, Min(ready))]

\* Execute the newest queued request that has become possible, and start over.
ExecuteQueued(S) ==
  LET ready == {i \in DOMAIN S.queue : IsReady(S, S.queue[i])}
      i == Min(ready)
  IN  IF S.failed \/ ready = {} THEN S
      ELSE ExecuteQueued([ExecuteRequest(S, S.queue[i], TRUE)
                            EXCEPT !.queue = RemoveAt(@, i)])

Receive(S, req) ==
  LET known == Witness(S, req)
  IN  Cleanup(IF IsReady(known, req)
              THEN ExecuteQueued(ExecuteRequest(known, req, TRUE))
              ELSE [known EXCEPT !.queue = <<req>> \o @])
==============================================================================
