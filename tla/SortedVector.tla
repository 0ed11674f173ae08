---------------------------- MODULE SortedVector ----------------------------
(***************************************************************************)
(* How inf-adopted-state-vector.c keeps a state vector: an array of        *)
(* components, sorted by user, from which components that are zero may be  *)
(* missing or not.  Every function walks the arrays; what it returns is    *)
(* to be what StateVector says of the functions that the arrays stand for. *)
(* A text form is the sequence of the pairs that are written.              *)
(***************************************************************************)
EXTENDS Integers, Sequences, FiniteSets, SequencesExt

CONSTANTS Ids,     \* the users
          MaxN     \* bound on a component

VARIABLES vec, orig    \* two vectors

V == INSTANCE StateVector WITH Users <- Ids

Component(id, n) == [id |-> id, n |-> n]

\* The value of an array: what is not there is zero.
Get(v, id) ==
  LET at == {i \in DOMAIN v : v[i].id = id}
  IN  IF at = {} THEN 0 ELSE v[CHOOSE i \in at : TRUE].n
Value(v) == [id \in Ids |-> Get(v, id)]

\* The binary search; positions count from zero.
FindInsertPos(v, id) ==
  LET search[begin, end \in 0 .. Len(v)] ==
        LET middle == begin + (end - begin) \div 2
        IN  IF begin = end THEN begin
            ELSE IF v[middle + 1].id = id THEN middle
            ELSE IF v[middle + 1].id < id THEN search[middle + 1, end]
            ELSE search[begin, middle]
  IN  search[0, Len(v)]

IsStored(v, id) ==
  LET pos == FindInsertPos(v, id) IN pos < Len(v) /\ v[pos + 1].id = id

Insert(v, id, n, pos) == InsertAt(v, pos + 1, Component(id, n))

Set(v, id, n) ==
  LET pos == FindInsertPos(v, id)
  IN  IF IsStored(v, id) THEN [v EXCEPT ![pos + 1].n = n] ELSE Insert(v, id, n, pos)

AddTo(v, id, by) ==
  LET pos == FindInsertPos(v, id)
  IN  IF IsStored(v, id) THEN [v EXCEPT ![pos + 1].n = @ + by] ELSE Insert(v, id, by, pos)

------------------------------------------------------------------------------
(* Comparisons: i and j are the places at which the two walks have arrived *)

\* Mutant: components that are zero are compared like others.
NextPositive_Any(v, i) == i

\* The place of the next component from i on that is not zero.
NextPositive(v, i) ==
  LET at == {k \in i .. Len(v) : v[k].n > 0}
  IN  IF at = {} THEN Len(v) + 1 ELSE CHOOSE k \in at : \A l \in at : k <= l

CompareFrom(a, b) == CASE a < b -> -1 [] a > b -> 1 [] OTHER -> 0

Compare(v, w) ==
  LET walk[i \in 1 .. Len(v) + 1, j \in 1 .. Len(w) + 1] ==
        LET first == NextPositive(v, i)
            second == NextPositive(w, j)
        IN  CASE first > Len(v) /\ second > Len(w) -> 0
              [] first > Len(v) /\ second <= Len(w) -> -1
              [] first <= Len(v) /\ second > Len(w) -> 1
              [] OTHER -> IF v[first].id # w[second].id
                          THEN CompareFrom(v[first].id, w[second].id)
                          ELSE IF v[first].n # w[second].n
                          THEN CompareFrom(v[first].n, w[second].n)
                          ELSE walk[first + 1, second + 1]
  IN  walk[1, 1]

\* The place from j on at which w has the user, or a greater one.
Reached(w, j, id) ==
  LET at == {k \in j .. Len(w) : w[k].id >= id}
  IN  IF at = {} THEN Len(w) + 1 ELSE CHOOSE k \in at : \A l \in at : k <= l

Covers(w, k, comp) ==
  comp.n = 0 \/ (k <= Len(w) /\ w[k].id = comp.id /\ comp.n <= w[k].n)

CausallyBefore(v, w) ==
  LET walk[i \in 1 .. Len(v) + 1, j \in 1 .. Len(w) + 1] ==
        IF i > Len(v) THEN TRUE
        ELSE LET k == Reached(w, j, v[i].id)
             IN  Covers(w, k, v[i]) /\ walk[i + 1, k]
  IN  walk[1, 1]

\* The components as if inc had one more: inc may have to be added on the way.
Incremented(v, inc) ==
  LET before == SelectSeq(v, LAMBDA c : c.id < inc)
      after == SelectSeq(v, LAMBDA c : c.id > inc)
  IN  before \o <<Component(inc, Get(v, inc) + 1)>> \o after

CausallyBeforeInc(v, w, inc) == CausallyBefore(Incremented(v, inc), w)

SumUp(v) ==
  LET sum[i \in 0 .. Len(v)] == IF i = 0 THEN 0 ELSE sum[i - 1] + v[i].n IN sum[Len(v)]
Vdiff(v, w) == SumUp(w) - SumUp(v)

------------------------------------------------------------------------------
(* Text forms *)

ToText(v) == SelectSeq(v, LAMBDA c : c.n > 0)

\* Every pair is inserted where it belongs; a user who occurs twice is an error.
FromText(text) ==
  LET read[i \in 0 .. Len(text)] ==
        IF i = 0 THEN <<>>
        ELSE LET v == read[i - 1]
             IN  Insert(v, text[i].id, text[i].n, FindInsertPos(v, text[i].id))
  IN  read[Len(text)]

\* What v has more than from, which is before it.  Components that only v has
\* are written as they are, zeros included if a component of from follows.
ToTextDiff(v, from) ==
  LET base == SelectSeq(from, LAMBDA c : c.n > 0)
      last == IF base = <<>> THEN 0 ELSE Last(base).id
      Written(c) == Component(c.id, c.n - Get(base, c.id))
      IsWritten(c) == IF \E i \in DOMAIN base : base[i].id = c.id
                      THEN c.n > Get(base, c.id)
                      ELSE c.id < last \/ c.n > 0
      kept == SelectSeq(v, IsWritten)
  IN  [i \in DOMAIN kept |-> Written(kept[i])]

\* The walk goes through from; pos is where it stands in the vector it completes.
FromTextDiff(text, from) ==
  LET Completed(s, c) ==
        LET k == Reached(s.v, s.pos, c.id)
        IN  IF c.n = 0 THEN s
            ELSE IF k <= Len(s.v) /\ s.v[k].id = c.id
            THEN [v |-> [s.v EXCEPT ![k].n = @ + c.n], pos |-> k + 1]
            ELSE [v |-> Insert(s.v, c.id, c.n, k - 1), pos |-> k]
      walk[i \in 0 .. Len(from)] ==
        IF i = 0 THEN [v |-> FromText(text), pos |-> 1]
        ELSE Completed(walk[i - 1], from[i])
  IN  walk[Len(from)].v

------------------------------------------------------------------------------
(* Two vectors that are changed *)

VectorInit == vec = <<>> /\ orig = <<>>

SetComponent == \E id \in Ids, n \in 0 .. MaxN :
  vec' = Set(vec, id, n) /\ UNCHANGED orig

AddComponent == \E id \in Ids :
  /\ Get(vec, id) < MaxN
  /\ vec' = AddTo(vec, id, 1)
  /\ UNCHANGED orig

\* A copy is kept, of the whole vector or of what its text form says.
CopyVector == orig' = vec /\ UNCHANGED vec
ReadVector == vec' = FromText(ToText(vec)) /\ UNCHANGED orig
ReadDiff ==
  /\ CausallyBefore(orig, vec)
  /\ vec' = FromTextDiff(ToTextDiff(vec, orig), orig)
  /\ UNCHANGED orig

VectorNext == SetComponent \/ AddComponent \/ CopyVector \/ ReadVector \/ ReadDiff

------------------------------------------------------------------------------
(* Properties *)

\* The arrays stay sorted, which every walk relies on.
Sorted(v) == \A i, j \in DOMAIN v : i < j => v[i].id < v[j].id

Sign(n) == CompareFrom(n, 0)

\* Whatever zeros the arrays hold: the walks find what StateVector says, the
\* texts are read as what was written, and the order that requests are searched
\* by is one (of which the comment in compare asks for a test).
WalksExact ==
  /\ Sorted(vec) /\ Sorted(orig)
  /\ CausallyBefore(vec, orig) = V!Before(Value(vec), Value(orig))
  /\ CausallyBefore(orig, vec) = V!Before(Value(orig), Value(vec))
  /\ \A u \in Ids : CausallyBeforeInc(orig, vec, u) = V!BeforeInc(Value(orig), Value(vec), u)
  /\ CausallyBefore(orig, vec) => Vdiff(orig, vec) = V!Vdiff(Value(orig), Value(vec))
  /\ Value(FromText(ToText(vec))) = Value(vec)
  /\ CausallyBefore(orig, vec) =>
       /\ Value(FromTextDiff(ToTextDiff(vec, orig), orig)) = Value(vec)
       /\ Sorted(FromTextDiff(ToTextDiff(vec, orig), orig))
  /\ Compare(vec, orig) = -Compare(orig, vec)
  /\ (Compare(vec, orig) = 0) <=> (Value(vec) = Value(orig))

\* The order is transitive.
OrderTransitive == \A u \in Ids : \A n \in 0 .. MaxN :
  LET third == Set(orig, u, n)
  IN  Compare(vec, orig) <= 0 /\ Compare(orig, third) <= 0 => Compare(vec, third) <= 0
==============================================================================
