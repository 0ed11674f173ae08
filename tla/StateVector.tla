----------------------------- MODULE StateVector -----------------------------
(***************************************************************************)
(* State vectors (inf-adopted-state-vector.c): how many requests of every  *)
(* user have been processed.  A component that the C structure does not    *)
(* store counts as zero, so a vector is a function from users to numbers.  *)
(***************************************************************************)
EXTENDS Integers, FiniteSets, FiniteSetsExt

CONSTANT Users

Vectors == [Users -> Nat]

Zero == [u \in Users |-> 0]

\* inf_adopted_state_vector_causally_before
Before(v, w) == \A u \in Users : v[u] <= w[u]

Add(v, u, by) == [v EXCEPT ![u] = @ + by]

\* inf_adopted_state_vector_causally_before_inc
BeforeInc(v, w, u) == Before(Add(v, u, 1), w)

SumOf(v) == MapThenSumSet(LAMBDA u : v[u], Users)

\* inf_adopted_state_vector_vdiff; only asked when Before(v, w)
Vdiff(v, w) == SumOf(w) - SumOf(v)

\* inf_adopted_algorithm_least_common_successor and _predecessor
LeastCommonSuccessor(v, w) ==
  [u \in Users |-> IF v[u] >= w[u] THEN v[u] ELSE w[u]]

LeastCommonPredecessor(v, w) ==
  [u \in Users |-> IF v[u] <= w[u] THEN v[u] ELSE w[u]]
==============================================================================
