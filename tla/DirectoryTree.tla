----------------------------- MODULE DirectoryTree -----------------------------
(***************************************************************************)
(* What the server's directory and a client's browser have in common: a    *)
(* tree of nodes, each with the id of its parent and its name, and         *)
(* requests that are numbered per connection.  The root has the id 0, and  *)
(* ids are never used twice.                                               *)
(***************************************************************************)
EXTENDS Naturals, Sequences, FiniteSets, SequencesExt

CONSTANTS Clients,  \* the browsers, one connection each
          Names,    \* of nodes
          None

Root == 0
Chat == 0           \* the chat session has a group, but no node: its id is free

Children(nodes, id) == {i \in DOMAIN nodes : nodes[i].parent = id}

Subtree(nodes, id) ==
  LET S[i \in DOMAIN nodes] == {i} \cup UNION {S[j] : j \in Children(nodes, i)}
  IN  S[id]

Path(nodes, id) ==
  LET P[i \in DOMAIN nodes] ==
        IF i = Root THEN <<>> ELSE Append(P[nodes[i].parent], nodes[i].name)
  IN  P[id]

Without(nodes, ids) == [i \in DOMAIN nodes \ ids |-> nodes[i]]
With(nodes, id, n) == [i \in DOMAIN nodes \cup {id} |-> IF i = id THEN n ELSE nodes[i]]

\* One side's handler stopped at an assertion or at a pointer to nothing.
Fail(side, reason) == [side EXCEPT !.failure = reason]
===============================================================================
