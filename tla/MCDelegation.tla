---------------------------- MODULE MCDelegation ----------------------------
(***************************************************************************)
(* Delegation on small instances.                                          *)
(***************************************************************************)
EXTENDS Delegation, TLC

\* Run ids, agents, tasks and waiters are interchangeable.
Symmetry ==
  Permutations(Run) \cup Permutations(Agent) \cup Permutations(Task)

Agents(rs) == {row[r].agent : r \in rs} \ {None}

\* Two kinds of history: three runs of any agents, or four runs of one agent of
\* which at most one is active at a time.
Fits ==
  \/ Cardinality(Present) <= 3
  \/ Cardinality(Agents(Present)) <= 1 /\ Cardinality(Active) <= 1
=============================================================================
