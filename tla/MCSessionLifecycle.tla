------------------------- MODULE MCSessionLifecycle -------------------------
(* SessionLifecycle on a small instance.                                   *)
EXTENDS SessionLifecycle, TLC

\* Tasks, prompts and harness objects are interchangeable.
Symmetry ==
  Permutations(Turn) \cup Permutations(Prompt) \cup Permutations(Harness)
=============================================================================
