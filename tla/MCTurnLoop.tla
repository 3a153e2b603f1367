----------------------------- MODULE MCTurnLoop -----------------------------
(***************************************************************************)
(* The turn loop on a small instance.                                      *)
(***************************************************************************)
EXTENDS TurnLoop

OneCall == CHOOSE c \in Call : TRUE

\* Two kinds of session: one turn with several calls at a time, a steer and a
\* fault but no compaction; or two turns with one call at a time, a compaction,
\* and a steer or a fault.
Fits ==
  \/ Cardinality(asked) <= 1 /\ compactions = 0
  \/ /\ \A i \in DOMAIN ledger : ledger[i].uses \subseteq {OneCall}
     /\ Cardinality(pushed) + faults <= 1

BoundedSpec == Init /\ [][Next /\ Fits']_vars /\ Fairness
=============================================================================
