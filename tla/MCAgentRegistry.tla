-------------------------- MODULE MCAgentRegistry --------------------------
(***************************************************************************)
(* AgentRegistry for TLC: the built-in agent and one more id, two file     *)
(* contents.  An installed registry sees two transactions, two crashes and *)
(* an error; a first install or upgrade three transactions, one of them    *)
(* the installation, and a crash and an error.                             *)
(***************************************************************************)
EXTENDS AgentRegistry

VARIABLE install

Bound == IF install = "existing" THEN [tx |-> 3, crashes |-> 2]
                                 ELSE [tx |-> 4, crashes |-> 1]

Fits == nextTx <= Bound.tx /\ faults.crashes <= Bound.crashes

BoundedInit ==
    /\ Init
    /\ install = IF settings.marker THEN "existing" ELSE "first"

BoundedSpec ==
    /\ BoundedInit
    /\ [][UNCHANGED install /\ Next /\ Fits']_<<vars, install>>
    /\ Fairness
=============================================================================
