-------------------------- MODULE MCLearningQueue --------------------------
(***************************************************************************)
(* An instance of LearningQueue for TLC: the daemon's worker and one task  *)
(* in deliver_through.                                                     *)
(***************************************************************************)
EXTENDS LearningQueue
=============================================================================
