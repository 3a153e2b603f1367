----------------------------- MODULE MCScheduler -----------------------------
(***************************************************************************)
(* Scheduler and BackgroundRail on a small instance: two fires of the job,  *)
(* one delegation outcome, one usable chat and one whose agent is gone.     *)
(* What users do and what fails share one budget: any pair of them happens. *)
(* An outcome and a crash, which have many interleavings of their own, come  *)
(* alone.  A toggle asks for the flag the job does not have and an update    *)
(* for another binding: those that would change nothing are left to the      *)
(* pause, which like a plugin's sync may write back all it has read.         *)
(***************************************************************************)
EXTENDS Scheduler

CONSTANT MaxDisturbances

Posted == {o \in Outcome : rail'[o].st # "unsent"}

Fits == acts' + faults' + 2 * crashes' + 2 * Cardinality(Posted) <= MaxDisturbances

Telling ==
  \A n \in 1 .. MaxActs :
    /\ edit[n].step = "none" /\ edit'[n].step = "toggle" => edit'[n].on # job.on
    /\ edit[n].step = "none" /\ edit'[n].step = "update" => edit'[n].home # job.home

BoundedSpec == Init /\ [][Next /\ Fits /\ Telling]_vars /\ Fairness
=============================================================================
