---------------------------- MODULE MCSelfUpdate ----------------------------
(***************************************************************************)
(* SelfUpdate on small instances: enough process ids for two updates or a   *)
(* rollback and a restart.                                                  *)
(***************************************************************************)
EXTENDS SelfUpdate
=============================================================================
