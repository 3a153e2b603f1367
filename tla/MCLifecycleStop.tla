--------------------------- MODULE MCLifecycleStop ---------------------------
(***************************************************************************)
(* SessionLifecycle with everything that ends a session's work.            *)
(***************************************************************************)
EXTENDS MCSessionLifecycle

\* A session is stopped or it is ended, not both; a prompt is queued only when
\* the startup is over and nobody coordinates mentions.
Fits ==
  /\ sess = "interrupted" \/ spc # "idle" => epc = "idle" /\ sess # "ended"
  /\ accepted # {} => \A t \in Turn : by[t] # "start" /\ pc[t] # "coord"
=============================================================================
