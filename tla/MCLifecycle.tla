----------------------------- MODULE MCLifecycle -----------------------------
(* Three requests, so that one may be answered before the signal, one      *)
(* during the shutdown and one not at all; any may become a session.       *)
EXTENDS Lifecycle
=============================================================================
