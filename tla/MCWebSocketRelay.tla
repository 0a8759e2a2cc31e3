-------------------------- MODULE MCWebSocketRelay --------------------------
(* WebSocketRelay with three messages a side: one for the handshake, one   *)
(* to follow it and one that can be under way when the session ends.       *)
EXTENDS WebSocketRelay
=============================================================================
