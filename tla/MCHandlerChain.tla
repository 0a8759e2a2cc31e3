--------------------------- MODULE MCHandlerChain ---------------------------
(* Two services as in config.yaml: the base path of the first is a prefix  *)
(* of the second's, and only the second takes WebSockets.                  *)
EXTENDS HandlerChain

MCServices == <<"api", "consumer">>
MCPaths == {"/api", "/api/consumer", "/other"}
MCMatchedBy ==
  [p \in MCPaths |-> CASE p = "/api" -> {"api"}
                       [] p = "/other" -> {}
                       [] OTHER -> {"api", "consumer"}]
=============================================================================
