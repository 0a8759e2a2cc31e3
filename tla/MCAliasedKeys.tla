---------------------------- MODULE MCAliasedKeys ----------------------------
(* One Ctx and two paths: two requests in a row.                           *)
EXTENDS AliasedKeys
=============================================================================
