---------------------------- MODULE MCRequestPath ----------------------------
(* RequestPath on small instances, with two requests at a time to one      *)
(* service: for safety, where the requests are interchangeable, and with   *)
(* a shorter clock for what must happen.                                   *)
EXTENDS RequestPath, TLC

Interchangeable == Permutations(Callers)
=============================================================================
