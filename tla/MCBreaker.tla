------------------------------ MODULE MCBreaker ------------------------------
(* Breaker on a small instance: three concurrent requests, a threshold of  *)
(* two and counters that wrap at five, so that a long closed period can    *)
(* carry a counter past its width while requests are still running.        *)
EXTENDS Breaker
=============================================================================
