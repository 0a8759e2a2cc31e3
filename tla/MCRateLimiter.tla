---------------------------- MODULE MCRateLimiter ----------------------------
(* Two addresses with a quota of two, and time for three windows.          *)
EXTENDS RateLimiter
=============================================================================
