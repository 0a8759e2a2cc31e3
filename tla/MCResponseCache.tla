--------------------------- MODULE MCResponseCache ---------------------------
(* ResponseCache on a small instance.  The durations are the default, which *)
(* is the cleaner's interval, and one that never expires.                  *)
EXTENDS ResponseCache

MCDurations == {0, -1}
=============================================================================
