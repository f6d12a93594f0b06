--------------------------- MODULE MCMemoryLimiter ---------------------------
(* Model values for the run of MemoryLimiter. *)
EXTENDS MemoryLimiter

CONSTANTS c1, c2
=============================================================================
