---------------------------- MODULE MCJobPolling ----------------------------
(* Model values for the runs of JobPolling. *)
EXTENDS JobPolling

CONSTANTS u1, u2, p1, p2
=============================================================================
