-------------------------- MODULE MCConnectionPool --------------------------
(* The instance of ConnectionPool for TLC. *)
EXTENDS ConnectionPool
=============================================================================
