-------------------------- MODULE MCConnectionPool --------------------------
(***************************************************************************)
(* The instances of ConnectionPool that TLC checks.                        *)
(***************************************************************************)
EXTENDS ConnectionPool
=============================================================================
