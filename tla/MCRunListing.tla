---------------------------- MODULE MCRunListing ----------------------------
(***************************************************************************)
(* The instance of RunListing that refutes WalkMissesNothing; what holds   *)
(* of walks is checked in MCParts.                                         *)
(***************************************************************************)
EXTENDS RunListing

NoFilter == { [statuses |-> RunStatus, runs |-> Runs] }
=============================================================================
