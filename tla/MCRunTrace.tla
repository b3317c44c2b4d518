----------------------------- MODULE MCRunTrace -----------------------------
(***************************************************************************)
(* The instances of RunTrace that TLC checks.                              *)
(***************************************************************************)
EXTENDS RunTrace, TLC

\* Runs are interchangeable, and so are cancels.
TraceSymmetry == Permutations(Runs) \union Permutations(Cancels)
=============================================================================
