--------------------------- MODULE MCRunLifecycle ---------------------------
(***************************************************************************)
(* The instances of RunLifecycle that TLC checks.                          *)
(***************************************************************************)
EXTENDS RunLifecycleProperties, TLC

\* Cancels are interchangeable; used where no liveness is checked.
CancelSymmetry == Permutations(Cancels)
=============================================================================
