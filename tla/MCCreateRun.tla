---------------------------- MODULE MCCreateRun ----------------------------
(***************************************************************************)
(* The instances of CreateRun that TLC checks.                             *)
(***************************************************************************)
EXTENDS CreateRun, TLC

\* Requests, agents, inputs and the rests of bodies are interchangeable.
CreateSymmetry ==
  Permutations(Requests) \union Permutations(Agents)
    \union Permutations(Inputs) \union Permutations(Extras)
=============================================================================
