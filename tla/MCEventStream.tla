--------------------------- MODULE MCEventStream ---------------------------
(***************************************************************************)
(* The instances of EventStream that TLC checks.                           *)
(***************************************************************************)
EXTENDS EventStream, TLC

\* Streams are interchangeable; used where no liveness is checked.
StreamSymmetry == Permutations(Streams)

\* What may disturb a stream: a step that was tried again, a cancel of a run that was
\* not over, a failure.
Disturbances ==
  (IF \E r \in Runs : \E k \in 1..Len(steps[r]) : steps[r][k].attempt > 1 THEN 1 ELSE 0)
    + (IF \E c \in Cancels : cpc[c] # "idle" /\ cloaded[c] \notin TerminalStatus THEN 1 ELSE 0)
    + (IF faults > 0 THEN 1 ELSE 0)

Busy == { s \in Streams : smode[s] # "idle" }

\* Two streams beside a run of three steps that nothing disturbs; or one, beside a
\* run of three steps that all may disturb, or of four that one of them may.
FewAtATime ==
  IF Cardinality(Busy) > 1
  THEN Disturbances = 0 /\ \A r \in Runs : Len(plan[r]) <= 3
  ELSE Disturbances <= 1 \/ \A r \in Runs : Len(plan[r]) <= 3
=============================================================================
