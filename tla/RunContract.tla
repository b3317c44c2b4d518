---------------------------- MODULE RunContract ----------------------------
(***************************************************************************)
(* What the service promises of a run, told without tasks, sessions, flags *)
(* or retries: steps are opened one after another until the run is asked   *)
(* to stop or a verdict is reached; a verdict is reached once, and agrees  *)
(* with whether the run was asked to stop; it is then recorded.            *)
(***************************************************************************)
EXTENDS Naturals

CONSTANT Runs

VARIABLES
  opened,    \* the number of steps opened
  asked,     \* the run was asked to stop while its verdict was open
  verdict,   \* "none" until it is reached
  recorded   \* the verdict clients can read, "none" until then

contractVars == <<opened, asked, verdict, recorded>>

Verdict == {"succeeded", "failed", "cancelled"}

Init ==
  /\ opened = [r \in Runs |-> 0]
  /\ asked = [r \in Runs |-> FALSE]
  /\ verdict = [r \in Runs |-> "none"]
  /\ recorded = [r \in Runs |-> "none"]

\* No step is opened once the run was asked to stop.
Open(r) ==
  /\ verdict[r] = "none"
  /\ ~asked[r]
  /\ opened' = [opened EXCEPT ![r] = @ + 1]
  /\ UNCHANGED <<asked, verdict, recorded>>

Ask(r) ==
  /\ verdict[r] = "none"
  /\ asked' = [asked EXCEPT ![r] = TRUE]
  /\ UNCHANGED <<opened, verdict, recorded>>

\* A step that fails for good ends the run; otherwise the run is cancelled
\* exactly if it was asked to stop.
Settle(r, v) ==
  /\ verdict[r] = "none"
  /\ \/ v = "failed" /\ opened[r] > 0
     \/ v = "cancelled" /\ asked[r]
     \/ v = "succeeded" /\ ~asked[r] /\ opened[r] > 0
  /\ verdict' = [verdict EXCEPT ![r] = v]
  /\ UNCHANGED <<opened, asked, recorded>>

Record(r) ==
  /\ verdict[r] # "none"
  /\ recorded[r] = "none"
  /\ recorded' = [recorded EXCEPT ![r] = verdict[r]]
  /\ UNCHANGED <<opened, asked, verdict>>

Next == \E r \in Runs : \/ Open(r) \/ Ask(r) \/ Record(r)
                        \/ \E v \in Verdict : Settle(r, v)

Spec == Init /\ [][Next]_contractVars
=============================================================================
