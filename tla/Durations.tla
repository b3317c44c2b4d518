----------------------------- MODULE Durations -----------------------------
(***************************************************************************)
(* The run durations of the analytics summary: the durations of the runs   *)
(* that are over, sorted, and the two percentiles shown of them.  Lengths  *)
(* are whole numbers and percentiles hundredths of them; the clock may     *)
(* have been set back, so a duration may be negative.                      *)
(***************************************************************************)
EXTENDS Integers, SequencesExt

CONSTANTS
  Lengths,  \* how long a run may take
  MaxRuns   \* bound on the runs that are over

ASSUME DurationsAssumption == Lengths \subseteq Int /\ MaxRuns \in Nat

VARIABLE durations  \* as sorted() returns them

DurationsInit == durations = <<>>

\* Variant: durations stay in the order of the rows.
LeftUnsorted(t) == Append(durations, t)

\* sorted() of the durations and one more.
SortedWith(t) ==
  LET NotOver == { i \in 1..Len(durations) : durations[i] <= t } IN
  InsertAt(durations, Cardinality(NotOver) + 1, t)

\* A run with its two times and a terminal status enters the summary.
RunEnds(t) ==
  /\ Len(durations) < MaxRuns
  /\ durations' = SortedWith(t)

\* The window of the next summary begins later, or is another agent's.
NextWindow == durations' = <<>>

DurationsNext == NextWindow \/ \E t \in Lengths : RunEnds(t)

DurationsSpec == DurationsInit /\ [][DurationsNext]_durations
-----------------------------------------------------------------------------
\* Variant: ranks are counted from one.
RankFromOne(values, pct) == Len(values) * pct

\* (len - 1) * pct, in hundredths.
Rank(values, pct) == (Len(values) - 1) * pct

\* The value at index k of the code, which counts from 0; the last one beyond.
At(values, k) == values[IF k < Len(values) THEN k + 1 ELSE Len(values)]

\* _percentile of some values, by interpolation between the two around the rank.
Percentile(values, pct) ==
  LET k == Rank(values, pct)
      f == k \div 100
  IN  100 * At(values, f) + (At(values, f + 1) - At(values, f)) * (k % 100)
-----------------------------------------------------------------------------
(***************************************************************************)
(* Properties.                                                             *)
(***************************************************************************)
\* Percentiles lie within the data and are in order, also of one run, of two, and of
\* as many as make the rank a whole number or the last: the p95 shown is never below
\* the p50, nor beyond the slowest run.
PercentilesAreOrdered ==
  durations # <<>> =>
    /\ 100 * durations[1] <= Percentile(durations, 50)
    /\ Percentile(durations, 50) <= Percentile(durations, 95)
    /\ Percentile(durations, 95) <= 100 * durations[Len(durations)]

\* p95 shows the slow tail: less than one in twenty of the other runs, and one more,
\* are slower, and less than nineteen in twenty, and one more, are faster.
P95ShowsTheTail ==
  LET n == Len(durations)
      p == Percentile(durations, 95)
      Slower == { i \in 1..n : 100 * durations[i] > p }
      Faster == { i \in 1..n : 100 * durations[i] < p }
  IN  n > 0 => /\ 100 * Cardinality(Slower) < (n - 1) * 5 + 100
               /\ 100 * Cardinality(Faster) < (n - 1) * 95 + 100
=============================================================================
