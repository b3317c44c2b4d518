--------------------------- MODULE RunTraceProofs ---------------------------
(***************************************************************************)
(* Proofs about RunTrace, for any runs, cancels, plans, retries and        *)
(* failures: traces are trees, rows name the span of the attempt they      *)
(* show, and the trace of a finished run tells what is stored of it.       *)
(*                                                                         *)
(* The inductive invariant TraceInv ties the open spans to the place where *)
(* the task is suspended, and what the spans tell to its local step.       *)
(***************************************************************************)
EXTENDS RunTrace, RunLifecycleProofs, FiniteSetTheorems
-----------------------------------------------------------------------------
(***************************************************************************)
(* The inductive invariant.                                                *)
(***************************************************************************)
SpanType ==
  [kind: SpanKind, parent: [run: Runs \union {"none"}, number: Nat], step: Nat,
   attempt: Nat, status: {"unset", "ok", "error"},
   verdict: TerminalStatus \union {"none"}, ended: BOOLEAN]

TraceTypeOK ==
  /\ spans \in [Runs -> Seq(SpanType)]
  /\ rowSpan \in [Runs -> Seq(Nat)]
  /\ retried \in [Runs -> Nat]
  /\ counted \in [Runs -> TerminalStatus \union {"none"}]

\* TracesAreTrees and RowsNameTheirSpan, of one list, in step k, and one table.
Tree(r, list, k) ==
  \A n \in 1..Len(list) :
    /\ n = 1 <=> list[n].kind = "agent.run"
    /\ n = 1 => list[n].parent = NoSpan
    /\ n > 1 =>
         /\ list[n].parent.run = r /\ list[n].parent.number \in 1..(n - 1)
         /\ list[list[n].parent.number].kind = IF IsStepSpan(list[n]) THEN "agent.run"
                                               ELSE "agent.step"
         /\ n \in Opened(list) => list[n].parent.number \in Opened(list)
    /\ n \in Opened(list) /\ IsStepSpan(list[n]) =>
         /\ list[n].step = k
         /\ \A m \in (n + 1)..Len(list) : ~IsStepSpan(list[m])

Verdict(row) == IF row.status = "succeeded" THEN "ok" ELSE "error"

\* Number n is the span of an attempt at step i that ended as row says.
Names(list, n, i, row) ==
  /\ n \in StepSpans(list) /\ list[n].step = i /\ list[n].attempt = row.attempt
  /\ list[n].status = Verdict(row)

NamesOK(r) ==
  /\ Len(rowSpan[r]) = Len(steps[r])
  /\ \A i \in 1..Len(steps[r]) :
       IF steps[r][i].status = "running" THEN rowSpan[r][i] = 0
       ELSE Names(spans[r], rowSpan[r][i], i, steps[r][i])

\* The spans tell of k steps, the last of which has been tried b times and is at
\* attempt a: what was tried before the last attempt has failed.
Tells(list, rows, k, a, b) ==
  /\ \A n \in StepSpans(list) :
       LET i == list[n].step
           m == list[n].attempt
       IN  /\ i \in 1..k
           /\ i < k => m \in 1..rows[i].attempt
                       /\ (m < rows[i].attempt => list[n].status = "error")
           /\ i = k => m \in 1..b /\ (m < a => list[n].status = "error")
  /\ \A i \in 1..(k - 1) : \A m \in 1..rows[i].attempt :
       \E n \in StepSpans(list) : list[n].step = i /\ list[n].attempt = m
  /\ k > 0 => \A m \in 1..b :
       \E n \in StepSpans(list) : list[n].step = k /\ list[n].attempt = m
  /\ \A m, n \in StepSpans(list) : m < n => Before(list[m], list[n])

\* All steps but the one at work show the calls they have made.
CallsOK(list, types) ==
  \A n \in StepSpans(list) :
    \/ n \in Opened(list) /\ list[n].status = "unset"
    \/ CallsShown(list, n, types[list[n].step])

\* The span of the next attempt is not open yet; it is; a retry was counted whose
\* span is not open yet.
Awaiting(r) == pc[r] \in {"persist", "publish"} /\ cur[r].status = "running"

UnderWay(r) ==
  pc[r] = "working" \/ (pc[r] \in {"persist", "publish", "backoff"} /\ cur[r].status # "running")

Pending(r) ==
  pc[r] \in InLoop /\ (cur[r].status = "retrying" \/ (Awaiting(r) /\ cur[r].attempt > 1))

NotStarted == {"absent", "inserted", "scheduled"}

\* Where the attempt at work is, with span n: nothing was called yet, the model is
\* being called, or the tool.
AtWork(list, n, types) ==
  LET len == Len(list) IN
  /\ list[n].status = "unset"
  /\ Children(list, n) = (n + 1)..len
  /\ \/ n = len /\ Opened(list) = {1, n}
     \/ /\ n + 1 = len /\ Opened(list) = {1, n, len}
        /\ types[list[n].step] = "sub_agent"
        /\ list[n + 1].kind = "agent.sub_step.model_call"
     \/ /\ n + 2 = len /\ Opened(list) = {1, n, len}
        /\ types[list[n].step] = "sub_agent"
        /\ list[n + 1].kind = "agent.sub_step.model_call"
        /\ list[n + 2].kind = "agent.sub_step.tool_call"

\* The span of the local step, and which spans are open beside the root.
AttemptOpen(r, n) ==
  LET list == spans[r] IN
  /\ n \in StepSpans(list) /\ list[n].step = seq[r] /\ list[n].attempt = cur[r].attempt
  /\ IF pc[r] = "working" THEN AtWork(list, n, plan[r])
     ELSE Opened(list) = {1, n} /\ list[n].status = Verdict(cur[r])

OpenOK(r) ==
  /\ pc[r] \in NotStarted => spans[r] = <<>>
  /\ pc[r] \in {"set_running", "begin"} => Len(spans[r]) = 1
  /\ pc[r] \in {"set_running", "begin", "set_final", "announce"} \/ Awaiting(r) =>
       Opened(spans[r]) = {1}
  /\ pc[r] = "done" => Opened(spans[r]) = {}
  /\ UnderWay(r) => \E n \in 2..Len(spans[r]) : AttemptOpen(r, n)

\* The local step and the retries, which the spans bear out.
ToldOK(r) ==
  /\ pc[r] \in NotStarted => retried[r] = 0
  /\ pc[r] = "working" => cur[r].status = "running"
  /\ pc[r] \in AfterLoop /\ seq[r] > 0 => steps[r][seq[r]] = cur[r]
  /\ pc[r] \notin NotStarted \union {"crashed"} =>
       /\ Len(spans[r]) > 0
       /\ Tells(spans[r], steps[r], seq[r], cur[r].attempt,
                IF Awaiting(r) THEN cur[r].attempt - 1 ELSE cur[r].attempt)
       /\ CallsOK(spans[r], plan[r])
       /\ retried[r] = Cardinality(Later(spans[r])) + (IF Pending(r) THEN 1 ELSE 0)

\* TraceTellsTheRun, of one run: what is told, and what the root span shows.
RunTold(r) ==
  LET list == spans[r]
      n == Len(steps[r])
  IN  /\ Len(list) > 0
      /\ Tells(list, steps[r], n, steps[r][n].attempt, steps[r][n].attempt)
      /\ \A m \in StepSpans(list) : CallsShown(list, m, plan[r][list[m].step])
      /\ retried[r] = Cardinality(Later(list))

Shows(root, v) ==
  root.verdict = v /\ root.status = IF v = "failed" THEN "error" ELSE "ok"

VerdictOK(r) ==
  /\ pc[r] \in AfterLoop => Shows(spans[r][1], outcome[r])
  /\ pc[r] # "done" => counted[r] = "none"
  /\ pc[r] = "done" => result[r] # "none" /\ counted[r] = result[r]
  /\ pc[r] = "announce" => result[r] # "none"
  /\ result[r] # "none" => RunTold(r) /\ Shows(spans[r][1], result[r])

TraceOK(r) ==
  /\ Tree(r, spans[r], seq[r]) /\ NamesOK(r) /\ OpenOK(r) /\ ToldOK(r) /\ VerdictOK(r)

TraceInv == TraceTypeOK /\ \A r \in Runs : TraceOK(r)
-----------------------------------------------------------------------------
(***************************************************************************)
(* Lists of spans.                                                         *)
(***************************************************************************)
\* The fields of a span that never change.
Alike(s, t) ==
  s.kind = t.kind /\ s.parent = t.parent /\ s.step = t.step /\ s.attempt = t.attempt

\* The same spans in the same tree.
SameTree(a, b) ==
  b \in Seq(SpanType) /\ Len(b) = Len(a) /\ \A n \in 1..Len(a) : Alike(b[n], a[n])

\* The fields of a span.
LEMMA SpanFields ==
  ASSUME NEW s \in SpanType
  PROVE  /\ s.kind \in SpanKind /\ s.step \in Nat /\ s.attempt \in Nat
         /\ s.parent.number \in Nat /\ s.status \in {"unset", "ok", "error"}
         /\ s.ended \in BOOLEAN
BY DEF SpanType

\* What becomes of the fields of a span when it is left, marked or judged.
LEMMA SpanEnded ==
  ASSUME NEW s \in SpanType
  PROVE  LET t == [s EXCEPT !.ended = TRUE] IN
         /\ t \in SpanType /\ Alike(t, s) /\ t.ended
         /\ t.status = s.status /\ t.verdict = s.verdict
BY DEF SpanType, Alike

LEMMA SpanMarked ==
  ASSUME NEW s \in SpanType, NEW mark \in {"unset", "ok", "error"}
  PROVE  LET t == [s EXCEPT !.status = mark] IN
         /\ t \in SpanType /\ Alike(t, s) /\ t.ended = s.ended
         /\ t.status = mark /\ t.verdict = s.verdict
BY DEF SpanType, Alike

LEMMA SpanJudged ==
  ASSUME NEW s \in SpanType, NEW v \in TerminalStatus \union {"none"}
  PROVE  LET t == [s EXCEPT !.verdict = v] IN
         /\ t \in SpanType /\ Alike(t, s) /\ t.ended = s.ended
         /\ t.status = s.status /\ t.verdict = v
BY DEF SpanType, Alike

\* The open spans of a list are numbers of its spans.
LEMMA OpenedIs ==
  ASSUME NEW a \in Seq(SpanType)
  PROVE  /\ Len(a) \in Nat /\ DOMAIN a = 1..Len(a)
         /\ \A n \in 1..Len(a) : a[n] \in SpanType
         /\ Opened(a) \subseteq 1..Len(a)
         /\ \A n \in 1..Len(a) : n \in Opened(a) <=> ~a[n].ended
         /\ StepSpans(a) \subseteq 1..Len(a) /\ Later(a) \subseteq StepSpans(a)
<1>1. Len(a) \in Nat /\ DOMAIN a = 1..Len(a)
  BY LenProperties
<1>2. \A n \in 1..Len(a) : a[n] \in SpanType
  BY ElementOfSeq
<1>3. QED
  BY <1>1, <1>2 DEF Opened, IsOpen, StepSpans, Later

\* The innermost span is the open one with the greatest number.
LEMMA InnermostIs ==
  ASSUME NEW a \in Seq(SpanType), NEW m \in Opened(a), \A x \in Opened(a) : x <= m
  PROVE  Innermost(a) = m
<1>1. Opened(a) \subseteq Nat
  BY OpenedIs
<1>2. /\ Innermost(a) \in Opened(a)
      /\ \A x \in Opened(a) : x <= Innermost(a)
  BY DEF Innermost
<1>3. QED
  BY <1>1, <1>2

\* The list with one span changed.
LEMMA SpanReplaced ==
  ASSUME NEW a \in Seq(SpanType), NEW m \in 1..Len(a), NEW t \in SpanType
  PROVE  /\ [a EXCEPT ![m] = t] \in Seq(SpanType)
         /\ Len([a EXCEPT ![m] = t]) = Len(a)
         /\ \A n \in 1..Len(a) : [a EXCEPT ![m] = t][n] = IF n = m THEN t ELSE a[n]
<1>1. Len(a) \in Nat /\ DOMAIN a = 1..Len(a)
  BY LenProperties
<1>2. QED
  BY <1>1, ExceptSeq

\* Leaving the innermost span.
LEMMA LeaveIs ==
  ASSUME NEW a \in Seq(SpanType), NEW m \in Opened(a), \A x \in Opened(a) : x <= m
  PROVE  /\ SameTree(a, Leave(a))
         /\ Opened(Leave(a)) = Opened(a) \ {m}
         /\ \A n \in 1..Len(a) : /\ Leave(a)[n].status = a[n].status
                                 /\ Leave(a)[n].verdict = a[n].verdict
<1> DEFINE t == [a[m] EXCEPT !.ended = TRUE]
           b == [a EXCEPT ![m] = t]
<1>1. m \in 1..Len(a) /\ a[m] \in SpanType
  BY OpenedIs
<1>2. /\ t \in SpanType /\ Alike(t, a[m]) /\ t.ended
      /\ t.status = a[m].status /\ t.verdict = a[m].verdict
  BY <1>1, SpanEnded
<1>3. Leave(a) = b
  BY InnermostIs DEF Leave
<1> HIDE DEF t
<1>4. /\ b \in Seq(SpanType) /\ Len(b) = Len(a)
      /\ \A n \in 1..Len(a) : b[n] = IF n = m THEN t ELSE a[n]
  BY <1>1, <1>2, SpanReplaced
<1> HIDE DEF b
<1>5. SameTree(a, b)
  BY <1>2, <1>4 DEF SameTree, Alike
<1>6. Opened(b) = Opened(a) \ {m}
  <2>1. \A n \in 1..Len(a) : n \in Opened(b) <=> ~b[n].ended
    BY <1>4, OpenedIs
  <2>2. \A n \in 1..Len(a) : n \in Opened(a) <=> ~a[n].ended
    BY OpenedIs
  <2>3. Opened(b) \subseteq 1..Len(a) /\ Opened(a) \subseteq 1..Len(a)
    BY <1>4, OpenedIs
  <2>4. \A n \in 1..Len(a) : n \in Opened(b) <=> n \in Opened(a) /\ n # m
    BY <1>2, <1>4, <2>1, <2>2
  <2>5. QED
    BY <2>3, <2>4
<1>7. QED
  BY <1>2, <1>3, <1>4, <1>5, <1>6

\* Giving the innermost span a status.
LEMMA MarkedIs ==
  ASSUME NEW a \in Seq(SpanType), NEW m \in Opened(a), \A x \in Opened(a) : x <= m,
         NEW mark \in {"ok", "error"}
  PROVE  /\ SameTree(a, Marked(a, mark))
         /\ Opened(Marked(a, mark)) = Opened(a)
         /\ \A n \in 1..Len(a) :
              /\ Marked(a, mark)[n].status = IF n = m THEN mark ELSE a[n].status
              /\ Marked(a, mark)[n].verdict = a[n].verdict
<1> DEFINE t == [a[m] EXCEPT !.status = mark]
           b == [a EXCEPT ![m] = t]
<1>1. m \in 1..Len(a) /\ a[m] \in SpanType
  BY OpenedIs
<1>2. /\ t \in SpanType /\ Alike(t, a[m]) /\ t.ended = a[m].ended
      /\ t.status = mark /\ t.verdict = a[m].verdict
  BY <1>1, SpanMarked
<1>3. Marked(a, mark) = b
  BY InnermostIs DEF Marked
<1> HIDE DEF t
<1>4. /\ b \in Seq(SpanType) /\ Len(b) = Len(a)
      /\ \A n \in 1..Len(a) : b[n] = IF n = m THEN t ELSE a[n]
  BY <1>1, <1>2, SpanReplaced
<1> HIDE DEF b
<1>5. SameTree(a, b)
  BY <1>2, <1>4 DEF SameTree, Alike
<1>6. Opened(b) = Opened(a)
  <2>1. \A n \in 1..Len(a) : n \in Opened(b) <=> ~b[n].ended
    BY <1>4, OpenedIs
  <2>2. \A n \in 1..Len(a) : n \in Opened(a) <=> ~a[n].ended
    BY OpenedIs
  <2>3. Opened(b) \subseteq 1..Len(a) /\ Opened(a) \subseteq 1..Len(a)
    BY <1>4, OpenedIs
  <2>4. \A n \in 1..Len(a) : n \in Opened(b) <=> n \in Opened(a)
    BY <1>2, <1>4, <2>1, <2>2
  <2>5. QED
    BY <2>3, <2>4
<1>7. QED
  BY <1>2, <1>3, <1>4, <1>5, <1>6

\* An exception leaves all spans and overrides no status.
LEMMA BrokenIs ==
  ASSUME NEW a \in Seq(SpanType)
  PROVE  /\ SameTree(a, Broken(a)) /\ Opened(Broken(a)) = {}
         /\ \A n \in 1..Len(a) :
              a[n].status # "unset" => Broken(a)[n].status = a[n].status
<1> DEFINE t(n) == [a[n] EXCEPT !.ended = TRUE,
                                !.status = IF @ = "ok" THEN "ok" ELSE "error"]
           b == Broken(a)
<1>1. Len(a) \in Nat /\ DOMAIN a = 1..Len(a) /\ \A n \in 1..Len(a) : a[n] \in SpanType
  BY OpenedIs
<1>2. ASSUME NEW n \in 1..Len(a)
      PROVE  /\ t(n) \in SpanType /\ Alike(t(n), a[n]) /\ t(n).ended
             /\ a[n].status # "unset" => t(n).status = a[n].status
  BY <1>1 DEF SpanType, Alike
<1>3. b = [n \in 1..Len(a) |-> IF ~IsOpen(a[n]) THEN a[n] ELSE t(n)]
  BY <1>1 DEF Broken
<1> HIDE DEF t, b
<1>4. b \in Seq(SpanType) /\ Len(b) = Len(a)
  BY <1>1, <1>2, <1>3, IsASeq
<1>5. \A n \in 1..Len(a) : b[n] = IF a[n].ended THEN a[n] ELSE t(n)
  BY <1>3 DEF IsOpen
<1>6. SameTree(a, b)
  BY <1>2, <1>4, <1>5 DEF SameTree, Alike
<1>7. Opened(b) = {}
  <2>1. \A n \in 1..Len(a) : n \in Opened(b) <=> ~b[n].ended
    BY <1>4, OpenedIs
  <2>2. Opened(b) \subseteq 1..Len(a)
    BY <1>4, OpenedIs
  <2>3. QED
    BY <1>2, <1>5, <2>1, <2>2
<1>8. \A n \in 1..Len(a) : a[n].status # "unset" => b[n].status = a[n].status
  BY <1>2, <1>5
<1>9. QED
  BY <1>6, <1>7, <1>8 DEF b

\* The verdict is shown by the root span only.
LEMMA SettledIs ==
  ASSUME NEW a \in Seq(SpanType), Len(a) > 0, NEW r,
         outcome'[r] \in TerminalStatus \union {"none"}
  PROVE  /\ SameTree(a, Settled(r, a)) /\ Opened(Settled(r, a)) = Opened(a)
         /\ \A n \in 1..Len(a) : n > 1 => Settled(r, a)[n].status = a[n].status
         /\ outcome'[r] # "none" => Shows(Settled(r, a)[1], outcome'[r])
<1>1. Len(a) \in Nat /\ 1 \in 1..Len(a) /\ \A n \in 1..Len(a) : a[n] \in SpanType
  BY OpenedIs
<1>2. CASE outcome'[r] = "none"
  BY <1>1, <1>2 DEF Settled, SameTree, Alike
<1>3. CASE outcome'[r] # "none"
  <2> DEFINE mark == IF outcome'[r] = "failed" THEN "error" ELSE "ok"
             s == [a[1] EXCEPT !.verdict = outcome'[r]]
             c == [a EXCEPT ![1] = s]
             t == [s EXCEPT !.status = mark]
             b == [a EXCEPT ![1] = t]
  <2>1. /\ s \in SpanType /\ Alike(s, a[1]) /\ s.ended = a[1].ended
        /\ s.verdict = outcome'[r]
    BY <1>1, SpanJudged
  <2>2. t \in SpanType /\ Alike(t, s) /\ t.ended = s.ended /\ t.verdict = s.verdict
        /\ t.status = mark
    <3> HIDE DEF s
    <3>1. mark \in {"unset", "ok", "error"}
      OBVIOUS
    <3> HIDE DEF mark
    <3>2. QED
      BY <2>1, <3>1, SpanMarked
  <2>3. Settled(r, a) = [[a EXCEPT ![1].verdict = outcome'[r]] EXCEPT ![1].status = mark]
    BY <1>3 DEF Settled
  <2>4. [a EXCEPT ![1].verdict = outcome'[r]] = c
    OBVIOUS
  <2>5. c[1] = s /\ c = [a EXCEPT ![1] = s]
    BY <1>1, LenProperties
  <2>6. [c EXCEPT ![1].status = mark] = [c EXCEPT ![1] = t]
    BY <2>5, Zenon
  <2>7. [c EXCEPT ![1] = t] = b
    <3> HIDE DEF s, t
    <3>1. DOMAIN a = 1..Len(a)
      BY LenProperties
    <3>2. QED
      BY <3>1
  <2>8. Settled(r, a) = b
    BY <2>3, <2>4, <2>6, <2>7, Zenon
  <2> HIDE DEF s, t, mark, c
  <2>9. /\ b \in Seq(SpanType) /\ Len(b) = Len(a)
        /\ \A n \in 1..Len(a) : b[n] = IF n = 1 THEN t ELSE a[n]
    BY <1>1, <2>2, SpanReplaced
  <2> HIDE DEF b
  <2>10. SameTree(a, b)
    BY <2>1, <2>2, <2>9 DEF SameTree, Alike
  <2>11. Opened(b) = Opened(a)
    <3>1. \A n \in 1..Len(a) : n \in Opened(b) <=> ~b[n].ended
      BY <2>9, OpenedIs
    <3>2. \A n \in 1..Len(a) : n \in Opened(a) <=> ~a[n].ended
      BY OpenedIs
    <3>3. Opened(b) \subseteq 1..Len(a) /\ Opened(a) \subseteq 1..Len(a)
      BY <2>9, OpenedIs
    <3>4. \A n \in 1..Len(a) : n \in Opened(b) <=> n \in Opened(a)
      BY <2>1, <2>2, <2>9, <3>1, <3>2
    <3>5. QED
      BY <3>3, <3>4
  <2>12. Shows(b[1], outcome'[r])
    BY <1>1, <2>1, <2>2, <2>9 DEF Shows, mark
  <2>13. QED
    BY <2>8, <2>9, <2>10, <2>11, <2>12
<1>4. QED
  BY <1>2, <1>3

\* A span as it is opened.
LEMMA SpanIs ==
  ASSUME NEW kind \in SpanKind, NEW parent \in [run: Runs \union {"none"}, number: Nat],
         NEW k \in Nat, NEW m \in Nat
  PROVE  LET s == Span(kind, parent, k, m) IN
         /\ s \in SpanType /\ ~s.ended /\ s.status = "unset"
         /\ s.kind = kind /\ s.parent = parent /\ s.step = k /\ s.attempt = m
BY DEF Span, SpanType

\* A list with one more open span.
LEMMA GrownIs ==
  ASSUME NEW a \in Seq(SpanType), NEW s \in SpanType, ~s.ended
  PROVE  LET b == Append(a, s)
             last == Len(a) + 1
         IN  /\ b \in Seq(SpanType) /\ Len(b) = last /\ b[last] = s
             /\ \A n \in 1..Len(a) : b[n] = a[n]
             /\ Opened(b) = Opened(a) \union {last}
             /\ StepSpans(b) = StepSpans(a) \union (IF IsStepSpan(s) THEN {last} ELSE {})
             /\ Later(b) = Later(a) \union (IF IsStepSpan(s) /\ s.attempt > 1 THEN {last} ELSE {})
             /\ \A n \in Nat : Children(b, n) = Children(a, n) \union
                                 (IF s.parent.number = n THEN {last} ELSE {})
<1> DEFINE b == Append(a, s)
           last == Len(a) + 1
<1>1. /\ b \in Seq(SpanType) /\ Len(b) = last /\ b[last] = s
      /\ \A n \in 1..Len(a) : b[n] = a[n]
  BY AppendProperties
<1> HIDE DEF b
<1>2. /\ Len(a) \in Nat /\ 1..last = (1..Len(a)) \union {last} /\ last \notin 1..Len(a)
  BY OpenedIs
<1>3. Opened(b) = Opened(a) \union {last}
  <2>1. \A n \in 1..last : n \in Opened(b) <=> ~b[n].ended
    BY <1>1, OpenedIs
  <2>2. \A n \in 1..Len(a) : n \in Opened(a) <=> ~a[n].ended
    BY OpenedIs
  <2>3. Opened(b) \subseteq 1..last /\ Opened(a) \subseteq 1..Len(a)
    BY <1>1, OpenedIs
  <2>4. QED
    BY <1>1, <1>2, <2>1, <2>2, <2>3
<1>4. StepSpans(b) = StepSpans(a) \union (IF IsStepSpan(s) THEN {last} ELSE {})
  BY <1>1, <1>2 DEF StepSpans
<1>5. Later(b) = Later(a) \union (IF IsStepSpan(s) /\ s.attempt > 1 THEN {last} ELSE {})
  BY <1>1, <1>2, <1>4, OpenedIs DEF Later
<1>6. ASSUME NEW n \in Nat
      PROVE  Children(b, n) = Children(a, n) \union
                                (IF s.parent.number = n THEN {last} ELSE {})
  BY <1>1, <1>2 DEF Children
<1>7. QED
  BY <1>1, <1>3, <1>4, <1>5, <1>6 DEF b

\* A tree is one still when the innermost spans are left.
LEMMA TreeKept ==
  ASSUME NEW a \in Seq(SpanType), NEW b, SameTree(a, b), NEW r, NEW k, NEW i, Tree(r, a, k),
         Opened(b) \subseteq Opened(a),
         \A x \in Opened(a) \ Opened(b) : \A y \in Opened(b) : y < x,
         i = k \/ Opened(b) \subseteq {1}
  PROVE  Tree(r, b, i)
<1>1. /\ Len(a) \in Nat /\ Len(b) = Len(a)
      /\ \A n \in 1..Len(a) : Alike(b[n], a[n])
      /\ Opened(a) \subseteq 1..Len(a)
  BY OpenedIs DEF SameTree
<1> SUFFICES ASSUME NEW n \in 1..Len(a)
             PROVE  /\ n = 1 <=> b[n].kind = "agent.run"
                    /\ n = 1 => b[n].parent = NoSpan
                    /\ n > 1 =>
                         /\ b[n].parent.run = r /\ b[n].parent.number \in 1..(n - 1)
                         /\ b[b[n].parent.number].kind
                              = IF IsStepSpan(b[n]) THEN "agent.run" ELSE "agent.step"
                         /\ n \in Opened(b) => b[n].parent.number \in Opened(b)
                    /\ n \in Opened(b) /\ IsStepSpan(b[n]) =>
                         /\ b[n].step = i
                         /\ \A m \in (n + 1)..Len(b) : ~IsStepSpan(b[m])
  BY <1>1 DEF Tree
<1> DEFINE up == a[n].parent.number
<1>2. /\ n = 1 <=> a[n].kind = "agent.run"
      /\ n = 1 => a[n].parent = NoSpan
      /\ n > 1 => /\ a[n].parent.run = r /\ up \in 1..(n - 1)
                  /\ a[up].kind = IF IsStepSpan(a[n]) THEN "agent.run" ELSE "agent.step"
                  /\ n \in Opened(a) => up \in Opened(a)
      /\ n \in Opened(a) /\ IsStepSpan(a[n]) =>
           /\ a[n].step = k
           /\ \A m \in (n + 1)..Len(a) : ~IsStepSpan(a[m])
  BY DEF Tree
<1>3. b[n].kind = a[n].kind /\ b[n].parent = a[n].parent /\ b[n].step = a[n].step
  BY <1>1 DEF Alike
<1>4. ASSUME n > 1
      PROVE  /\ b[up].kind = a[up].kind
             /\ n \in Opened(b) => up \in Opened(b)
  <2>1. up \in 1..Len(a) /\ up < n
    BY <1>1, <1>2, <1>4
  <2>2. b[up].kind = a[up].kind
    BY <1>1, <2>1 DEF Alike
  <2>3. ASSUME n \in Opened(b) PROVE up \in Opened(b)
    BY <1>2, <1>4, <2>1, <2>3
  <2>4. QED
    BY <2>2, <2>3
<1>5. ASSUME n \in Opened(b), IsStepSpan(b[n])
      PROVE  /\ b[n].step = i
             /\ \A m \in (n + 1)..Len(b) : ~IsStepSpan(b[m])
  <2>1. n \in Opened(a) /\ IsStepSpan(a[n]) /\ n # 1
    BY <1>2, <1>3, <1>5 DEF IsStepSpan
  <2>2. i = k
    BY <1>5, <2>1
  <2>3. \A m \in (n + 1)..Len(a) : b[m].kind = a[m].kind
    BY <1>1 DEF Alike
  <2>4. QED
    BY <1>1, <1>2, <1>3, <2>1, <2>2, <2>3 DEF IsStepSpan
<1>6. QED
  BY <1>2, <1>3, <1>4, <1>5 DEF IsStepSpan

\* And when a span is opened within an open one of the right kind.
LEMMA TreeGrown ==
  ASSUME NEW a \in Seq(SpanType), NEW s \in SpanType, ~s.ended, NEW r, NEW k, Tree(r, a, k),
         Len(a) > 0, s.kind # "agent.run",
         s.parent.run = r, s.parent.number \in Opened(a),
         a[s.parent.number].kind = IF IsStepSpan(s) THEN "agent.run" ELSE "agent.step",
         IsStepSpan(s) => s.step = k /\ \A x \in Opened(a) : ~IsStepSpan(a[x])
  PROVE  Tree(r, Append(a, s), k)
<1> DEFINE b == Append(a, s)
           last == Len(a) + 1
<1>1. /\ Len(a) \in Nat /\ Len(b) = last /\ b[last] = s
      /\ \A n \in 1..Len(a) : b[n] = a[n]
      /\ Opened(b) = Opened(a) \union {last}
      /\ Opened(a) \subseteq 1..Len(a)
  BY GrownIs, OpenedIs
<1> HIDE DEF b
<1> SUFFICES ASSUME NEW n \in 1..last
             PROVE  /\ n = 1 <=> b[n].kind = "agent.run"
                    /\ n = 1 => b[n].parent = NoSpan
                    /\ n > 1 =>
                         /\ b[n].parent.run = r /\ b[n].parent.number \in 1..(n - 1)
                         /\ b[b[n].parent.number].kind
                              = IF IsStepSpan(b[n]) THEN "agent.run" ELSE "agent.step"
                         /\ n \in Opened(b) => b[n].parent.number \in Opened(b)
                    /\ n \in Opened(b) /\ IsStepSpan(b[n]) =>
                         /\ b[n].step = k
                         /\ \A m \in (n + 1)..last : ~IsStepSpan(b[m])
  BY <1>1 DEF Tree, b
<1>2. CASE n = last
  BY <1>1, <1>2 DEF IsStepSpan
<1>3. CASE n \in 1..Len(a)
  <2> DEFINE up == a[n].parent.number
  <2>1. /\ n = 1 <=> a[n].kind = "agent.run"
        /\ n = 1 => a[n].parent = NoSpan
        /\ n > 1 => /\ a[n].parent.run = r /\ up \in 1..(n - 1)
                    /\ a[up].kind = IF IsStepSpan(a[n]) THEN "agent.run" ELSE "agent.step"
                    /\ n \in Opened(a) => up \in Opened(a)
        /\ n \in Opened(a) /\ IsStepSpan(a[n]) =>
             /\ a[n].step = k
             /\ \A m \in (n + 1)..Len(a) : ~IsStepSpan(a[m])
    BY <1>3 DEF Tree
  <2>2. b[n] = a[n] /\ (n \in Opened(b) <=> n \in Opened(a))
    BY <1>1, <1>3
  <2>3. n > 1 => b[up] = a[up]
    BY <1>1, <1>3, <2>1
  <2>4. ASSUME n \in Opened(a), IsStepSpan(a[n])
        PROVE  \A m \in (n + 1)..last : ~IsStepSpan(b[m])
    BY <1>1, <1>3, <2>1, <2>4
  <2>5. QED
    BY <1>1, <2>1, <2>2, <2>3, <2>4
<1>4. QED
  BY <1>1, <1>2, <1>3

\* What tells the same of steps: the statuses that were given stay.
Carries(a, b) ==
  /\ b \in Seq(SpanType) /\ Len(a) <= Len(b)
  /\ \A n \in 1..Len(a) :
       /\ Alike(b[n], a[n])
       /\ n \in StepSpans(a) /\ a[n].status # "unset" => b[n].status = a[n].status

\* The same tree has the same spans of steps and the same sub-spans.
LEMMA SameTreeIs ==
  ASSUME NEW a \in Seq(SpanType), NEW b, SameTree(a, b)
  PROVE  /\ StepSpans(b) = StepSpans(a) /\ Later(b) = Later(a)
         /\ \A n : Children(b, n) = Children(a, n)
<1>1. /\ Len(b) = Len(a)
      /\ \A n \in 1..Len(a) : b[n].kind = a[n].kind /\ b[n].parent = a[n].parent
                              /\ b[n].attempt = a[n].attempt
  BY DEF SameTree, Alike
<1>2. StepSpans(b) = StepSpans(a)
  BY <1>1 DEF StepSpans, IsStepSpan
<1>3. Later(b) = Later(a)
  BY <1>1, <1>2 DEF Later, StepSpans
<1>4. QED
  BY <1>1, <1>2, <1>3 DEF Children

LEMMA NamesKept ==
  ASSUME NEW a \in Seq(SpanType), NEW b, Carries(a, b), NEW n, NEW i, NEW row,
         Names(a, n, i, row)
  PROVE  Names(b, n, i, row)
<1>1. n \in StepSpans(a) /\ n \in 1..Len(a) /\ Len(a) \in Nat
  BY OpenedIs DEF Names
<1>2. n \in 1..Len(b) /\ Alike(b[n], a[n])
  BY <1>1, LenProperties DEF Carries
<1>3. a[n].status = Verdict(row) /\ Verdict(row) # "unset"
  BY DEF Names, Verdict
<1>4. b[n].status = a[n].status
  BY <1>1, <1>3 DEF Carries
<1>5. n \in StepSpans(b)
  BY <1>1, <1>2 DEF StepSpans, IsStepSpan, Alike
<1>6. QED
  BY <1>2, <1>3, <1>4, <1>5 DEF Names, Alike

\* What is told of steps depends on their spans and on the rows before the last.
LEMMA TellsKept ==
  ASSUME NEW a \in Seq(SpanType), NEW b, Carries(a, b), StepSpans(b) = StepSpans(a),
         NEW rows, NEW others, NEW k \in Nat, \A i \in 1..(k - 1) : others[i] = rows[i],
         NEW x, NEW y, Tells(a, rows, k, x, y)
  PROVE  Tells(b, others, k, x, y)
<1>1. \A n \in StepSpans(a) : /\ b[n].step = a[n].step /\ b[n].attempt = a[n].attempt
                              /\ a[n].status = "error" => b[n].status = "error"
  BY OpenedIs DEF Carries, Alike
<1>2. ASSUME NEW n \in StepSpans(b)
      PROVE  LET i == b[n].step
                 m == b[n].attempt
             IN  /\ i \in 1..k
                 /\ i < k => m \in 1..others[i].attempt
                             /\ (m < others[i].attempt => b[n].status = "error")
                 /\ i = k => m \in 1..y /\ (m < x => b[n].status = "error")
  <2> DEFINE i == a[n].step
  <2>1. /\ i \in 1..k
        /\ i < k => a[n].attempt \in 1..rows[i].attempt
                    /\ (a[n].attempt < rows[i].attempt => a[n].status = "error")
        /\ i = k => a[n].attempt \in 1..y /\ (a[n].attempt < x => a[n].status = "error")
    BY DEF Tells
  <2>2. i < k => others[i] = rows[i]
    BY <2>1
  <2>3. QED
    BY <1>1, <2>1, <2>2
<1>3. ASSUME NEW i \in 1..(k - 1), NEW m \in 1..others[i].attempt
      PROVE  \E n \in StepSpans(b) : b[n].step = i /\ b[n].attempt = m
  <2>1. others[i] = rows[i]
    OBVIOUS
  <2>2. \E n \in StepSpans(a) : a[n].step = i /\ a[n].attempt = m
    BY <2>1 DEF Tells
  <2>3. QED
    BY <1>1, <2>2
<1>4. ASSUME k > 0, NEW m \in 1..y
      PROVE  \E n \in StepSpans(b) : b[n].step = k /\ b[n].attempt = m
  <2>1. \E n \in StepSpans(a) : a[n].step = k /\ a[n].attempt = m
    BY <1>4 DEF Tells
  <2>2. QED
    BY <1>1, <2>1
<1>5. \A m, n \in StepSpans(b) : m < n => Before(b[m], b[n])
  BY <1>1 DEF Tells, Before
<1>6. QED
  BY <1>2, <1>3, <1>4, <1>5 DEF Tells

LEMMA TellsCarried ==
  ASSUME NEW a \in Seq(SpanType), NEW b, Carries(a, b), StepSpans(b) = StepSpans(a),
         NEW rows, NEW k \in Nat, NEW x, NEW y, Tells(a, rows, k, x, y)
  PROVE  Tells(b, rows, k, x, y)
BY TellsKept

\* The span of the next attempt is opened.
LEMMA TellsNext ==
  ASSUME NEW a \in Seq(SpanType), NEW s \in SpanType, ~s.ended, IsStepSpan(s),
         NEW rows, NEW k \in Nat \ {0}, NEW x \in Nat \ {0}, s.step = k, s.attempt = x,
         Tells(a, rows, k, x, x - 1)
  PROVE  Tells(Append(a, s), rows, k, x, x)
<1> DEFINE b == Append(a, s)
           last == Len(a) + 1
<1>1. /\ Len(a) \in Nat /\ StepSpans(a) \subseteq 1..Len(a)
      /\ \A n \in 1..Len(a) : b[n] = a[n] /\ a[n] \in SpanType
      /\ b[last] = s /\ StepSpans(b) = StepSpans(a) \union {last}
  BY GrownIs, OpenedIs
<1> HIDE DEF b
<1>2. ASSUME NEW n \in StepSpans(a)
      PROVE  /\ b[n] = a[n]
             /\ a[n].step \in 1..k
             /\ a[n].step < k => a[n].attempt \in 1..rows[a[n].step].attempt
                   /\ (a[n].attempt < rows[a[n].step].attempt => a[n].status = "error")
             /\ a[n].step = k => a[n].attempt \in 1..(x - 1) /\ a[n].status = "error"
  BY <1>1 DEF Tells
<1>3. ASSUME NEW n \in StepSpans(b)
      PROVE  LET i == b[n].step
                 m == b[n].attempt
             IN  /\ i \in 1..k
                 /\ i < k => m \in 1..rows[i].attempt
                             /\ (m < rows[i].attempt => b[n].status = "error")
                 /\ i = k => m \in 1..x /\ (m < x => b[n].status = "error")
  <2>1. CASE n = last
    BY <1>1, <2>1
  <2>2. CASE n \in StepSpans(a)
    BY <1>2, <2>2
  <2>3. QED
    BY <1>1, <2>1, <2>2
<1>4. ASSUME NEW i \in 1..(k - 1), NEW m \in 1..rows[i].attempt
      PROVE  \E n \in StepSpans(b) : b[n].step = i /\ b[n].attempt = m
  <2>1. \E n \in StepSpans(a) : a[n].step = i /\ a[n].attempt = m
    BY DEF Tells
  <2>2. QED
    BY <1>1, <1>2, <2>1
<1>5. ASSUME NEW m \in 1..x
      PROVE  \E n \in StepSpans(b) : b[n].step = k /\ b[n].attempt = m
  <2>1. CASE m = x
    BY <1>1, <2>1
  <2>2. CASE m \in 1..(x - 1)
    <3>1. \E n \in StepSpans(a) : a[n].step = k /\ a[n].attempt = m
      BY <2>2 DEF Tells
    <3>2. QED
      BY <1>1, <1>2, <3>1
  <2>3. QED
    BY <2>1, <2>2
<1>6. ASSUME NEW m \in StepSpans(b), NEW n \in StepSpans(b), m < n
      PROVE  Before(b[m], b[n])
  <2>1. m \in StepSpans(a)
    BY <1>1, <1>6
  <2>2. CASE n = last
    BY <1>1, <1>2, <2>1, <2>2 DEF Before
  <2>3. CASE n \in StepSpans(a)
    BY <1>2, <1>6, <2>1, <2>3 DEF Tells
  <2>4. QED
    BY <1>1, <2>2, <2>3
<1>7. QED
  BY <1>3, <1>4, <1>5, <1>6 DEF Tells, b

\* An attempt that has failed is followed by another.
LEMMA TellsRetry ==
  ASSUME NEW a \in Seq(SpanType), NEW rows, NEW k \in Nat \ {0}, NEW x \in Nat \ {0},
         Tells(a, rows, k, x, x),
         NEW n \in StepSpans(a), a[n].step = k, a[n].attempt = x, a[n].status = "error"
  PROVE  Tells(a, rows, k, x + 1, x)
<1>1. ASSUME NEW m \in StepSpans(a), a[m].step = k, a[m].attempt = x
      PROVE  m = n
  <2>1. m \in Nat /\ n \in Nat
    BY OpenedIs
  <2>2. ~Before(a[m], a[n]) /\ ~Before(a[n], a[m])
    BY <1>1 DEF Before
  <2>3. QED
    BY <2>1, <2>2 DEF Tells
<1>2. ASSUME NEW m \in StepSpans(a), a[m].step = k
      PROVE  a[m].attempt \in 1..x /\ a[m].status = "error"
  <2>1. a[m].attempt \in 1..x /\ (a[m].attempt < x => a[m].status = "error")
    BY <1>2 DEF Tells
  <2>2. QED
    BY <1>1, <1>2, <2>1
<1>3. QED
  BY <1>2 DEF Tells

\* A step that is over is followed by another.
LEMMA TellsAdvance ==
  ASSUME NEW a \in Seq(SpanType), NEW rows, NEW k \in Nat, NEW x, NEW y,
         Tells(a, rows, k, x, y), k > 0 => rows[k].attempt = x /\ y = x
  PROVE  Tells(a, rows, k + 1, 1, 0)
<1>1. ASSUME NEW n \in StepSpans(a)
      PROVE  /\ a[n].step \in 1..k
             /\ a[n].attempt \in 1..rows[a[n].step].attempt
             /\ a[n].attempt < rows[a[n].step].attempt => a[n].status = "error"
  BY DEF Tells
<1>2. ASSUME NEW i \in 1..k, NEW m \in 1..rows[i].attempt
      PROVE  \E n \in StepSpans(a) : a[n].step = i /\ a[n].attempt = m
  <2>1. CASE i = k
    BY <2>1 DEF Tells
  <2>2. CASE i \in 1..(k - 1)
    BY <2>2 DEF Tells
  <2>3. QED
    BY <2>1, <2>2
<1>3. \A m, n \in StepSpans(a) : m < n => Before(a[m], a[n])
  BY DEF Tells
<1>4. QED
  BY <1>1, <1>2, <1>3 DEF Tells

\* Calls are shown by the sub-spans and by the status of their step.
LEMMA CallsKept ==
  ASSUME NEW a \in Seq(SpanType), NEW b, SameTree(a, b), NEW types,
         NEW n \in StepSpans(a), b[n].status = a[n].status,
         CallsShown(a, n, types[a[n].step])
  PROVE  CallsShown(b, n, types[b[n].step])
<1>1. Children(b, n) = Children(a, n) /\ Children(a, n) \subseteq 1..Len(a)
  <2>1. Children(b, n) = Children(a, n)
    BY SameTreeIs
  <2>2. QED
    BY <2>1 DEF Children
<1>2. \A m \in 1..Len(a) : b[m].kind = a[m].kind /\ b[m].step = a[m].step
  BY DEF SameTree, Alike
<1>3. n \in 1..Len(a)
  BY OpenedIs
<1>4. QED
  BY <1>1, <1>2, <1>3 DEF CallsShown

LEMMA AllCallsKept ==
  ASSUME NEW a \in Seq(SpanType), NEW b, SameTree(a, b), NEW types, CallsOK(a, types),
         \A n \in StepSpans(a) :
           \/ b[n].status = a[n].status
              /\ (a[n].status = "unset" /\ n \in Opened(a) => n \in Opened(b))
           \/ CallsShown(b, n, types[b[n].step])
  PROVE  CallsOK(b, types)
<1> SUFFICES ASSUME NEW n \in StepSpans(a), ~(n \in Opened(b) /\ b[n].status = "unset")
             PROVE  CallsShown(b, n, types[b[n].step])
  BY SameTreeIs DEF CallsOK
<1> SUFFICES ASSUME b[n].status = a[n].status, ~(n \in Opened(a) /\ a[n].status = "unset")
             PROVE  CallsShown(b, n, types[b[n].step])
  OBVIOUS
<1>1. CallsShown(a, n, types[a[n].step])
  BY DEF CallsOK
<1>2. QED
  BY <1>1, CallsKept

LEMMA CallsGrown ==
  ASSUME NEW a \in Seq(SpanType), NEW s \in SpanType, ~s.ended, s.status = "unset",
         NEW types, CallsOK(a, types),
         s.parent.number \in StepSpans(a) =>
           s.parent.number \in Opened(a) /\ a[s.parent.number].status = "unset"
  PROVE  CallsOK(Append(a, s), types)
<1> DEFINE b == Append(a, s)
           last == Len(a) + 1
<1>1. /\ Len(a) \in Nat /\ StepSpans(a) \subseteq 1..Len(a)
      /\ \A n \in 1..Len(a) : b[n] = a[n]
      /\ b[last] = s /\ StepSpans(b) \subseteq StepSpans(a) \union {last}
      /\ Opened(b) = Opened(a) \union {last}
      /\ \A n \in Nat : Children(b, n) = Children(a, n) \union
                          (IF s.parent.number = n THEN {last} ELSE {})
  BY GrownIs, OpenedIs
<1> HIDE DEF b
<1> SUFFICES ASSUME NEW n \in StepSpans(b), ~(n \in Opened(b) /\ b[n].status = "unset")
             PROVE  CallsShown(b, n, types[b[n].step])
  BY DEF CallsOK, b
<1>2. /\ n \in StepSpans(a) /\ b[n] = a[n] /\ n \in Nat
      /\ ~(n \in Opened(a) /\ a[n].status = "unset")
  BY <1>1
<1>3. CallsShown(a, n, types[a[n].step])
  BY <1>2 DEF CallsOK
<1>4. Children(b, n) = Children(a, n)
  BY <1>1, <1>2
<1>5. \A m \in Children(a, n) : b[m] = a[m]
  BY <1>1 DEF Children
<1>6. QED
  BY <1>2, <1>3, <1>4, <1>5 DEF CallsShown

\* The spans of later attempts can be counted.
LEMMA LaterCounted ==
  ASSUME NEW a \in Seq(SpanType)
  PROVE  IsFiniteSet(Later(a)) /\ Cardinality(Later(a)) \in Nat
<1>1. Len(a) \in Nat /\ Later(a) \subseteq 1..Len(a)
  BY OpenedIs
<1>2. IsFiniteSet(Later(a))
  <2>1. IsFiniteSet(1..Len(a))
    BY <1>1, FS_Interval
  <2>2. QED
    BY <1>1, <2>1, FS_Subset
<1>3. QED
  BY <1>2, FS_CardinalityType

-----------------------------------------------------------------------------
(***************************************************************************)
(* The steps of a run.                                                     *)
(***************************************************************************)
\* What is known of a run at any time.
LEMMA RunFacts ==
  ASSUME IInv, TraceTypeOK, NEW r \in Runs
  PROVE  /\ spans[r] \in Seq(SpanType) /\ Len(spans[r]) \in Nat
         /\ steps[r] \in Seq(StepRow) /\ Len(steps[r]) \in Nat
         /\ rowSpan[r] \in Seq(Nat) /\ Len(rowSpan[r]) \in Nat
         /\ seq[r] \in Nat /\ retried[r] \in Nat
         /\ outcome[r] \in TerminalStatus \union {"none"}
         /\ outcome[r] # "none" => Len(steps[r]) = seq[r]
         /\ pc[r] \in BeforeLoop =>
              seq[r] = 0 /\ steps[r] = <<>> /\ outcome[r] = "none" /\ result[r] = "none"
         /\ pc[r] \in InLoop =>
              /\ cur[r].attempt \in Nat \ {0} /\ cur[r].status \in StepStatus /\ seq[r] > 0
              /\ outcome[r] = "none" /\ result[r] = "none"
         /\ pc[r] = "set_final" => result[r] = "none"
         /\ pc[r] = "publish" => steps[r][seq[r]] = cur[r] /\ Len(steps[r]) = seq[r]
         /\ pc[r] = "backoff" => cur[r].status = "retrying"
         /\ pc[r] \in AfterLoop => outcome[r] # "none"
         /\ result[r] # "none" => result[r] = outcome[r] /\ Len(steps[r]) = seq[r]
<1>1. TypeOK /\ StageInv /\ RowsInv
  BY DEF IInv
<1>2. /\ spans[r] \in Seq(SpanType) /\ steps[r] \in Seq(StepRow) /\ rowSpan[r] \in Seq(Nat)
      /\ seq[r] \in Nat /\ retried[r] \in Nat
      /\ outcome[r] \in TerminalStatus \union {"none"}
  BY <1>1 DEF TypeOK, TraceTypeOK
<1>3. Len(spans[r]) \in Nat /\ Len(steps[r]) \in Nat /\ Len(rowSpan[r]) \in Nat
  BY <1>2, LenProperties
<1>4. pc[r] \in InLoop =>
        cur[r].attempt \in Nat \ {0} /\ cur[r].status \in StepStatus /\ seq[r] > 0
  BY <1>1, StepFields, RetriesAssumption DEF StageInv
<1>5. /\ pc[r] = "publish" => steps[r][seq[r]] = cur[r] /\ Len(steps[r]) = seq[r]
      /\ pc[r] = "backoff" => cur[r].status = "retrying"
      /\ outcome[r] # "none" => Len(steps[r]) = seq[r]
  BY <1>1 DEF RowsInv
<1>6. /\ pc[r] \in BeforeLoop => seq[r] = 0 /\ steps[r] = <<>>
      /\ pc[r] \in BeforeLoop \union InLoop => outcome[r] = "none"
      /\ pc[r] \in AfterLoop => outcome[r] # "none"
      /\ pc[r] \in BeforeLoop \union InLoop \union {"set_final"} => result[r] = "none"
      /\ result[r] # "none" => result[r] = outcome[r]
  BY <1>1 DEF StageInv, TerminalStatus
<1>7. result[r] # "none" => Len(steps[r]) = seq[r]
  BY <1>5, <1>6
<1>8. QED
  BY <1>2, <1>3, <1>4, <1>5, <1>6, <1>7

\* The root span is no span of a step.
LEMMA RootIs ==
  ASSUME NEW a \in Seq(SpanType), NEW r, NEW k, Tree(r, a, k)
  PROVE  /\ 1 \notin StepSpans(a)
         /\ Len(a) > 0 => a[1].kind = "agent.run"
         /\ \A n \in Nat : n >= Len(a) => Children(a, n) = {} \/ n = 0
<1>1. Len(a) \in Nat /\ StepSpans(a) \subseteq 1..Len(a)
  BY OpenedIs
<1>2. 1 \in 1..Len(a) => a[1].kind = "agent.run"
  BY DEF Tree
<1>3. ASSUME NEW n \in Nat \ {0}, n >= Len(a), NEW m \in Children(a, n) PROVE FALSE
  <2>1. m \in 1..Len(a) /\ a[m].parent.number = n
    BY <1>3 DEF Children
  <2>2. m > 1 => n \in 1..(m - 1)
    BY <2>1 DEF Tree
  <2>3. m = 1 => n = 0
    BY <2>1 DEF Tree, NoSpan
  <2>4. QED
    BY <1>1, <1>3, <2>1, <2>2, <2>3
<1>4. QED
  BY <1>1, <1>2, <1>3 DEF StepSpans, IsStepSpan

LEMMA NamesOKKept ==
  ASSUME NEW r \in Runs, spans[r] \in Seq(SpanType), NamesOK(r), Carries(spans[r], spans'[r]),
         steps'[r] = steps[r], rowSpan'[r] = rowSpan[r]
  PROVE  NamesOK(r)'
<1>1. \A i \in 1..Len(steps[r]) :
        Names(spans[r], rowSpan[r][i], i, steps[r][i])
          => Names(spans'[r], rowSpan[r][i], i, steps[r][i])
  BY NamesKept
<1>2. QED
  BY <1>1 DEF NamesOK

\* A tree whose statuses stay where they were given is carried.
LEMMA SameTreeCarries ==
  ASSUME NEW a \in Seq(SpanType), NEW b, SameTree(a, b),
         \A n \in 1..Len(a) :
           n \in StepSpans(a) /\ a[n].status # "unset" => b[n].status = a[n].status
  PROVE  Carries(a, b)
BY LenProperties DEF SameTree, Carries

\* The trace of a run nothing is done to.
Alone(q) ==
  /\ steps'[q] = steps[q] /\ seq'[q] = seq[q] /\ cur'[q] = cur[q] /\ plan'[q] = plan[q]
  /\ outcome'[q] = outcome[q] /\ result'[q] = result[q] /\ spans'[q] = spans[q]
  /\ rowSpan'[q] = rowSpan[q] /\ retried'[q] = retried[q] /\ counted'[q] = counted[q]

LEMMA AloneKeeps ==
  ASSUME IInv, TraceTypeOK, NEW q \in Runs, TraceOK(q), Alone(q),
         \/ pc'[q] = pc[q]
         \/ pc[q] # "done" /\ pc'[q] = "crashed"
         \/ pc[q] \in NotStarted /\ pc'[q] \in NotStarted
         \/ pc[q] = "set_running" /\ pc'[q] = "begin"
  PROVE  TraceOK(q)'
<1> USE DEF Alone
<1>1. Tree(q, spans[q], seq[q])' /\ NamesOK(q)'
  BY DEF TraceOK, NamesOK
<1>2. OpenOK(q)'
  BY DEF TraceOK, OpenOK, NotStarted, Awaiting, UnderWay, AttemptOpen
<1>3. ToldOK(q)'
  <2>1. CASE pc'[q] = pc[q]
    BY <2>1 DEF TraceOK, ToldOK, Awaiting, Pending
  <2>2. CASE pc'[q] = "crashed"
    BY <2>2 DEF ToldOK, NotStarted, AfterLoop
  <2>3. CASE pc[q] \in NotStarted /\ pc'[q] \in NotStarted
    BY <2>3 DEF TraceOK, ToldOK, NotStarted, AfterLoop
  <2>4. CASE pc[q] = "set_running" /\ pc'[q] = "begin"
    BY <2>4 DEF TraceOK, ToldOK, NotStarted, AfterLoop, InLoop, Awaiting, Pending
  <2>5. QED
    BY <2>1, <2>2, <2>3, <2>4
<1>4. VerdictOK(q)'
  BY DEF TraceOK, VerdictOK, RunTold, NotStarted, AfterLoop
<1>5. QED
  BY <1>1, <1>2, <1>3, <1>4 DEF TraceOK

\* A task touches its own run only.
LEMMA OthersAlone ==
  ASSUME TypeOK, TraceTypeOK, NEW r \in Runs, NEW q \in Runs \ {r},
         \/ TraceStep(r)
         \/ /\ CommitRun(r) \/ ScheduleRun(r) \/ CommitRunning(r) \/ CommitFinal(r)
            /\ UNCHANGED trace
  PROVE  Alone(q) /\ pc'[q] = pc[q]
<1> DEFINE Service == /\ pc'[q] = pc[q] /\ steps'[q] = steps[q] /\ seq'[q] = seq[q]
                      /\ cur'[q] = cur[q] /\ plan'[q] = plan[q]
                      /\ outcome'[q] = outcome[q] /\ result'[q] = result[q]
           Trace == /\ spans'[q] = spans[q] /\ rowSpan'[q] = rowSpan[q]
                    /\ retried'[q] = retried[q] /\ counted'[q] = counted[q]
<1>1. ASSUME TaskStep(r) \/ RunnerFails(r) \/ UNCHANGED vars PROVE Service
  <2> USE DEF TypeOK, At, database, locals, requests
  <2>1. CASE CommitRun(r) \/ ScheduleRun(r) \/ StartTask(r) \/ CommitRunning(r)
    BY <2>1 DEF CommitRun, ScheduleRun, StartTask, CommitRunning
  <2>2. CASE BeginPlan(r)
    BY <2>2 DEF BeginPlan, Advance, Decide, StartStep
  <2>3. CASE PersistStep(r)
    BY <2>3 DEF PersistStep, Persist
  <2>4. CASE PublishStarted(r) \/ PublishFailedAndRetry(r) \/ PublishRetrying(r)
    BY <2>4 DEF PublishStarted, PublishFailedAndRetry, PublishRetrying, Publish
  <2>5. CASE PublishFailedForGood(r)
    BY <2>5 DEF PublishFailedForGood, Publish, Decide
  <2>6. CASE PublishSucceeded(r)
    BY <2>6 DEF PublishSucceeded, Publish, Advance, Decide, StartStep
  <2>7. CASE StepFails(r) \/ StepSucceeds(r) \/ Retry(r)
    BY <2>7 DEF StepFails, StepSucceeds, Retry, Advance, Decide, StartStep
  <2>8. CASE CommitFinal(r) \/ Announce(r) \/ RunnerFails(r)
    BY <2>8 DEF CommitFinal, Announce, RunnerFails
  <2>9. CASE UNCHANGED vars
    BY <2>9 DEF vars, task
  <2>10. QED
    BY <1>1, <2>1, <2>2, <2>3, <2>4, <2>5, <2>6, <2>7, <2>8, <2>9 DEF TaskStep
<1> HIDE DEF Service
<1> USE DEF TraceTypeOK, Traces, trace
<1>2. CASE TraceTask(r) \/ TracePlan(r)
  BY <1>1, <1>2 DEF TraceTask, TracePlan, TaskStep, Service, Alone
<1>3. CASE TraceRow(r)
  BY <1>1, <1>3 DEF TraceRow, CopySpanId, TaskStep, Service, Alone
<1>4. CASE TraceAttempt(r) \/ TraceSubModelCall(r) \/ TraceSubToolCall(r)
  BY <1>1, <1>4 DEF TraceAttempt, TraceSubModelCall, TraceSubToolCall, TaskStep, Service, Alone
<1>5. CASE TraceFailure(r) \/ TraceSuccess(r)
  BY <1>1, <1>5 DEF TraceFailure, TraceSuccess, TaskStep, Service, Alone
<1>6. CASE TraceRetrying(r) \/ TraceBackoff(r) \/ TraceRetry(r)
  BY <1>1, <1>6 DEF TraceRetrying, TraceBackoff, TraceRetry, TaskStep, Service, Alone
<1>7. CASE TraceStepEnd(r)
  BY <1>1, <1>7 DEF TraceStepEnd, TaskStep, Service, Alone
<1>8. CASE TraceEnd(r) \/ TraceBreaks(r)
  BY <1>1, <1>8 DEF TraceEnd, TraceBreaks, TaskStep, Service, Alone
<1>9. CASE /\ CommitRun(r) \/ ScheduleRun(r) \/ CommitRunning(r) \/ CommitFinal(r)
           /\ UNCHANGED trace
  BY <1>1, <1>9 DEF TaskStep, Service, Alone
<1>10. QED
  BY <1>2, <1>3, <1>4, <1>5, <1>6, <1>7, <1>8, <1>9 DEF TraceStep

\* The task begins: the root span.
LEMMA TaskTraced ==
  ASSUME IInv, TraceTypeOK, NEW r \in Runs, TraceOK(r), TraceTask(r)
  PROVE  spans'[r] \in Seq(SpanType) /\ TraceOK(r)'
<1> DEFINE s == Span("agent.run", NoSpan, 0, 0)
           b == <<s>>
<1>1. /\ pc[r] = "scheduled" /\ pc'[r] = "set_running" /\ spans'[r] = b
      /\ steps'[r] = steps[r] /\ seq'[r] = seq[r] /\ cur'[r] = cur[r]
      /\ outcome'[r] = outcome[r] /\ result'[r] = result[r]
      /\ rowSpan'[r] = rowSpan[r] /\ retried'[r] = retried[r] /\ counted'[r] = counted[r]
  BY DEF TraceTask, StartTask, At, Traces, database, locals, IInv, TypeOK, TraceTypeOK
<1>2. /\ seq[r] = 0 /\ steps[r] = <<>> /\ Len(steps[r]) = 0 /\ result[r] = "none"
      /\ retried[r] = 0 /\ counted[r] = "none" /\ Len(rowSpan[r]) = 0
  BY <1>1, RunFacts DEF BeforeLoop, TraceOK, ToldOK, VerdictOK, NamesOK, NotStarted
<1>3. NoSpan \in [run: Runs \union {"none"}, number: Nat] /\ "agent.run" \in SpanKind
  BY DEF NoSpan, SpanKind
<1>4. /\ s \in SpanType /\ ~s.ended /\ s.kind = "agent.run" /\ s.parent = NoSpan
  BY <1>3, SpanIs
<1> HIDE DEF s
<1>5. b \in Seq(SpanType) /\ Len(b) = 1 /\ b[1] = s
  BY <1>4
<1> HIDE DEF b
<1>6. Opened(b) = {1} /\ StepSpans(b) = {} /\ Later(b) = {}
  <2>1. 1..Len(b) = {1}
    BY <1>5
  <2>2. Opened(b) = {1}
    BY <1>4, <1>5, <2>1, OpenedIs
  <2>3. StepSpans(b) = {}
    BY <1>4, <1>5, <2>1 DEF StepSpans, IsStepSpan
  <2>4. QED
    BY <2>2, <2>3 DEF Later
<1>7. Tree(r, b, 0)
  BY <1>4, <1>5 DEF Tree, IsStepSpan
<1>8. \A x, y : Tells(b, steps[r], 0, x, y)
  BY <1>6 DEF Tells
<1>9. NamesOK(r)'
  BY <1>1, <1>2 DEF NamesOK
<1>10. OpenOK(r)'
  BY <1>1, <1>5, <1>6 DEF OpenOK, NotStarted, Awaiting, UnderWay
<1>11. ToldOK(r)'
  <2>1. Cardinality(Later(b)) = 0
    BY <1>6, FS_EmptySet
  <2>2. CallsOK(b, plan'[r])
    BY <1>6 DEF CallsOK
  <2>3. ~Awaiting(r)' /\ ~Pending(r)'
    BY <1>1 DEF Awaiting, Pending, InLoop
  <2>4. QED
    BY <1>1, <1>2, <1>5, <1>8, <2>1, <2>2, <2>3 DEF ToldOK, NotStarted, AfterLoop
<1>12. VerdictOK(r)'
  BY <1>1, <1>2 DEF VerdictOK, AfterLoop
<1>13. QED
  BY <1>1, <1>2, <1>5, <1>7, <1>9, <1>10, <1>11, <1>12 DEF TraceOK

\* On to the next step, or out of the loop, with the root span open only.
LEMMA AdvanceTraced ==
  ASSUME IInv, TraceTypeOK, NEW r \in Runs, NamesOK(r), VerdictOK(r),
         pc[r] \in {"begin", "publish"},
         NEW c \in Seq(SpanType), Carries(spans[r], c), Len(c) > 0, Opened(c) = {1},
         Tree(r, c, seq[r]), spans'[r] = Settled(r, c),
         NEW x \in Nat, NEW y \in Nat, Tells(c, steps[r], seq[r], x, y),
         seq[r] > 0 => steps[r][seq[r]] = cur[r] /\ cur[r].attempt = x /\ y = x,
         CallsOK(c, plan'[r]), retried[r] = Cardinality(Later(c)),
         steps'[r] = steps[r], result'[r] = result[r], rowSpan'[r] = rowSpan[r],
         retried'[r] = retried[r], counted'[r] = counted[r],
         \/ /\ pc'[r] = "persist" /\ seq'[r] = seq[r] + 1 /\ cur'[r] = FreshStep(1)
            /\ outcome'[r] = "none"
         \/ /\ pc'[r] = "set_final" /\ outcome'[r] \in TerminalStatus
            /\ seq'[r] = seq[r] /\ cur'[r] = cur[r]
  PROVE  spans'[r] \in Seq(SpanType) /\ TraceOK(r)'
<1> DEFINE b == Settled(r, c)
<1>1. outcome'[r] \in TerminalStatus \union {"none"}
  OBVIOUS
<1>2. /\ SameTree(c, b) /\ Opened(b) = {1}
      /\ \A n \in 1..Len(c) : n > 1 => b[n].status = c[n].status
      /\ outcome'[r] # "none" => Shows(b[1], outcome'[r])
  BY <1>1, SettledIs
<1> HIDE DEF b
<1>3. /\ 1 \notin StepSpans(c) /\ StepSpans(c) \subseteq 1..Len(c) /\ Len(c) \in Nat
  BY RootIs, OpenedIs
<1>4. \A n \in StepSpans(c) : b[n].status = c[n].status
  BY <1>2, <1>3
<1>5. Carries(c, b)
  BY <1>2, <1>4, SameTreeCarries
<1>6. /\ StepSpans(b) = StepSpans(c) /\ Later(b) = Later(c) /\ b \in Seq(SpanType)
      /\ Len(b) = Len(c)
  BY <1>2, SameTreeIs DEF SameTree
<1>7. Tree(r, b, seq'[r])
  BY <1>2, TreeKept
<1>8. Carries(spans[r], b)
  <2>1. Len(spans[r]) \in Nat /\ StepSpans(spans[r]) \subseteq 1..Len(spans[r])
    BY RunFacts, OpenedIs
  <2>2. /\ Len(spans[r]) <= Len(c)
        /\ \A n \in 1..Len(spans[r]) :
             /\ Alike(c[n], spans[r][n])
             /\ n \in StepSpans(spans[r]) /\ spans[r][n].status # "unset" =>
                  c[n].status = spans[r][n].status
    BY DEF Carries
  <2>3. \A n \in 1..Len(spans[r]) :
          Alike(b[n], c[n]) /\ (n \in StepSpans(c) => b[n].status = c[n].status)
    BY <1>2, <1>3, <1>4, <2>1, <2>2 DEF SameTree
  <2>4. \A n \in 1..Len(spans[r]) : n \in StepSpans(spans[r]) => n \in StepSpans(c)
    BY <1>3, <2>1, <2>2 DEF StepSpans, IsStepSpan, Alike
  <2>5. QED
    BY <1>6, <2>2, <2>3, <2>4 DEF Carries, Alike
<1>9. NamesOK(r)'
  BY <1>8, RunFacts, NamesOKKept DEF b
<1>10. CallsOK(b, plan'[r])
  <2>1. \A n \in StepSpans(c) : n \in Opened(c) => n \in Opened(b)
    BY <1>2
  <2>2. QED
    BY <1>2, <1>4, <2>1, AllCallsKept
<1>11. result[r] = "none" /\ counted[r] = "none" /\ seq[r] \in Nat
  BY RunFacts DEF BeforeLoop, InLoop, VerdictOK
<1>12. CASE pc'[r] = "persist"
  <2>1. /\ seq'[r] = seq[r] + 1 /\ cur'[r].status = "running" /\ cur'[r].attempt = 1
    BY <1>12 DEF FreshStep
  <2>2. Tells(c, steps[r], seq[r] + 1, 1, 0)
    BY <1>11, TellsAdvance
  <2>3. Tells(b, steps[r], seq[r] + 1, 1, 0)
    <3>1. seq[r] + 1 \in Nat
      BY <1>11
    <3>2. QED
      BY <1>5, <1>6, <2>2, <3>1, TellsCarried
  <2>4. Awaiting(r)' /\ ~UnderWay(r)' /\ ~Pending(r)'
    BY <1>12, <2>1 DEF Awaiting, UnderWay, Pending
  <2>5. OpenOK(r)'
    BY <1>2, <1>12, <2>4 DEF OpenOK, NotStarted, b
  <2>6. ToldOK(r)'
    <3>1. Cardinality(Later(b)) = retried'[r]
      BY <1>6
    <3>2. Cardinality(Later(b)) \in Nat
      BY <1>6, LaterCounted
    <3>3. Tells(b, steps'[r], seq'[r], cur'[r].attempt, cur'[r].attempt - 1)
      BY <2>1, <2>3
    <3>4. Len(b) > 0 /\ spans'[r] = b
      BY <1>6 DEF b
    <3>5. QED
      BY <1>10, <1>12, <2>4, <3>1, <3>2, <3>3, <3>4 DEF ToldOK, NotStarted, AfterLoop
  <2>7. VerdictOK(r)'
    BY <1>11, <1>12 DEF VerdictOK, AfterLoop
  <2>8. QED
    BY <1>6, <1>7, <1>9, <2>5, <2>6, <2>7 DEF TraceOK, b
<1>13. CASE pc'[r] = "set_final"
  <2>1. seq'[r] = seq[r] /\ cur'[r] = cur[r] /\ outcome'[r] # "none"
    BY <1>13 DEF TerminalStatus
  <2>2. Tells(c, steps[r], seq[r], cur[r].attempt, cur[r].attempt)
    <3>1. CASE seq[r] > 0
      BY <3>1
    <3>2. CASE seq[r] = 0
      BY <3>2 DEF Tells
    <3>3. QED
      BY <1>11, <3>1, <3>2
  <2>3. Tells(b, steps[r], seq[r], cur[r].attempt, cur[r].attempt)
    BY <1>5, <1>6, <1>11, <2>2, TellsCarried
  <2>4. ~Awaiting(r)' /\ ~UnderWay(r)' /\ ~Pending(r)'
    BY <1>13 DEF Awaiting, UnderWay, Pending, InLoop
  <2>5. OpenOK(r)'
    BY <1>2, <1>13, <2>4 DEF OpenOK, NotStarted, b
  <2>6. ToldOK(r)'
    <3>1. Cardinality(Later(b)) = retried'[r]
      BY <1>6
    <3>2. Cardinality(Later(b)) \in Nat
      BY <1>6, LaterCounted
    <3>3. Tells(b, steps'[r], seq'[r], cur'[r].attempt, cur'[r].attempt)
      BY <2>1, <2>3
    <3>4. Len(b) > 0 /\ spans'[r] = b
      BY <1>6 DEF b
    <3>5. seq'[r] > 0 => steps'[r][seq'[r]] = cur'[r]
      BY <2>1
    <3>6. QED
      BY <1>10, <1>13, <2>4, <3>1, <3>2, <3>3, <3>4, <3>5 DEF ToldOK, NotStarted
  <2>7. VerdictOK(r)'
    BY <1>2, <1>11, <1>13, <2>1 DEF VerdictOK, b
  <2>8. QED
    BY <1>6, <1>7, <1>9, <2>5, <2>6, <2>7 DEF TraceOK, b
<1>14. QED
  BY <1>12, <1>13

\* The ways on from one step, of one run.
LEMMA AdvanceIs ==
  ASSUME TypeOK, NEW r \in Runs, NEW p, NEW k, Advance(r, p, k), outcome[r] = "none"
  PROVE  \/ /\ pc'[r] = "persist" /\ seq'[r] = k /\ cur'[r] = FreshStep(1)
            /\ outcome'[r] = "none"
         \/ /\ pc'[r] = "set_final" /\ outcome'[r] \in TerminalStatus
            /\ seq'[r] = seq[r] /\ cur'[r] = cur[r]
BY DEF Advance, StartStep, Decide, TypeOK, TerminalStatus

\* The plan is drawn: only the root span was opened.
LEMMA PlanTraced ==
  ASSUME IInv, TraceTypeOK, NEW r \in Runs, TraceOK(r), TracePlan(r)
  PROVE  spans'[r] \in Seq(SpanType) /\ TraceOK(r)'
<1> DEFINE a == spans[r]
<1>1. /\ pc[r] = "begin" /\ steps'[r] = steps[r] /\ result'[r] = result[r]
      /\ rowSpan'[r] = rowSpan[r] /\ retried'[r] = retried[r] /\ counted'[r] = counted[r]
      /\ spans'[r] = Settled(r, a)
      /\ \E p : Advance(r, p, 1)
  BY DEF TracePlan, BeginPlan, Traces, database, TraceTypeOK
<1>2. /\ a \in Seq(SpanType) /\ Len(a) = 1 /\ Opened(a) = {1} /\ seq[r] = 0
      /\ outcome[r] = "none"
  BY <1>1, RunFacts DEF TraceOK, OpenOK, BeforeLoop
<1>3. \/ /\ pc'[r] = "persist" /\ seq'[r] = seq[r] + 1 /\ cur'[r] = FreshStep(1)
         /\ outcome'[r] = "none"
      \/ /\ pc'[r] = "set_final" /\ outcome'[r] \in TerminalStatus
         /\ seq'[r] = seq[r] /\ cur'[r] = cur[r]
  BY <1>1, <1>2, AdvanceIs DEF IInv
<1>4. StepSpans(a) = {} /\ Tree(r, a, seq[r])
  <2>1. Tree(r, a, seq[r]) /\ 1..Len(a) = {1}
    BY <1>2 DEF TraceOK
  <2>2. QED
    BY <1>2, <2>1, RootIs, OpenedIs
<1>5. Carries(a, a)
  BY <1>2 DEF Carries, Alike
<1>6. Tells(a, steps[r], seq[r], 0, 0) /\ CallsOK(a, plan'[r])
  BY <1>2, <1>4 DEF Tells, CallsOK
<1>7. retried[r] = Cardinality(Later(a))
  <2>1. retried[r] = Cardinality(Later(a)) + (IF Pending(r) THEN 1 ELSE 0)
    BY <1>1 DEF TraceOK, ToldOK, NotStarted
  <2>2. ~Pending(r) /\ Cardinality(Later(a)) \in Nat
    BY <1>1, <1>2, LaterCounted DEF Pending, InLoop
  <2>3. QED
    BY <2>1, <2>2
<1>8. NamesOK(r) /\ VerdictOK(r)
  BY DEF TraceOK
<1>9. /\ Carries(spans[r], a) /\ Len(a) > 0 /\ pc[r] \in {"begin", "publish"}
      /\ seq[r] > 0 => steps[r][seq[r]] = cur[r] /\ cur[r].attempt = 0 /\ 0 = 0
      /\ 0 \in Nat
  BY <1>1, <1>2, <1>5
<1> HIDE DEF a
<1>10. spans'[r] = Settled(r, a)
  BY <1>1
<1>11. QED
  BY <1>1, <1>2, <1>3, <1>4, <1>6, <1>7, <1>8, <1>9, <1>10, AdvanceTraced

\* The span of the attempt under way is not the root, and it is open.
LEMMA AttemptIs ==
  ASSUME IInv, TraceTypeOK, NEW r \in Runs, TraceOK(r), UnderWay(r)
  PROVE  \E n \in 2..Len(spans[r]) :
           /\ AttemptOpen(r, n) /\ n \in Nat /\ n > 1 /\ n \in Opened(spans[r])
           /\ n \in StepSpans(spans[r]) /\ spans[r][n].kind = "agent.step"
           /\ Len(spans[r]) > 0 /\ spans[r][1].kind = "agent.run"
           /\ Tree(r, spans[r], seq[r])
<1>1. PICK n \in 2..Len(spans[r]) : AttemptOpen(r, n)
  BY DEF TraceOK, OpenOK
<1>2. spans[r] \in Seq(SpanType) /\ Len(spans[r]) \in Nat /\ Tree(r, spans[r], seq[r])
  BY RunFacts DEF TraceOK
<1>3. n \in Opened(spans[r])
  BY <1>1 DEF AttemptOpen, AtWork
<1>4. n \in StepSpans(spans[r]) /\ spans[r][n].kind = "agent.step"
  BY <1>1 DEF AttemptOpen, StepSpans, IsStepSpan
<1>5. QED
  BY <1>1, <1>2, <1>3, <1>4, RootIs

\* A row takes the number of the span under way, or none.
LEMMA RowTraced ==
  ASSUME IInv, TraceTypeOK, NEW r \in Runs, TraceOK(r), TraceRow(r)
  PROVE  rowSpan'[r] \in Seq(Nat) /\ TraceOK(r)'
<1> DEFINE list == spans[r]
           rows == steps[r]
           ids  == rowSpan[r]
           k    == seq[r]
           id   == IF cur[r].status = "running" THEN 0 ELSE Innermost(list)
<1>1. /\ pc[r] = "persist" /\ pc'[r] = "publish" /\ spans'[r] = list
      /\ seq'[r] = k /\ cur'[r] = cur[r] /\ plan'[r] = plan[r] /\ result'[r] = result[r]
      /\ retried'[r] = retried[r] /\ counted'[r] = counted[r]
      /\ steps'[r] = IF k > Len(rows) THEN Append(rows, cur[r])
                     ELSE [rows EXCEPT ![k] = cur[r]]
      /\ rowSpan'[r] = IF k > Len(ids) THEN Append(ids, id) ELSE [ids EXCEPT ![k] = id]
  BY DEF TraceRow, PersistStep, Persist, CopySpanId, At, locals, IInv, TypeOK, TraceTypeOK
<1>2. /\ list \in Seq(SpanType) /\ rows \in Seq(StepRow) /\ ids \in Seq(Nat)
      /\ Len(rows) \in Nat /\ Len(ids) = Len(rows) /\ k \in Nat /\ k > 0
      /\ k <= Len(rows) + 1 /\ result[r] = "none" /\ cur[r] \in StepRow
      /\ cur[r].status \in StepStatus
  <2>1. k <= Len(rows) + 1
    BY DEF IInv, RowsInv
  <2>2. cur[r] \in StepRow
    BY <1>1, InLoopTyped DEF IInv, InLoop
  <2>3. Len(ids) = Len(rows)
    BY DEF TraceOK, NamesOK
  <2>4. QED
    BY <1>1, <2>1, <2>2, <2>3, RunFacts DEF InLoop
<1>3. id \in Nat /\ (cur[r].status # "running" => Names(list, id, k, cur[r]))
  <2>1. CASE cur[r].status = "running"
    BY <2>1
  <2>2. CASE cur[r].status # "running"
    <3>1. UnderWay(r)
      BY <1>1, <2>2 DEF UnderWay
    <3>2. PICK n \in 2..Len(list) : AttemptOpen(r, n) /\ n \in Nat /\ n > 1
      BY <3>1, AttemptIs
    <3>3. /\ n \in StepSpans(list) /\ list[n].step = k /\ list[n].attempt = cur[r].attempt
          /\ Opened(list) = {1, n} /\ list[n].status = Verdict(cur[r])
      BY <1>1, <3>2 DEF AttemptOpen
    <3>4. Innermost(list) = n
      <4>1. n \in Opened(list) /\ \A m \in Opened(list) : m <= n
        BY <3>2, <3>3
      <4>2. QED
        BY <1>2, <4>1, InnermostIs
    <3>5. QED
      BY <2>2, <3>2, <3>3, <3>4 DEF Names
  <2>3. QED
    BY <2>1, <2>2
<1> HIDE DEF id
<1>4. /\ Len(steps'[r]) = IF k > Len(rows) THEN k ELSE Len(rows)
      /\ steps'[r][k] = cur[r]
      /\ \A i \in 1..Len(rows) : i # k => steps'[r][i] = rows[i]
  <2>1. CASE k > Len(rows)
    <3>1. k = Len(rows) + 1 /\ steps'[r] = Append(rows, cur[r])
      BY <1>1, <1>2, <2>1
    <3>2. QED
      BY <1>2, <2>1, <3>1, AppendProperties
  <2>2. CASE k <= Len(rows)
    <3>1. k \in 1..Len(rows) /\ steps'[r] = [rows EXCEPT ![k] = cur[r]]
      BY <1>1, <1>2, <2>2
    <3>2. QED
      BY <1>2, <2>2, <3>1, ExceptSeq
  <2>3. QED
    BY <1>2, <2>1, <2>2
<1>5. /\ rowSpan'[r] \in Seq(Nat) /\ Len(rowSpan'[r]) = Len(steps'[r])
      /\ rowSpan'[r][k] = id
      /\ \A i \in 1..Len(rows) : i # k => rowSpan'[r][i] = ids[i]
  <2>1. CASE k > Len(ids)
    <3>1. k = Len(ids) + 1 /\ rowSpan'[r] = Append(ids, id)
      BY <1>1, <1>2, <2>1
    <3>2. QED
      BY <1>2, <1>3, <1>4, <2>1, <3>1, AppendProperties
  <2>2. CASE k <= Len(ids)
    <3>1. k \in 1..Len(ids) /\ rowSpan'[r] = [ids EXCEPT ![k] = id]
      BY <1>1, <1>2, <2>2
    <3>2. QED
      BY <1>2, <1>3, <1>4, <2>2, <3>1, ExceptSeq
  <2>3. QED
    BY <1>2, <2>1, <2>2
<1>6. NamesOK(r)'
  <2>1. \A i \in 1..Len(rows) :
          IF rows[i].status = "running" THEN ids[i] = 0 ELSE Names(list, ids[i], i, rows[i])
    BY DEF TraceOK, NamesOK
  <2>2. \A i \in 1..Len(steps'[r]) : i = k \/ (i \in 1..Len(rows) /\ i # k)
    BY <1>2, <1>4
  <2>3. ASSUME NEW i \in 1..Len(steps'[r])
        PROVE  IF steps'[r][i].status = "running" THEN rowSpan'[r][i] = 0
               ELSE Names(list, rowSpan'[r][i], i, steps'[r][i])
    <3>1. CASE i = k
      BY <1>3, <1>4, <1>5, <3>1 DEF id
    <3>2. CASE i \in 1..Len(rows) /\ i # k
      BY <1>4, <1>5, <2>1, <3>2
    <3>3. QED
      BY <2>2, <3>1, <3>2
  <2>4. QED
    BY <1>1, <1>5, <2>3 DEF NamesOK
<1>7. Tree(r, list, k) /\ OpenOK(r) /\ ToldOK(r) /\ VerdictOK(r)
  BY DEF TraceOK
<1>8. OpenOK(r)'
  BY <1>1, <1>7 DEF OpenOK, NotStarted, Awaiting, UnderWay, AttemptOpen
<1>9. ToldOK(r)'
  <2> DEFINE x == cur[r].attempt
             y == IF Awaiting(r) THEN cur[r].attempt - 1 ELSE cur[r].attempt
  <2>1. Tells(list, rows, k, x, y)
    BY <1>1, <1>7 DEF ToldOK, NotStarted
  <2>2. \A i \in 1..(k - 1) : steps'[r][i] = rows[i]
    BY <1>2, <1>4
  <2>3. Carries(list, list)
    BY <1>2 DEF Carries, Alike
  <2> HIDE DEF x, y, list, rows, k
  <2>4. Tells(list, steps'[r], k, x, y)
    BY <1>2, <2>1, <2>2, <2>3, TellsKept
  <2>5. Awaiting(r)' = Awaiting(r) /\ Pending(r)' = Pending(r)
    BY <1>1 DEF Awaiting, Pending, InLoop
  <2>6. QED
    BY <1>1, <1>7, <2>4, <2>5 DEF ToldOK, NotStarted, AfterLoop, x, y, list, k
<1>10. VerdictOK(r)'
  BY <1>1, <1>2, <1>7 DEF VerdictOK, AfterLoop
<1>11. QED
  BY <1>1, <1>5, <1>6, <1>7, <1>8, <1>9, <1>10 DEF TraceOK

\* The span of an attempt is opened below the root.
LEMMA AttemptTraced ==
  ASSUME IInv, TraceTypeOK, NEW r \in Runs, TraceOK(r), TraceAttempt(r)
  PROVE  spans'[r] \in Seq(SpanType) /\ TraceOK(r)'
<1> DEFINE a == spans[r]
           s == Span("agent.step", SpanOf(r, 1), seq[r], cur[r].attempt)
           b == Append(a, s)
           last == Len(a) + 1
<1>1. /\ pc[r] = "publish" /\ pc'[r] = "working" /\ cur[r].status = "running"
      /\ spans'[r] = b /\ seq'[r] = seq[r] /\ cur'[r] = cur[r] /\ plan'[r] = plan[r]
      /\ steps'[r] = steps[r] /\ result'[r] = result[r] /\ rowSpan'[r] = rowSpan[r]
      /\ retried'[r] = retried[r] /\ counted'[r] = counted[r]
  BY DEF TraceAttempt, PublishStarted, Publish, Traces, database, locals, IInv, TypeOK,
         TraceTypeOK
<1>2. /\ a \in Seq(SpanType) /\ Len(a) \in Nat /\ seq[r] \in Nat \ {0}
      /\ cur[r].attempt \in Nat \ {0} /\ result[r] = "none" /\ retried[r] \in Nat
  BY <1>1, RunFacts DEF InLoop
<1>3. Awaiting(r) /\ Opened(a) = {1} /\ Len(a) > 0 /\ Tree(r, a, seq[r])
  <2>1. Awaiting(r)
    BY <1>1 DEF Awaiting
  <2>2. QED
    BY <1>1, <2>1 DEF TraceOK, OpenOK, ToldOK, NotStarted
<1>4. 1 \notin StepSpans(a) /\ a[1].kind = "agent.run"
  BY <1>2, <1>3, RootIs
<1>5. /\ s \in SpanType /\ ~s.ended /\ s.status = "unset" /\ s.kind = "agent.step"
      /\ s.parent.run = r /\ s.parent.number = 1
      /\ s.step = seq[r] /\ s.attempt = cur[r].attempt
  <2>1. SpanOf(r, 1) \in [run: Runs \union {"none"}, number: Nat]
        /\ SpanOf(r, 1).run = r /\ SpanOf(r, 1).number = 1
    BY DEF SpanOf
  <2>2. "agent.step" \in SpanKind
    BY DEF SpanKind
  <2>3. QED
    BY <1>2, <2>1, <2>2, SpanIs
<1> HIDE DEF s
<1>6. /\ b \in Seq(SpanType) /\ Len(b) = last /\ b[last] = s
      /\ \A n \in 1..Len(a) : b[n] = a[n]
      /\ Opened(b) = {1, last} /\ StepSpans(b) = StepSpans(a) \union {last}
      /\ Later(b) = Later(a) \union (IF cur[r].attempt > 1 THEN {last} ELSE {})
      /\ \A n \in Nat : Children(b, n) = Children(a, n) \union
                          (IF n = 1 THEN {last} ELSE {})
  BY <1>2, <1>3, <1>5, GrownIs DEF IsStepSpan
<1>7. Tree(r, b, seq[r])
  <2>1. \A x \in Opened(a) : ~IsStepSpan(a[x])
    BY <1>3, <1>4 DEF IsStepSpan
  <2>2. IsStepSpan(s) /\ s.kind # "agent.run"
    BY <1>5 DEF IsStepSpan
  <2>3. QED
    BY <1>2, <1>3, <1>4, <1>5, <2>1, <2>2, TreeGrown
<1>8. Tells(b, steps[r], seq[r], cur[r].attempt, cur[r].attempt)
  <2>1. Tells(a, steps[r], seq[r], cur[r].attempt, cur[r].attempt - 1)
    BY <1>1, <1>3 DEF TraceOK, ToldOK, NotStarted
  <2>2. IsStepSpan(s)
    BY <1>5 DEF IsStepSpan
  <2>3. QED
    BY <1>2, <1>5, <2>1, <2>2, TellsNext
<1>9. CallsOK(b, plan[r])
  <2>1. CallsOK(a, plan[r])
    BY <1>1 DEF TraceOK, ToldOK, NotStarted
  <2>2. QED
    BY <1>2, <1>4, <1>5, <2>1, CallsGrown
<1>10. Carries(a, b)
  BY <1>2, <1>6 DEF Carries, Alike
<1>11. retried[r] = Cardinality(Later(b))
  <2>1. retried[r] = Cardinality(Later(a)) + (IF Pending(r) THEN 1 ELSE 0)
    BY <1>1 DEF TraceOK, ToldOK, NotStarted
  <2>2. Pending(r) <=> cur[r].attempt > 1
    BY <1>1, <1>3 DEF Pending, InLoop
  <2>3. IsFiniteSet(Later(a)) /\ Cardinality(Later(a)) \in Nat
    BY <1>2, LaterCounted
  <2>4. last \notin Later(a)
    BY <1>2, OpenedIs
  <2>5. CASE cur[r].attempt > 1
    <3>1. Cardinality(Later(a) \union {last}) = Cardinality(Later(a)) + 1
      BY <2>3, <2>4, FS_AddElement
    <3>2. QED
      BY <1>6, <2>1, <2>2, <2>5, <3>1
  <2>6. CASE ~(cur[r].attempt > 1)
    <3>1. Later(b) = Later(a)
      BY <1>6, <2>6
    <3>2. QED
      BY <2>1, <2>2, <2>3, <2>6, <3>1
  <2>7. QED
    BY <2>5, <2>6
<1>12. \E n \in 2..Len(b) : AttemptOpen(r, n)'
  <2>1. Children(b, last) = (last + 1)..Len(b)
    <3>1. Children(a, last) = {}
      BY <1>2, <1>3, RootIs
    <3>2. Children(b, last) = {}
      BY <1>2, <1>3, <1>6, <3>1
    <3>3. (last + 1)..Len(b) = {}
      BY <1>2, <1>6
    <3>4. QED
      BY <3>2, <3>3
  <2>2. AtWork(b, last, plan[r])
    BY <1>5, <1>6, <2>1 DEF AtWork
  <2>3. last \in StepSpans(b) /\ b[last].step = seq[r] /\ b[last].attempt = cur[r].attempt
    BY <1>5, <1>6
  <2>4. last \in 2..Len(b)
    BY <1>2, <1>3, <1>6
  <2>5. PICK n \in 2..Len(b) : n = last
    BY <2>4
  <2> HIDE DEF b, last
  <2>6. AttemptOpen(r, n)'
    BY <1>1, <2>2, <2>3, <2>5 DEF AttemptOpen
  <2>7. QED
    BY <2>6
<1> HIDE DEF b
<1>13. NamesOK(r)'
  BY <1>1, <1>2, <1>10, NamesOKKept DEF TraceOK
<1>14. OpenOK(r)'
  <2>1. ~Awaiting(r)'
    BY <1>1 DEF Awaiting
  <2>2. \E n \in 2..Len(spans'[r]) : AttemptOpen(r, n)'
    BY <1>1, <1>12
  <2>3. QED
    BY <1>1, <2>1, <2>2 DEF OpenOK, NotStarted
<1>15. ToldOK(r)'
  <2>1. ~Awaiting(r)' /\ ~Pending(r)'
    BY <1>1 DEF Awaiting, Pending
  <2>2. Len(b) > 0 /\ retried'[r] = Cardinality(Later(b)) + 0
    BY <1>1, <1>2, <1>6, <1>11
  <2>3. QED
    BY <1>1, <1>8, <1>9, <2>1, <2>2 DEF ToldOK, NotStarted, AfterLoop
<1>16. VerdictOK(r)'
  BY <1>1, <1>2 DEF TraceOK, VerdictOK, AfterLoop
<1>17. QED
  BY <1>1, <1>6, <1>7, <1>13, <1>14, <1>15, <1>16 DEF TraceOK

\* Where the work on a step is.
LEMMA AtWorkIs ==
  ASSUME IInv, TraceTypeOK, NEW r \in Runs, TraceOK(r), pc[r] = "working"
  PROVE  \E n \in 2..Len(spans[r]) :
           LET a == spans[r]
               len == Len(a)
           IN
           /\ n \in Nat /\ n > 1 /\ n \in Opened(a) /\ n \in StepSpans(a) /\ a[n].kind = "agent.step"
           /\ a[n].step = seq[r] /\ a[n].attempt = cur[r].attempt
           /\ a[n].status = "unset" /\ Children(a, n) = (n + 1)..len
           /\ Innermost(a) = len /\ len \in Opened(a) /\ \A x \in Opened(a) : x <= len
           /\ \/ n = len /\ Opened(a) = {1, n}
              \/ /\ n + 1 = len /\ Opened(a) = {1, n, len} /\ plan[r][seq[r]] = "sub_agent"
                 /\ a[len].kind = "agent.sub_step.model_call"
              \/ /\ n + 2 = len /\ Opened(a) = {1, n, len} /\ plan[r][seq[r]] = "sub_agent"
                 /\ a[n + 1].kind = "agent.sub_step.model_call"
                 /\ a[len].kind = "agent.sub_step.tool_call"
<1> DEFINE a == spans[r]
<1>1. a \in Seq(SpanType) /\ Len(a) \in Nat
  BY RunFacts
<1>2. UnderWay(r)
  BY DEF UnderWay
<1>3. PICK n \in 2..Len(a) :
        /\ AttemptOpen(r, n) /\ n \in Nat /\ n > 1 /\ n \in Opened(a)
        /\ n \in StepSpans(a) /\ a[n].kind = "agent.step"
  BY <1>2, AttemptIs
<1>4. /\ a[n].step = seq[r] /\ a[n].attempt = cur[r].attempt /\ AtWork(a, n, plan[r])
  BY <1>3 DEF AttemptOpen
<1> HIDE DEF a
<1>5. /\ a[n].status = "unset" /\ Children(a, n) = (n + 1)..Len(a)
      /\ \/ n = Len(a) /\ Opened(a) = {1, n}
         \/ /\ n + 1 = Len(a) /\ Opened(a) = {1, n, Len(a)} /\ plan[r][seq[r]] = "sub_agent"
            /\ a[Len(a)].kind = "agent.sub_step.model_call"
         \/ /\ n + 2 = Len(a) /\ Opened(a) = {1, n, Len(a)} /\ plan[r][seq[r]] = "sub_agent"
            /\ a[n + 1].kind = "agent.sub_step.model_call"
            /\ a[Len(a)].kind = "agent.sub_step.tool_call"
  BY <1>4 DEF AtWork
<1>6. Len(a) \in Opened(a) /\ \A x \in Opened(a) : x <= Len(a)
  BY <1>1, <1>3, <1>5
<1>7. Innermost(a) = Len(a)
  BY <1>1, <1>6, InnermostIs
<1>8. QED
  BY <1>3, <1>4, <1>5, <1>6, <1>7 DEF a

\* Another span of the attempt: the work goes on.
LEMMA WorkGoesOn ==
  ASSUME IInv, TraceTypeOK, NEW r \in Runs, TraceOK(r), pc[r] = "working",
         UNCHANGED <<vars, rowSpan, retried, counted>>,
         NEW b \in Seq(SpanType), spans'[r] = b, Len(b) > 0, Tree(r, b, seq[r]),
         Carries(spans[r], b), StepSpans(b) = StepSpans(spans[r]),
         Later(b) = Later(spans[r]), CallsOK(b, plan[r]),
         NEW n \in 2..Len(b), n \in StepSpans(b), b[n].step = seq[r],
         b[n].attempt = cur[r].attempt, AtWork(b, n, plan[r])
  PROVE  TraceOK(r)'
<1>1. /\ pc'[r] = "working" /\ seq'[r] = seq[r] /\ cur'[r] = cur[r] /\ plan'[r] = plan[r]
      /\ steps'[r] = steps[r] /\ result'[r] = result[r] /\ outcome'[r] = outcome[r]
      /\ rowSpan'[r] = rowSpan[r] /\ retried'[r] = retried[r] /\ counted'[r] = counted[r]
  BY DEF vars, database, task
<1>2. spans[r] \in Seq(SpanType) /\ seq[r] \in Nat /\ result[r] = "none"
  BY RunFacts DEF InLoop
<1>3. NamesOK(r)'
  BY <1>1, <1>2, NamesOKKept DEF TraceOK
<1>4. OpenOK(r)'
  <2>1. AttemptOpen(r, n)'
    BY <1>1 DEF AttemptOpen
  <2>2. ~Awaiting(r)'
    BY <1>1 DEF Awaiting
  <2>3. QED
    BY <1>1, <2>1, <2>2 DEF OpenOK, NotStarted
<1>5. ToldOK(r)'
  <2> DEFINE x == cur[r].attempt
  <2>1. /\ Tells(spans[r], steps[r], seq[r], x, x) /\ cur[r].status = "running"
        /\ retried[r] = Cardinality(Later(spans[r])) + (IF Pending(r) THEN 1 ELSE 0)
    BY DEF TraceOK, ToldOK, NotStarted, Awaiting
  <2> HIDE DEF x
  <2>2. Tells(b, steps[r], seq[r], x, x)
    BY <1>2, <2>1, TellsCarried
  <2>3. ~Awaiting(r)' /\ Pending(r)' = Pending(r)
    BY <1>1 DEF Awaiting, Pending
  <2>4. QED
    BY <1>1, <2>1, <2>2, <2>3 DEF ToldOK, NotStarted, AfterLoop, x
<1>6. VerdictOK(r)'
  BY <1>1, <1>2 DEF TraceOK, VerdictOK, AfterLoop
<1>7. QED
  BY <1>1, <1>3, <1>4, <1>5, <1>6 DEF TraceOK

\* A sub-span in the context of the task.
LEMMA SubSpanIs ==
  ASSUME NEW r \in Runs, NEW kind \in SpanKind, NEW c, NEW n \in Nat, Innermost(c) = n,
         Opened(c) # {}, seq[r] \in Nat, cur[r].attempt \in Nat
  PROVE  \E s \in SpanType :
           /\ SubSpan(r, kind, c) = Append(c, s) /\ ~s.ended /\ s.status = "unset"
           /\ s.kind = kind /\ s.parent.run = r /\ s.parent.number = n
<1> DEFINE s == Span(kind, SpanOf(r, n), seq[r], cur[r].attempt)
<1>1. /\ SpanOf(r, n) \in [run: Runs \union {"none"}, number: Nat]
      /\ SpanOf(r, n).run = r /\ SpanOf(r, n).number = n
  BY DEF SpanOf
<1>2. /\ s \in SpanType /\ ~s.ended /\ s.status = "unset"
      /\ s.kind = kind /\ s.parent = SpanOf(r, n)
  BY <1>1, SpanIs
<1>3. SubSpan(r, kind, c) = Append(c, s)
  BY DEF SubSpan, ContextIn
<1> HIDE DEF s
<1>4. QED
  BY <1>1, <1>2, <1>3

\* A list with one more sub-span.
LEMMA SubGrown ==
  ASSUME NEW a \in Seq(SpanType), NEW s \in SpanType, ~s.ended, ~IsStepSpan(s),
         NEW n \in Nat, s.parent.number = n
  PROVE  LET b == Append(a, s)
             last == Len(a) + 1
         IN  /\ b \in Seq(SpanType) /\ Len(b) = last /\ b[last] = s
             /\ \A m \in 1..Len(a) : b[m] = a[m]
             /\ Opened(b) = Opened(a) \union {last}
             /\ StepSpans(b) = StepSpans(a) /\ Later(b) = Later(a)
             /\ Children(b, n) = Children(a, n) \union {last}
<1> DEFINE b == Append(a, s)
           last == Len(a) + 1
<1>1. /\ b \in Seq(SpanType) /\ Len(b) = last /\ b[last] = s
      /\ \A m \in 1..Len(a) : b[m] = a[m]
      /\ Opened(b) = Opened(a) \union {last}
      /\ StepSpans(b) = StepSpans(a) \union (IF IsStepSpan(s) THEN {last} ELSE {})
      /\ Later(b) = Later(a) \union (IF IsStepSpan(s) /\ s.attempt > 1 THEN {last} ELSE {})
      /\ Children(b, n) = Children(a, n) \union
                            (IF s.parent.number = n THEN {last} ELSE {})
  BY GrownIs
<1> HIDE DEF b, last
<1>2. StepSpans(b) = StepSpans(a) /\ Later(b) = Later(a)
      /\ Children(b, n) = Children(a, n) \union {last}
  BY <1>1
<1>3. QED
  BY <1>1, <1>2 DEF b, last

\* The first call of a sub-agent.
LEMMA SubModelTraced ==
  ASSUME IInv, TraceTypeOK, NEW r \in Runs, TraceOK(r), TraceSubModelCall(r)
  PROVE  spans'[r] \in Seq(SpanType) /\ TraceOK(r)'
<1> DEFINE a == spans[r]
           kind == "agent.sub_step.model_call"
<1>1. /\ pc[r] = "working" /\ a[Innermost(a)].kind = "agent.step"
      /\ plan[r][seq[r]] = "sub_agent" /\ spans'[r] = SubSpan(r, kind, a)
      /\ UNCHANGED <<vars, rowSpan, retried, counted>>
  BY DEF TraceSubModelCall, Untouched, InSpan, Traces, TraceTypeOK
<1>2. /\ a \in Seq(SpanType) /\ Len(a) \in Nat /\ seq[r] \in Nat
      /\ cur[r].attempt \in Nat /\ Tree(r, a, seq[r]) /\ CallsOK(a, plan[r])
  BY <1>1, RunFacts DEF InLoop, TraceOK, ToldOK, NotStarted
<1>3. PICK n \in 2..Len(a) :
           /\ n \in Nat /\ n > 1 /\ n \in Opened(a) /\ n \in StepSpans(a) /\ a[n].kind = "agent.step"
           /\ a[n].step = seq[r] /\ a[n].attempt = cur[r].attempt
           /\ a[n].status = "unset" /\ Children(a, n) = (n + 1)..Len(a)
           /\ Innermost(a) = n /\ n = Len(a) /\ Opened(a) = {1, n}
  <2>1. PICK n \in 2..Len(a) :
           /\ n \in Nat /\ n > 1 /\ n \in Opened(a) /\ n \in StepSpans(a) /\ a[n].kind = "agent.step"
           /\ a[n].step = seq[r] /\ a[n].attempt = cur[r].attempt
           /\ a[n].status = "unset" /\ Children(a, n) = (n + 1)..Len(a)
           /\ Innermost(a) = Len(a)
           /\ \/ n = Len(a) /\ Opened(a) = {1, n}
              \/ a[Len(a)].kind = "agent.sub_step.model_call"
              \/ a[Len(a)].kind = "agent.sub_step.tool_call"
    BY <1>1, AtWorkIs
  <2>2. n = Len(a) /\ Opened(a) = {1, n}
    BY <1>1, <2>1
  <2>3. QED
    BY <2>1, <2>2
<1>4. PICK s \in SpanType :
           /\ SubSpan(r, kind, a) = Append(a, s) /\ ~s.ended /\ s.status = "unset"
           /\ s.kind = kind /\ s.parent.run = r /\ s.parent.number = n
  BY <1>2, <1>3, SubSpanIs DEF SpanKind
<1> DEFINE b == Append(a, s)
<1>5. /\ b \in Seq(SpanType) /\ Len(b) = n + 1 /\ b[n + 1] = s
      /\ \A m \in 1..Len(a) : b[m] = a[m]
      /\ Opened(b) = {1, n, n + 1} /\ StepSpans(b) = StepSpans(a) /\ Later(b) = Later(a)
      /\ Children(b, n) = Children(a, n) \union {n + 1}
  <2>1. ~IsStepSpan(s)
    BY <1>4 DEF IsStepSpan
  <2>2. /\ b \in Seq(SpanType) /\ Len(b) = Len(a) + 1 /\ b[Len(a) + 1] = s
        /\ \A m \in 1..Len(a) : b[m] = a[m]
        /\ Opened(b) = Opened(a) \union {Len(a) + 1}
        /\ StepSpans(b) = StepSpans(a) /\ Later(b) = Later(a)
        /\ Children(b, n) = Children(a, n) \union {Len(a) + 1}
    BY <1>2, <1>3, <1>4, <2>1, SubGrown
  <2> HIDE DEF b
  <2>3. QED
    BY <1>3, <2>2
<1>6. Tree(r, b, seq[r])
  <2>1. ~IsStepSpan(s) /\ s.kind # "agent.run"
    BY <1>4 DEF IsStepSpan
  <2>2. Len(a) > 0 /\ s.parent.number \in Opened(a)
    BY <1>3, <1>4
  <2>3. a[s.parent.number].kind = "agent.step"
    BY <1>3, <1>4
  <2>4. QED
    BY <1>2, <1>4, <2>1, <2>2, <2>3, TreeGrown
<1>7. CallsOK(b, plan[r])
  BY <1>2, <1>3, <1>4, CallsGrown
<1>8. Carries(a, b)
  BY <1>2, <1>3, <1>5 DEF Carries, Alike
<1>9. AtWork(b, n, plan[r])
  BY <1>1, <1>3, <1>4, <1>5 DEF AtWork
<1>10. n \in 2..Len(b) /\ n \in StepSpans(b) /\ b[n] = a[n] /\ Len(b) > 0
  BY <1>2, <1>3, <1>5
<1> HIDE DEF b
<1>11. QED
  BY <1>1, <1>3, <1>4, <1>5, <1>6, <1>7, <1>8, <1>9, <1>10, WorkGoesOn DEF b

\* And the second.
LEMMA SubToolTraced ==
  ASSUME IInv, TraceTypeOK, NEW r \in Runs, TraceOK(r), TraceSubToolCall(r)
  PROVE  spans'[r] \in Seq(SpanType) /\ TraceOK(r)'
<1> DEFINE a == spans[r]
           c == Leave(a)
           kind == "agent.sub_step.tool_call"
<1>1. /\ pc[r] = "working" /\ a[Innermost(a)].kind = "agent.sub_step.model_call"
      /\ spans'[r] = SubSpan(r, kind, c)
      /\ UNCHANGED <<vars, rowSpan, retried, counted>>
  BY DEF TraceSubToolCall, InSpan, Traces, TraceTypeOK
<1>2. /\ a \in Seq(SpanType) /\ Len(a) \in Nat /\ seq[r] \in Nat
      /\ cur[r].attempt \in Nat /\ Tree(r, a, seq[r]) /\ CallsOK(a, plan[r])
  BY <1>1, RunFacts DEF InLoop, TraceOK, ToldOK, NotStarted
<1>3. PICK n \in 2..Len(a) :
           /\ n \in Nat /\ n > 1 /\ n \in Opened(a) /\ n \in StepSpans(a) /\ a[n].kind = "agent.step"
           /\ a[n].step = seq[r] /\ a[n].attempt = cur[r].attempt
           /\ a[n].status = "unset" /\ Children(a, n) = (n + 1)..Len(a)
           /\ n + 1 = Len(a) /\ Opened(a) = {1, n, n + 1} /\ plan[r][seq[r]] = "sub_agent"
           /\ a[n + 1].kind = "agent.sub_step.model_call"
  <2>1. PICK n \in 2..Len(a) :
           /\ n \in Nat /\ n > 1 /\ n \in Opened(a) /\ n \in StepSpans(a) /\ a[n].kind = "agent.step"
           /\ a[n].step = seq[r] /\ a[n].attempt = cur[r].attempt
           /\ a[n].status = "unset" /\ Children(a, n) = (n + 1)..Len(a)
           /\ Innermost(a) = Len(a)
           /\ \/ n = Len(a)
              \/ /\ n + 1 = Len(a) /\ Opened(a) = {1, n, Len(a)}
                 /\ plan[r][seq[r]] = "sub_agent"
                 /\ a[Len(a)].kind = "agent.sub_step.model_call"
              \/ a[Len(a)].kind = "agent.sub_step.tool_call"
    BY <1>1, AtWorkIs
  <2>2. /\ n + 1 = Len(a) /\ Opened(a) = {1, n, Len(a)}
        /\ plan[r][seq[r]] = "sub_agent"
        /\ a[Len(a)].kind = "agent.sub_step.model_call"
    BY <1>1, <2>1
  <2>3. QED
    BY <2>1, <2>2
<1>4. /\ SameTree(a, c) /\ Opened(c) = {1, n}
      /\ \A m \in 1..Len(a) : c[m].status = a[m].status
  <2>1. n + 1 \in Opened(a) /\ \A x \in Opened(a) : x <= n + 1
    BY <1>3
  <2>2. /\ SameTree(a, c) /\ Opened(c) = Opened(a) \ {n + 1}
        /\ \A m \in 1..Len(a) : c[m].status = a[m].status
    BY <1>2, <2>1, LeaveIs
  <2>3. Opened(a) \ {n + 1} = {1, n}
    BY <1>3
  <2>4. QED
    BY <2>2, <2>3
<1>5. /\ c \in Seq(SpanType) /\ Len(c) = n + 1 /\ StepSpans(c) = StepSpans(a)
      /\ Later(c) = Later(a) /\ Children(c, n) = {n + 1}
      /\ \A m \in 1..Len(a) : c[m].kind = a[m].kind /\ c[m].step = a[m].step
                              /\ c[m].attempt = a[m].attempt
  <2>1. Children(c, n) = Children(a, n)
    BY <1>2, <1>4, SameTreeIs
  <2>2. (n + 1)..Len(a) = {n + 1}
    BY <1>3
  <2>3. QED
    BY <1>2, <1>3, <1>4, <2>1, <2>2, SameTreeIs DEF SameTree, Alike
<1>6. Tree(r, c, seq[r])
  <2>1. \A x \in Opened(a) \ Opened(c) : \A y \in Opened(c) : y < x
    BY <1>3, <1>4
  <2>2. Opened(c) \subseteq Opened(a)
    BY <1>3, <1>4
  <2>3. QED
    BY <1>2, <1>4, <2>1, <2>2, TreeKept
<1>7. CallsOK(c, plan[r])
  <2>1. \A m \in StepSpans(a) : /\ c[m].status = a[m].status
                                /\ m \in Opened(a) => m \in Opened(c)
    BY <1>2, <1>3, <1>4, OpenedIs DEF StepSpans, IsStepSpan
  <2>2. QED
    BY <1>2, <1>4, <2>1, AllCallsKept
<1>8. Innermost(c) = n
  <2>1. n \in Opened(c) /\ \A x \in Opened(c) : x <= n
    BY <1>3, <1>4
  <2>2. QED
    BY <1>5, <2>1, InnermostIs
<1> HIDE DEF c
<1>9. PICK s \in SpanType :
           /\ SubSpan(r, kind, c) = Append(c, s) /\ ~s.ended /\ s.status = "unset"
           /\ s.kind = kind /\ s.parent.run = r /\ s.parent.number = n
  <2>1. Opened(c) # {} /\ kind \in SpanKind
    BY <1>4 DEF SpanKind
  <2>2. QED
    BY <1>2, <1>3, <1>8, <2>1, SubSpanIs
<1> DEFINE b == Append(c, s)
<1>10. /\ b \in Seq(SpanType) /\ Len(b) = n + 2 /\ b[n + 2] = s
       /\ \A m \in 1..Len(a) : b[m] = c[m]
       /\ Opened(b) = {1, n, n + 2} /\ StepSpans(b) = StepSpans(a) /\ Later(b) = Later(a)
       /\ Children(b, n) = {n + 1, n + 2}
  <2>1. ~IsStepSpan(s)
    BY <1>9 DEF IsStepSpan
  <2>2. /\ b \in Seq(SpanType) /\ Len(b) = Len(c) + 1 /\ b[Len(c) + 1] = s
        /\ \A m \in 1..Len(c) : b[m] = c[m]
        /\ Opened(b) = Opened(c) \union {Len(c) + 1}
        /\ StepSpans(b) = StepSpans(c) /\ Later(b) = Later(c)
        /\ Children(b, n) = Children(c, n) \union {Len(c) + 1}
    BY <1>3, <1>5, <1>9, <2>1, SubGrown
  <2> HIDE DEF b
  <2>3. Len(a) = n + 1 /\ Len(c) = n + 1 /\ Len(c) + 1 = n + 2
    BY <1>3, <1>5
  <2>4. /\ {1, n} \union {n + 2} = {1, n, n + 2}
        /\ {n + 1} \union {n + 2} = {n + 1, n + 2}
    OBVIOUS
  <2>5. QED
    BY <1>4, <1>5, <2>2, <2>3, <2>4
<1>11. Tree(r, b, seq[r])
  <2>1. ~IsStepSpan(s) /\ s.kind # "agent.run" /\ n \in Opened(c) /\ c[n].kind = "agent.step"
    BY <1>3, <1>4, <1>5, <1>9 DEF IsStepSpan
  <2>2. Len(c) > 0
    BY <1>3, <1>5
  <2>3. QED
    BY <1>5, <1>6, <1>9, <2>1, <2>2, TreeGrown
<1>12. CallsOK(b, plan[r])
  <2>1. n \in Opened(c) /\ c[n].status = "unset"
    BY <1>3, <1>4
  <2>2. QED
    BY <1>5, <1>7, <1>9, <2>1, CallsGrown
<1>13. Carries(a, b)
  BY <1>2, <1>3, <1>4, <1>10 DEF Carries, SameTree
<1>14. AtWork(b, n, plan[r])
  <2>1. (n + 1)..(n + 2) = {n + 1, n + 2}
    BY <1>3
  <2>2. b[n] = c[n] /\ b[n + 1] = c[n + 1]
    BY <1>3, <1>10
  <2>3. /\ c[n].status = "unset" /\ c[n].step = seq[r]
        /\ c[n + 1].kind = "agent.sub_step.model_call"
    BY <1>3, <1>4, <1>5
  <2>4. QED
    BY <1>3, <1>9, <1>10, <2>1, <2>2, <2>3 DEF AtWork
<1>15. /\ n \in 2..Len(b) /\ n \in StepSpans(b) /\ Len(b) > 0
       /\ b[n].step = seq[r] /\ b[n].attempt = cur[r].attempt
  BY <1>3, <1>5, <1>10
<1> HIDE DEF b
<1>16. QED
  BY <1>1, <1>9, <1>10, <1>11, <1>12, <1>13, <1>14, <1>15, WorkGoesOn DEF b

\* The work ends: the span of the attempt shows how.
LEMMA WorkEnds ==
  ASSUME IInv, TraceTypeOK, NEW r \in Runs, TraceOK(r), pc[r] = "working",
         pc'[r] = "persist", cur'[r].status \in {"succeeded", "failed"},
         cur'[r].attempt = cur[r].attempt, seq'[r] = seq[r], plan'[r] = plan[r],
         steps'[r] = steps[r], result'[r] = result[r], rowSpan'[r] = rowSpan[r],
         retried'[r] = retried[r], counted'[r] = counted[r],
         NEW n \in 2..Len(spans[r]), n \in StepSpans(spans[r]),
         spans[r][n].step = seq[r], spans[r][n].attempt = cur[r].attempt,
         spans[r][n].status = "unset",
         \A m \in StepSpans(spans[r]) : m \in Opened(spans[r]) => m = n,
         NEW b, spans'[r] = b, SameTree(spans[r], b), Tree(r, b, seq[r]),
         Opened(b) = {1, n}, b[n].status = Verdict(cur'[r]),
         \A m \in 1..Len(spans[r]) : m # n => b[m].status = spans[r][m].status,
         CallsShown(b, n, plan[r][seq[r]])
  PROVE  spans'[r] \in Seq(SpanType) /\ TraceOK(r)'
<1> DEFINE a == spans[r]
           x == cur[r].attempt
<1>1. /\ a \in Seq(SpanType) /\ Len(a) \in Nat /\ seq[r] \in Nat /\ result[r] = "none"
      /\ ~Awaiting(r) /\ ~Pending(r) /\ b \in Seq(SpanType) /\ Len(b) = Len(a)
      /\ StepSpans(a) \subseteq 1..Len(a)
  BY RunFacts, OpenedIs DEF InLoop, Awaiting, Pending, TraceOK, ToldOK, SameTree
<1>2. /\ Tells(a, steps[r], seq[r], x, x) /\ CallsOK(a, plan[r])
      /\ retried[r] = Cardinality(Later(a)) + 0
  BY <1>1 DEF TraceOK, ToldOK, NotStarted
<1>3. Carries(a, b)
  <2>1. \A m \in 1..Len(a) : m \in StepSpans(a) /\ a[m].status # "unset" =>
          b[m].status = a[m].status
    OBVIOUS
  <2>2. QED
    BY <1>1, <2>1, SameTreeCarries
<1>4. /\ StepSpans(b) = StepSpans(a) /\ Later(b) = Later(a)
  BY <1>1, SameTreeIs
<1>5. b[n].step = seq[r] /\ b[n].attempt = x
  BY <1>1 DEF SameTree, Alike
<1>6. CallsOK(b, plan[r])
  <2>1. ASSUME NEW m \in StepSpans(a)
        PROVE  \/ b[m].status = a[m].status
                  /\ (a[m].status = "unset" /\ m \in Opened(a) => m \in Opened(b))
               \/ CallsShown(b, m, plan[r][b[m].step])
    <3>1. CASE m = n
      BY <1>5, <3>1
    <3>2. CASE m # n
      BY <1>1, <3>2
    <3>3. QED
      BY <3>1, <3>2
  <2>2. QED
    BY <1>1, <1>2, <2>1, AllCallsKept
<1>7. NamesOK(r)'
  BY <1>1, <1>3, NamesOKKept DEF TraceOK
<1>8. ~Awaiting(r)' /\ ~Pending(r)'
  BY DEF Awaiting, Pending
<1>9. OpenOK(r)'
  <2>1. AttemptOpen(r, n)'
    BY <1>4, <1>5 DEF AttemptOpen
  <2>2. QED
    BY <1>1, <1>8, <2>1 DEF OpenOK, NotStarted
<1>10. Tells(b, steps[r], seq[r], x, x)
  <2> HIDE DEF x
  <2>1. QED
    BY <1>1, <1>2, <1>3, <1>4, TellsCarried
<1>11. ToldOK(r)'
  BY <1>1, <1>2, <1>4, <1>6, <1>8, <1>10 DEF ToldOK, NotStarted, AfterLoop
<1>12. VerdictOK(r)'
  BY <1>1 DEF TraceOK, VerdictOK, AfterLoop
<1>13. QED
  BY <1>1, <1>7, <1>9, <1>11, <1>12 DEF TraceOK

\* The span of the attempt is marked when no sub-span is open.
LEMMA MarkedEnds ==
  ASSUME NEW a \in Seq(SpanType), NEW r, NEW k, Tree(r, a, k), NEW n \in Nat, n > 1,
         Opened(a) = {1, n}, NEW mark \in {"ok", "error"}, NEW b, b = Marked(a, mark)
  PROVE  /\ SameTree(a, b) /\ Tree(r, b, k) /\ Opened(b) = {1, n}
         /\ b[n].status = mark /\ Children(b, n) = Children(a, n)
         /\ \A m \in 1..Len(a) : m # n => b[m].status = a[m].status
<1>1. n \in Opened(a) /\ \A x \in Opened(a) : x <= n
  OBVIOUS
<1>2. n \in 1..Len(a)
  BY <1>1, OpenedIs
<1>3. /\ SameTree(a, b) /\ Opened(b) = Opened(a)
      /\ \A m \in 1..Len(a) : b[m].status = IF m = n THEN mark ELSE a[m].status
  BY <1>1, MarkedIs
<1>4. Tree(r, b, k)
  BY <1>3, TreeKept
<1>5. QED
  BY <1>2, <1>3, <1>4, SameTreeIs

\* The work fails before any sub-span was opened.
LEMMA FailureTraced ==
  ASSUME IInv, TraceTypeOK, NEW r \in Runs, TraceOK(r), TraceFailure(r)
  PROVE  spans'[r] \in Seq(SpanType) /\ TraceOK(r)'
<1> DEFINE a == spans[r]
           b == Marked(a, "error")
<1>1. /\ pc[r] = "working" /\ a[Innermost(a)].kind = "agent.step" /\ spans'[r] = b
      /\ pc'[r] = "persist" /\ cur'[r].status = "failed" /\ cur'[r].attempt = cur[r].attempt
      /\ seq'[r] = seq[r] /\ plan'[r] = plan[r] /\ steps'[r] = steps[r]
      /\ result'[r] = result[r] /\ rowSpan'[r] = rowSpan[r]
      /\ retried'[r] = retried[r] /\ counted'[r] = counted[r]
  <2>1. cur[r] \in StepRow \/ pc[r] # "working"
    BY InLoopTyped DEF IInv, InLoop
  <2>2. QED
    BY <2>1, AssignStatus DEF TraceFailure, StepFails, At, Untouched, InSpan, Traces, database,
       IInv, TypeOK, TraceTypeOK, StepStatus
<1>2. a \in Seq(SpanType) /\ Tree(r, a, seq[r])
  BY RunFacts DEF TraceOK
<1>3. PICK n \in 2..Len(a) :
           /\ n \in Nat /\ n > 1 /\ n \in StepSpans(a)
           /\ a[n].step = seq[r] /\ a[n].attempt = cur[r].attempt
           /\ a[n].status = "unset" /\ Children(a, n) = {}
           /\ Opened(a) = {1, n}
  <2>1. PICK n \in 2..Len(a) :
           /\ n \in Nat /\ n > 1 /\ n \in StepSpans(a)
           /\ a[n].step = seq[r] /\ a[n].attempt = cur[r].attempt
           /\ a[n].status = "unset" /\ Children(a, n) = (n + 1)..Len(a)
           /\ Innermost(a) = Len(a)
           /\ \/ n = Len(a) /\ Opened(a) = {1, n}
              \/ a[Len(a)].kind = "agent.sub_step.model_call"
              \/ a[Len(a)].kind = "agent.sub_step.tool_call"
    BY <1>1, AtWorkIs
  <2>2. n = Len(a) /\ Opened(a) = {1, n}
    BY <1>1, <2>1
  <2>3. (n + 1)..Len(a) = {}
    BY <2>1, <2>2
  <2>4. QED
    BY <2>1, <2>2, <2>3
<1> HIDE DEF b
<1>4. /\ SameTree(a, b) /\ Tree(r, b, seq[r]) /\ Opened(b) = {1, n}
      /\ b[n].status = "error" /\ Children(b, n) = {}
      /\ \A m \in 1..Len(a) : m # n => b[m].status = a[m].status
  BY <1>2, <1>3, MarkedEnds DEF b
<1>5. CallsShown(b, n, plan[r][seq[r]])
  BY <1>4 DEF CallsShown
<1>6. /\ \A m \in StepSpans(a) : m \in Opened(a) => m = n
      /\ cur'[r].status \in {"succeeded", "failed"} /\ b[n].status = Verdict(cur'[r])
  BY <1>1, <1>2, <1>3, <1>4, RootIs DEF Verdict
<1>7. QED
  BY <1>1, <1>3, <1>4, <1>5, <1>6, WorkEnds

\* It succeeds, with the calls of a sub-agent made.
LEMMA SuccessTraced ==
  ASSUME IInv, TraceTypeOK, NEW r \in Runs, TraceOK(r), TraceSuccess(r)
  PROVE  spans'[r] \in Seq(SpanType) /\ TraceOK(r)'
<1> DEFINE a == spans[r]
           sub == plan[r][seq[r]] = "sub_agent"
           c == IF sub THEN Leave(a) ELSE a
           b == Marked(c, "ok")
<1>1. /\ pc[r] = "working" /\ spans'[r] = b
      /\ sub => a[Innermost(a)].kind = "agent.sub_step.tool_call"
      /\ pc'[r] = "persist" /\ cur'[r].status = "succeeded"
      /\ cur'[r].attempt = cur[r].attempt
      /\ seq'[r] = seq[r] /\ plan'[r] = plan[r] /\ steps'[r] = steps[r]
      /\ result'[r] = result[r] /\ rowSpan'[r] = rowSpan[r]
      /\ retried'[r] = retried[r] /\ counted'[r] = counted[r]
  <2>1. /\ pc[r] = "working" /\ pc'[r] = "persist" /\ seq'[r] = seq[r]
        /\ plan'[r] = plan[r] /\ steps'[r] = steps[r] /\ result'[r] = result[r]
        /\ \E u \in Usage :
             cur' = [cur EXCEPT ![r].status = "succeeded", ![r].usage = u]
    BY DEF TraceSuccess, StepSucceeds, At, database, IInv, TypeOK
  <2>2. /\ rowSpan'[r] = rowSpan[r] /\ retried'[r] = retried[r] /\ counted'[r] = counted[r]
        /\ sub => a[Innermost(a)].kind = "agent.sub_step.tool_call"
        /\ spans'[r] = b
    BY DEF TraceSuccess, InSpan, Traces, TraceTypeOK
  <2>3. cur[r] \in StepRow
    BY <2>1, InLoopTyped DEF IInv, InLoop
  <2>4. PICK u \in Usage :
          cur'[r] = [cur[r] EXCEPT !.status = "succeeded", !.usage = u]
    BY <2>1 DEF IInv, TypeOK
  <2>5. cur'[r].status = "succeeded" /\ cur'[r].attempt = cur[r].attempt
    BY <2>3, <2>4 DEF StepRow
  <2>6. QED
    BY <2>1, <2>2, <2>5
<1>2. a \in Seq(SpanType) /\ Tree(r, a, seq[r]) /\ Len(a) \in Nat
  BY RunFacts DEF TraceOK
<1>3. PICK n \in 2..Len(a) :
           /\ n \in Nat /\ n > 1 /\ n \in Opened(a) /\ n \in StepSpans(a)
           /\ a[n].step = seq[r] /\ a[n].attempt = cur[r].attempt
           /\ a[n].status = "unset" /\ Children(a, n) = (n + 1)..Len(a)
           /\ IF sub
              THEN /\ n + 2 = Len(a) /\ Opened(a) = {1, n, n + 2}
                   /\ a[n + 1].kind = "agent.sub_step.model_call"
                   /\ a[n + 2].kind = "agent.sub_step.tool_call"
              ELSE n = Len(a) /\ Opened(a) = {1, n}
  <2>1. PICK n \in 2..Len(a) :
           /\ n \in Nat /\ n > 1 /\ n \in Opened(a) /\ n \in StepSpans(a)
           /\ a[n].kind = "agent.step"
           /\ a[n].step = seq[r] /\ a[n].attempt = cur[r].attempt
           /\ a[n].status = "unset" /\ Children(a, n) = (n + 1)..Len(a)
           /\ Innermost(a) = Len(a)
           /\ \/ n = Len(a) /\ Opened(a) = {1, n}
              \/ sub /\ a[Len(a)].kind = "agent.sub_step.model_call"
              \/ /\ n + 2 = Len(a) /\ Opened(a) = {1, n, Len(a)} /\ sub
                 /\ a[n + 1].kind = "agent.sub_step.model_call"
                 /\ a[Len(a)].kind = "agent.sub_step.tool_call"
    BY <1>1, AtWorkIs
  <2> HIDE DEF sub
  <2>2. CASE sub
    <3>1. a[Len(a)].kind = "agent.sub_step.tool_call"
      BY <1>1, <2>1, <2>2
    <3>2. /\ n + 2 = Len(a) /\ Opened(a) = {1, n, Len(a)}
          /\ a[n + 1].kind = "agent.sub_step.model_call"
      BY <2>1, <3>1
    <3>3. QED
      BY <2>1, <2>2, <3>1, <3>2
  <2>3. CASE ~sub
    BY <2>1, <2>3
  <2>4. QED
    BY <2>2, <2>3
<1> HIDE DEF b, c, sub
<1>4. /\ SameTree(a, c) /\ Tree(r, c, seq[r]) /\ Opened(c) = {1, n}
      /\ \A m \in 1..Len(a) : c[m].status = a[m].status
  <2>1. CASE ~sub
    <3>1. c = a
      BY <2>1 DEF c
    <3>2. QED
      BY <1>2, <1>3, <2>1, <3>1 DEF SameTree, Alike
  <2>2. CASE sub
    <3>1. n + 2 \in Opened(a) /\ \A x \in Opened(a) : x <= n + 2
      BY <1>3, <2>2
    <3>2. c = Leave(a)
      BY <2>2 DEF c
    <3>3. /\ SameTree(a, c) /\ Opened(c) = Opened(a) \ {n + 2}
          /\ \A m \in 1..Len(a) : c[m].status = a[m].status
      BY <1>2, <3>1, <3>2, LeaveIs
    <3>4. Opened(a) \ {n + 2} = {1, n}
      BY <1>3, <2>2
    <3>5. \A x \in Opened(a) \ Opened(c) : \A y \in Opened(c) : y < x
      BY <1>3, <3>3, <3>4
    <3>6. Tree(r, c, seq[r])
      BY <1>2, <3>3, <3>5, TreeKept
    <3>7. QED
      BY <3>3, <3>4, <3>6
  <2>3. QED
    BY <2>1, <2>2
<1>5. c \in Seq(SpanType) /\ Len(c) = Len(a)
  BY <1>4 DEF SameTree
<1>6. /\ SameTree(c, b) /\ Tree(r, b, seq[r]) /\ Opened(b) = {1, n}
      /\ b[n].status = "ok" /\ Children(b, n) = Children(c, n)
      /\ \A m \in 1..Len(c) : m # n => b[m].status = c[m].status
  BY <1>3, <1>4, <1>5, MarkedEnds DEF b
<1>7. SameTree(a, b)
  BY <1>4, <1>6 DEF SameTree, Alike
<1>8. Children(b, n) = (n + 1)..Len(a)
  BY <1>2, <1>3, <1>7, SameTreeIs
<1>9. CallsShown(b, n, plan[r][seq[r]])
  <2>1. CASE ~sub
    <3>1. Children(b, n) = {}
      BY <1>3, <1>8, <2>1
    <3>2. QED
      BY <2>1, <3>1 DEF CallsShown, sub
  <2>2. CASE sub
    <3>1. Children(b, n) = {n + 1, n + 2}
      BY <1>3, <1>8, <2>2
    <3>2. n + 1 \in 1..Len(a) /\ n + 2 \in 1..Len(a)
      BY <1>3, <2>2
    <3>3. b[n + 1].kind = a[n + 1].kind /\ b[n + 2].kind = a[n + 2].kind
      BY <1>7, <3>2 DEF SameTree, Alike
    <3>4. n + 2 # n + 1
      BY <1>3
    <3>5. QED
      BY <1>3, <1>6, <2>2, <3>1, <3>3, <3>4 DEF CallsShown, sub
  <2>3. QED
    BY <2>1, <2>2
<1>10. \A m \in StepSpans(a) : m \in Opened(a) => m = n
  <2>1. 1 \notin StepSpans(a)
    BY <1>2, RootIs
  <2>2. sub => n + 2 \notin StepSpans(a)
    BY <1>3 DEF StepSpans, IsStepSpan
  <2>3. QED
    BY <1>3, <2>1, <2>2
<1>11. /\ cur'[r].status \in {"succeeded", "failed"} /\ b[n].status = Verdict(cur'[r])
       /\ \A m \in 1..Len(a) : m # n => b[m].status = a[m].status
  BY <1>1, <1>4, <1>5, <1>6 DEF Verdict
<1>12. QED
  BY <1>1, <1>3, <1>6, <1>7, <1>9, <1>10, <1>11, WorkEnds

\* An attempt that failed is to be tried again: the retry is counted, and the span of
\* the attempt stays open over the backoff.
LEMMA RetryingTraced ==
  ASSUME IInv, TraceTypeOK, NEW r \in Runs, TraceOK(r), TraceRetrying(r) \/ TraceBackoff(r)
  PROVE  retried'[r] \in Nat /\ TraceOK(r)'
<1> DEFINE a == spans[r]
<1>1. /\ pc[r] = "publish" /\ cur[r].status \in {"failed", "retrying"}
      /\ cur'[r].status = "retrying" /\ cur'[r].attempt = cur[r].attempt
      /\ pc'[r] = IF cur[r].status = "failed" THEN "persist" ELSE "backoff"
      /\ retried'[r] = IF cur[r].status = "failed" THEN retried[r] + 1 ELSE retried[r]
      /\ spans'[r] = a /\ seq'[r] = seq[r] /\ plan'[r] = plan[r] /\ steps'[r] = steps[r]
      /\ result'[r] = result[r] /\ rowSpan'[r] = rowSpan[r] /\ counted'[r] = counted[r]
  <2>1. pc[r] = "publish" => cur[r] \in StepRow
    BY InLoopTyped DEF IInv, InLoop
  <2>2. CASE TraceRetrying(r)
    BY <2>1, <2>2, AssignStatus DEF TraceRetrying, PublishFailedAndRetry, Publish, database,
       IInv, TypeOK, TraceTypeOK, StepStatus
  <2>3. CASE TraceBackoff(r)
    BY <2>3 DEF TraceBackoff, PublishRetrying, Publish, database, locals, trace,
       IInv, TypeOK, TraceTypeOK
  <2>4. QED
    BY <2>2, <2>3
<1>2. /\ a \in Seq(SpanType) /\ result[r] = "none" /\ retried[r] \in Nat
      /\ UnderWay(r) /\ ~Awaiting(r) /\ (Pending(r) <=> cur[r].status = "retrying")
  BY <1>1, RunFacts DEF InLoop, UnderWay, Awaiting, Pending
<1>3. Pending(r)' /\ ~Awaiting(r)'
  BY <1>1 DEF Pending, Awaiting, InLoop
<1>4. OpenOK(r)'
  <2>1. PICK n \in 2..Len(a) : AttemptOpen(r, n)
    BY <1>2, AttemptIs
  <2>2. AttemptOpen(r, n)'
    BY <1>1, <2>1 DEF AttemptOpen, Verdict
  <2>3. QED
    BY <1>1, <1>3, <2>2 DEF OpenOK, NotStarted
<1>5. ToldOK(r)'
  <2>1. Cardinality(Later(a)) \in Nat
    BY <1>2, LaterCounted
  <2>2. /\ Len(a) > 0 /\ CallsOK(a, plan[r])
        /\ Tells(a, steps[r], seq[r], cur[r].attempt, cur[r].attempt)
        /\ retried[r] = Cardinality(Later(a)) + (IF Pending(r) THEN 1 ELSE 0)
    BY <1>1, <1>2 DEF TraceOK, ToldOK, NotStarted
  <2>3. retried'[r] = Cardinality(Later(a)) + 1
    <3>1. CASE cur[r].status = "failed"
      BY <1>1, <1>2, <2>1, <2>2, <3>1
    <3>2. CASE cur[r].status = "retrying"
      BY <1>1, <1>2, <2>1, <2>2, <3>2
    <3>3. QED
      BY <1>1, <3>1, <3>2
  <2>4. QED
    BY <1>1, <1>3, <2>2, <2>3 DEF ToldOK, NotStarted, AfterLoop
<1>6. VerdictOK(r)' /\ NamesOK(r)' /\ Tree(r, spans[r], seq[r])'
  BY <1>1, <1>2 DEF TraceOK, VerdictOK, NamesOK, AfterLoop
<1>7. QED
  BY <1>1, <1>2, <1>4, <1>5, <1>6 DEF TraceOK

\* What is left open when the span of an attempt that has its verdict is left.
LEMMA AttemptLeft ==
  ASSUME IInv, TraceTypeOK, NEW r \in Runs, TraceOK(r), UnderWay(r), pc[r] # "working"
  PROVE  \E n \in StepSpans(spans[r]) :
           LET a == spans[r]
               c == Leave(a)
           IN  /\ a[n].step = seq[r] /\ a[n].attempt = cur[r].attempt
               /\ a[n].status = Verdict(cur[r])
               /\ SameTree(a, c) /\ Carries(a, c) /\ Tree(r, c, seq[r]) /\ Opened(c) = {1}
               /\ StepSpans(c) = StepSpans(a) /\ Later(c) = Later(a)
               /\ Len(c) > 0 /\ c \in Seq(SpanType) /\ CallsOK(c, plan[r])
               /\ \A m \in 1..Len(a) : c[m].status = a[m].status
<1> DEFINE a == spans[r]
           c == Leave(a)
<1>1. PICK n \in 2..Len(a) :
           /\ AttemptOpen(r, n) /\ n \in Nat /\ n > 1 /\ n \in Opened(a)
           /\ n \in StepSpans(a) /\ Len(a) > 0 /\ Tree(r, a, seq[r])
  BY AttemptIs
<1>2. /\ a[n].step = seq[r] /\ a[n].attempt = cur[r].attempt
      /\ a[n].status = Verdict(cur[r]) /\ Opened(a) = {1, n}
  BY <1>1 DEF AttemptOpen
<1>3. a \in Seq(SpanType) /\ Len(a) \in Nat /\ CallsOK(a, plan[r])
  <2>1. pc[r] \notin NotStarted \union {"crashed"}
    BY DEF UnderWay, NotStarted
  <2>2. QED
    BY <2>1, RunFacts DEF TraceOK, ToldOK
<1> HIDE DEF a
<1>4. /\ SameTree(a, c) /\ Opened(c) = {1}
      /\ \A m \in 1..Len(a) : c[m].status = a[m].status
  <2>1. \A x \in Opened(a) : x <= n
    BY <1>1, <1>2
  <2>2. /\ SameTree(a, c) /\ Opened(c) = Opened(a) \ {n}
        /\ \A m \in 1..Len(a) : c[m].status = a[m].status
    BY <1>1, <1>3, <2>1, LeaveIs
  <2>3. Opened(a) \ {n} = {1}
    BY <1>1, <1>2
  <2>4. QED
    BY <2>2, <2>3
<1> HIDE DEF c
<1>5. Tree(r, c, seq[r])
  <2>1. \A x \in Opened(a) \ Opened(c) : \A y \in Opened(c) : y < x
    BY <1>1, <1>2, <1>4
  <2>2. Opened(c) \subseteq Opened(a)
    BY <1>2, <1>4
  <2>3. QED
    BY <1>1, <1>3, <1>4, <2>1, <2>2, TreeKept
<1>6. Carries(a, c)
  BY <1>3, <1>4, SameTreeCarries
<1>7. StepSpans(c) = StepSpans(a) /\ Later(c) = Later(a)
  BY <1>3, <1>4, SameTreeIs
<1>8. CallsOK(c, plan[r])
  <2>1. 1 \notin StepSpans(a) /\ StepSpans(a) \subseteq 1..Len(a)
    BY <1>1, <1>3, RootIs, OpenedIs
  <2>2. \A m \in StepSpans(a) : m \in Opened(a) => a[m].status # "unset"
    BY <1>2, <2>1 DEF Verdict
  <2>3. QED
    BY <1>3, <1>4, <2>1, <2>2, AllCallsKept
<1>9. Len(c) > 0 /\ c \in Seq(SpanType)
  BY <1>1, <1>4 DEF SameTree
<1>10. QED
  BY <1>1, <1>2, <1>4, <1>5, <1>6, <1>7, <1>8, <1>9 DEF a, c

\* After the backoff the span is left, and the next attempt is to be saved.
LEMMA RetryTraced ==
  ASSUME IInv, TraceTypeOK, NEW r \in Runs, TraceOK(r), TraceRetry(r)
  PROVE  spans'[r] \in Seq(SpanType) /\ TraceOK(r)'
<1> DEFINE a == spans[r]
           c == Leave(a)
           x == cur[r].attempt
<1>1. /\ pc[r] = "backoff" /\ pc'[r] = "persist" /\ cur'[r] = FreshStep(cur[r].attempt + 1)
      /\ spans'[r] = c /\ seq'[r] = seq[r] /\ plan'[r] = plan[r] /\ steps'[r] = steps[r]
      /\ result'[r] = result[r] /\ rowSpan'[r] = rowSpan[r] /\ retried'[r] = retried[r]
      /\ counted'[r] = counted[r]
  <2>1. NextAttempt(r) /\ outcome[r] = "none"
    BY RetryGoesOn, InLoopTyped DEF TraceRetry, IInv, NextAttempt, InLoop
  <2>2. outcome'[r] = "none" /\ spans' = [spans EXCEPT ![r] = c]
    BY <2>1 DEF NextAttempt, TraceRetry, Traces, Settled
  <2>3. QED
    BY <2>1, <2>2 DEF TraceRetry, NextAttempt, database, IInv, TypeOK, TraceTypeOK
<1>2. /\ a \in Seq(SpanType) /\ result[r] = "none" /\ seq[r] \in Nat \ {0}
      /\ x \in Nat \ {0} /\ cur[r].status = "retrying"
  BY <1>1, RunFacts DEF InLoop
<1>3. UnderWay(r) /\ ~Awaiting(r) /\ Pending(r)
  BY <1>1, <1>2 DEF InLoop, UnderWay, Awaiting, Pending
<1>4. PICK n \in StepSpans(a) :
        /\ a[n].step = seq[r] /\ a[n].attempt = x /\ a[n].status = Verdict(cur[r])
        /\ SameTree(a, c) /\ Carries(a, c) /\ Tree(r, c, seq[r]) /\ Opened(c) = {1}
        /\ StepSpans(c) = StepSpans(a) /\ Later(c) = Later(a)
        /\ Len(c) > 0 /\ c \in Seq(SpanType) /\ CallsOK(c, plan[r])
  BY <1>1, <1>3, AttemptLeft
<1>5. /\ Tells(a, steps[r], seq[r], x, x) /\ retried[r] = Cardinality(Later(a)) + 1
  BY <1>1, <1>3 DEF TraceOK, ToldOK, NotStarted
<1>6. a[n].status = "error"
  BY <1>2, <1>4 DEF Verdict
<1> HIDE DEF a, c, x
<1>7. Tells(a, steps[r], seq[r], x + 1, x)
  BY <1>2, <1>4, <1>5, <1>6, TellsRetry
<1>8. Tells(c, steps[r], seq[r], x + 1, x)
  BY <1>2, <1>4, <1>7, TellsCarried
<1>9. /\ cur'[r].status = "running" /\ cur'[r].attempt = x + 1 /\ x + 1 > 1
      /\ (x + 1) - 1 = x
  BY <1>1, <1>2 DEF FreshStep, x
<1>10. Awaiting(r)' /\ Pending(r)' /\ ~UnderWay(r)'
  BY <1>1, <1>9 DEF Awaiting, Pending, UnderWay, InLoop
<1>11. NamesOK(r)'
  BY <1>1, <1>2, <1>4, NamesOKKept DEF TraceOK, a
<1>12. OpenOK(r)'
  BY <1>1, <1>4, <1>10 DEF OpenOK, NotStarted
<1>13. ToldOK(r)'
  <2>1. Tells(c, steps[r], seq[r], cur'[r].attempt, cur'[r].attempt - 1)
    BY <1>8, <1>9
  <2>2. QED
    BY <1>1, <1>4, <1>5, <1>10, <2>1 DEF ToldOK, NotStarted, AfterLoop
<1>14. VerdictOK(r)'
  BY <1>1, <1>2 DEF TraceOK, VerdictOK, AfterLoop
<1>15. QED
  BY <1>1, <1>4, <1>11, <1>12, <1>13, <1>14 DEF TraceOK

\* The step is over: the span of its last attempt is left, and the loop goes on or ends.
LEMMA StepEndTraced ==
  ASSUME IInv, TraceTypeOK, NEW r \in Runs, TraceOK(r), TraceStepEnd(r)
  PROVE  spans'[r] \in Seq(SpanType) /\ TraceOK(r)'
<1> DEFINE a == spans[r]
           c == Leave(a)
           x == cur[r].attempt
<1>1. /\ pc[r] = "publish" /\ cur[r].status \in {"succeeded", "failed"}
      /\ spans'[r] = Settled(r, c) /\ plan'[r] = plan[r] /\ steps'[r] = steps[r]
      /\ result'[r] = result[r] /\ rowSpan'[r] = rowSpan[r] /\ retried'[r] = retried[r]
      /\ counted'[r] = counted[r]
      /\ Advance(r, plan[r], seq[r] + 1) \/ Decide(r, "failed")
  BY DEF TraceStepEnd, PublishSucceeded, PublishFailedForGood, Publish, Traces, database,
     IInv, TypeOK, TraceTypeOK
<1>2. /\ a \in Seq(SpanType) /\ outcome[r] = "none" /\ seq[r] \in Nat \ {0}
      /\ x \in Nat \ {0} /\ steps[r][seq[r]] = cur[r]
  BY <1>1, RunFacts DEF InLoop
<1>3. \/ /\ pc'[r] = "persist" /\ seq'[r] = seq[r] + 1 /\ cur'[r] = FreshStep(1)
         /\ outcome'[r] = "none"
      \/ /\ pc'[r] = "set_final" /\ outcome'[r] \in TerminalStatus
         /\ seq'[r] = seq[r] /\ cur'[r] = cur[r]
  <2>1. CASE Decide(r, "failed")
    BY <2>1 DEF Decide, IInv, TypeOK, TerminalStatus
  <2>2. CASE Advance(r, plan[r], seq[r] + 1)
    BY <1>2, <2>2, AdvanceIs DEF IInv
  <2>3. QED
    BY <1>1, <2>1, <2>2
<1>4. UnderWay(r) /\ ~Awaiting(r) /\ ~Pending(r)
  BY <1>1 DEF InLoop, UnderWay, Awaiting, Pending
<1>5. /\ SameTree(a, c) /\ Carries(a, c) /\ Tree(r, c, seq[r]) /\ Opened(c) = {1}
      /\ StepSpans(c) = StepSpans(a) /\ Later(c) = Later(a)
      /\ Len(c) > 0 /\ c \in Seq(SpanType) /\ CallsOK(c, plan[r])
  BY <1>1, <1>4, AttemptLeft
<1>6. /\ Tells(a, steps[r], seq[r], x, x) /\ retried[r] = Cardinality(Later(a)) + 0
  BY <1>1, <1>4 DEF TraceOK, ToldOK, NotStarted
<1>7. retried[r] = Cardinality(Later(c))
  <2>1. Cardinality(Later(a)) \in Nat
    BY <1>2, LaterCounted
  <2>2. QED
    BY <1>5, <1>6, <2>1
<1> HIDE DEF c, x
<1>8. Tells(c, steps[r], seq[r], x, x)
  <2> HIDE DEF a
  <2>1. QED
    BY <1>2, <1>5, <1>6, TellsCarried
<1>9. /\ NamesOK(r) /\ VerdictOK(r) /\ pc[r] \in {"begin", "publish"}
      /\ x \in Nat /\ CallsOK(c, plan'[r])
      /\ seq[r] > 0 => steps[r][seq[r]] = cur[r] /\ cur[r].attempt = x /\ x = x
  BY <1>1, <1>2, <1>5 DEF TraceOK, x
<1>10. QED
  BY <1>1, <1>3, <1>5, <1>7, <1>8, <1>9, AdvanceTraced

\* What is told of a run depends on the tree and the statuses of the spans of steps.
LEMMA ToldKept ==
  ASSUME NEW r \in Runs, NEW a \in Seq(SpanType), a = spans[r], RunTold(r),
         NEW b, spans'[r] = b, SameTree(a, b),
         \A m \in 1..Len(a) : b[m].status = a[m].status, Len(steps[r]) \in Nat,
         steps'[r] = steps[r], plan'[r] = plan[r], retried'[r] = retried[r]
  PROVE  RunTold(r)'
<1> DEFINE n == Len(steps[r])
           x == steps[r][n].attempt
<1>1. /\ StepSpans(b) = StepSpans(a) /\ Later(b) = Later(a) /\ Len(b) = Len(a)
      /\ StepSpans(a) \subseteq 1..Len(a)
  BY SameTreeIs, OpenedIs DEF SameTree
<1>2. Carries(a, b)
  BY SameTreeCarries
<1>3. /\ Len(a) > 0 /\ Tells(a, steps[r], n, x, x) /\ retried[r] = Cardinality(Later(a))
      /\ \A m \in StepSpans(a) : CallsShown(a, m, plan[r][a[m].step])
  BY DEF RunTold
<1>4. \A m \in StepSpans(b) : CallsShown(b, m, plan[r][b[m].step])
  BY <1>1, <1>3, CallsKept
<1>5. Tells(b, steps[r], n, x, x)
  <2> HIDE DEF x, n
  <2>1. n \in Nat
    BY DEF n
  <2>2. QED
    BY <1>1, <1>2, <1>3, <2>1, TellsCarried
<1>6. QED
  BY <1>1, <1>3, <1>4, <1>5 DEF RunTold

\* The last commit: the record has the verdict the root span shows already.
LEMMA FinalTraced ==
  ASSUME IInv, TraceTypeOK, NEW r \in Runs, TraceOK(r), CommitFinal(r), UNCHANGED trace
  PROVE  TraceOK(r)'
<1> DEFINE a == spans[r]
           x == cur[r].attempt
<1>1. /\ pc[r] = "set_final" /\ pc'[r] = "announce" /\ result'[r] = outcome[r]
      /\ spans'[r] = a /\ seq'[r] = seq[r] /\ cur'[r] = cur[r] /\ plan'[r] = plan[r]
      /\ steps'[r] = steps[r] /\ rowSpan'[r] = rowSpan[r] /\ retried'[r] = retried[r]
      /\ counted'[r] = counted[r] /\ outcome'[r] = outcome[r]
  BY DEF CommitFinal, At, locals, trace, IInv, TypeOK
<1>2. /\ a \in Seq(SpanType) /\ seq[r] \in Nat /\ Len(steps[r]) = seq[r]
      /\ outcome[r] # "none"
  BY <1>1, RunFacts DEF AfterLoop
<1>3. ~Awaiting(r) /\ ~Pending(r) /\ ~UnderWay(r)
  BY <1>1 DEF Awaiting, Pending, UnderWay, InLoop
<1>4. /\ Len(a) > 0 /\ Tells(a, steps[r], seq[r], x, x) /\ CallsOK(a, plan[r])
      /\ retried[r] = Cardinality(Later(a)) + 0
      /\ seq[r] > 0 => steps[r][seq[r]] = cur[r]
  BY <1>1, <1>3 DEF TraceOK, ToldOK, NotStarted, AfterLoop
<1>5. Opened(a) = {1} /\ Shows(a[1], outcome[r]) /\ counted[r] = "none"
  BY <1>1 DEF TraceOK, OpenOK, VerdictOK, AfterLoop
<1> HIDE DEF a, x
<1>6. retried[r] = Cardinality(Later(a))
  <2>1. Cardinality(Later(a)) \in Nat
    BY <1>2, LaterCounted
  <2>2. QED
    BY <1>4, <2>1
<1>7. \A m \in StepSpans(a) : CallsShown(a, m, plan[r][a[m].step])
  <2>1. 1 \notin StepSpans(a)
    BY <1>2, RootIs DEF TraceOK, a
  <2>2. QED
    BY <1>4, <1>5, <2>1 DEF CallsOK
<1>8. Tells(a, steps[r], seq[r], steps[r][seq[r]].attempt, steps[r][seq[r]].attempt)
  <2>1. CASE seq[r] > 0
    BY <1>4, <2>1 DEF x
  <2>2. CASE seq[r] = 0
    BY <1>4, <2>2 DEF Tells
  <2>3. QED
    BY <1>2, <2>1, <2>2
<1>9. RunTold(r)'
  BY <1>1, <1>2, <1>4, <1>6, <1>7, <1>8 DEF RunTold
<1>10. VerdictOK(r)'
  BY <1>1, <1>2, <1>5, <1>9 DEF VerdictOK, AfterLoop
<1>11. OpenOK(r)' /\ NamesOK(r)' /\ Tree(r, spans[r], seq[r])'
  BY <1>1, <1>5 DEF TraceOK, OpenOK, NamesOK, NotStarted, Awaiting, UnderWay, a
<1>12. ToldOK(r)'
  BY <1>1, <1>4, <1>6 DEF ToldOK, NotStarted, AfterLoop, Awaiting, Pending, InLoop, x
<1>13. QED
  BY <1>10, <1>11, <1>12 DEF TraceOK

\* The run is counted with the verdict its record has, and its span is left.
LEMMA EndTraced ==
  ASSUME IInv, TraceTypeOK, NEW r \in Runs, TraceOK(r), TraceEnd(r)
  PROVE  /\ spans'[r] \in Seq(SpanType) /\ counted'[r] \in TerminalStatus \union {"none"}
         /\ TraceOK(r)'
<1> DEFINE a == spans[r]
           c == Leave(a)
           x == cur[r].attempt
<1>1. /\ pc[r] = "announce" /\ pc'[r] = "done" /\ result'[r] = result[r]
      /\ spans'[r] = c /\ seq'[r] = seq[r] /\ cur'[r] = cur[r] /\ plan'[r] = plan[r]
      /\ steps'[r] = steps[r] /\ rowSpan'[r] = rowSpan[r] /\ retried'[r] = retried[r]
      /\ counted'[r] = outcome[r] /\ outcome'[r] = outcome[r]
  BY DEF TraceEnd, Announce, At, Traces, database, locals, IInv, TypeOK, TraceTypeOK
<1>2. /\ a \in Seq(SpanType) /\ seq[r] \in Nat /\ outcome[r] # "none"
      /\ outcome[r] \in TerminalStatus \union {"none"}
      /\ Len(steps[r]) \in Nat
      /\ result[r] # "none" => result[r] = outcome[r]
  BY <1>1, RunFacts DEF AfterLoop
<1>3. ~Awaiting(r) /\ ~Pending(r) /\ ~UnderWay(r)
  BY <1>1 DEF Awaiting, Pending, UnderWay, InLoop
<1>4. /\ Len(a) > 0 /\ Tells(a, steps[r], seq[r], x, x) /\ CallsOK(a, plan[r])
      /\ retried[r] = Cardinality(Later(a)) + 0
      /\ seq[r] > 0 => steps[r][seq[r]] = cur[r]
  BY <1>1, <1>3 DEF TraceOK, ToldOK, NotStarted, AfterLoop
<1>5. /\ Opened(a) = {1} /\ Shows(a[1], outcome[r]) /\ result[r] # "none"
      /\ RunTold(r) /\ Tree(r, a, seq[r]) /\ result[r] = outcome[r]
  BY <1>1, <1>2 DEF TraceOK, OpenOK, VerdictOK, AfterLoop
<1>6. /\ SameTree(a, c) /\ Opened(c) = {}
      /\ \A m \in 1..Len(a) : c[m].status = a[m].status /\ c[m].verdict = a[m].verdict
  <2>1. 1 \in Opened(a) /\ \A y \in Opened(a) : y <= 1
    BY <1>5
  <2>2. QED
    BY <1>2, <1>5, <2>1, LeaveIs
<1>7. Tree(r, c, seq[r])
  BY <1>2, <1>5, <1>6, TreeKept
<1>8. Carries(a, c) /\ StepSpans(c) = StepSpans(a) /\ Later(c) = Later(a) /\ Len(c) > 0
      /\ c \in Seq(SpanType)
  BY <1>2, <1>4, <1>6, SameTreeCarries, SameTreeIs DEF SameTree
<1>9. CallsOK(c, plan[r])
  <2>1. 1 \notin StepSpans(a) /\ StepSpans(a) \subseteq 1..Len(a)
    BY <1>2, <1>5, RootIs, OpenedIs
  <2>2. QED
    BY <1>2, <1>4, <1>5, <1>6, <2>1, AllCallsKept
<1>10. RunTold(r)'
  <2>1. \A m \in 1..Len(a) : c[m].status = a[m].status
    BY <1>6
  <2> HIDE DEF c
  <2>2. QED
    BY <1>1, <1>2, <1>5, <1>6, <2>1, ToldKept
<1>11. Shows(c[1], outcome[r])
  <2>1. 1 \in 1..Len(a)
    BY <1>2, <1>4, LenProperties
  <2>2. QED
    BY <1>5, <1>6, <2>1 DEF Shows
<1> HIDE DEF c, x
<1>12. Tells(c, steps[r], seq[r], x, x)
  BY <1>2, <1>4, <1>8, TellsCarried
<1>13. ToldOK(r)'
  BY <1>1, <1>4, <1>8, <1>9, <1>12
  DEF ToldOK, NotStarted, AfterLoop, Awaiting, Pending, InLoop, x
<1>14. VerdictOK(r)'
  BY <1>1, <1>5, <1>10, <1>11 DEF VerdictOK, AfterLoop
<1>15. OpenOK(r)' /\ NamesOK(r)'
  BY <1>1, <1>2, <1>6, <1>8, NamesOKKept
  DEF TraceOK, OpenOK, NotStarted, Awaiting, UnderWay
<1>16. QED
  BY <1>1, <1>2, <1>7, <1>8, <1>13, <1>14, <1>15 DEF TraceOK

\* An exception leaves the blocks: no status that was given is overridden.
LEMMA BreakTraced ==
  ASSUME IInv, TraceTypeOK, NEW r \in Runs, TraceOK(r), TraceBreaks(r)
  PROVE  spans'[r] \in Seq(SpanType) /\ TraceOK(r)'
<1> DEFINE a == spans[r]
           b == Broken(a)
<1>1. /\ pc[r] \in {"set_running", "persist", "set_final"} /\ pc'[r] = "crashed"
      /\ spans'[r] = b /\ seq'[r] = seq[r] /\ result'[r] = result[r]
      /\ steps'[r] = steps[r] /\ rowSpan'[r] = rowSpan[r] /\ counted'[r] = counted[r]
  BY DEF TraceBreaks, RunnerFails, AtDatabase, Traces, database, locals, IInv, TypeOK,
     TraceTypeOK
<1>2. a \in Seq(SpanType) /\ result[r] = "none"
  BY <1>1, RunFacts DEF BeforeLoop, InLoop
<1>3. /\ SameTree(a, b) /\ Opened(b) = {}
      /\ \A n \in 1..Len(a) : a[n].status # "unset" => b[n].status = a[n].status
  BY <1>2, BrokenIs
<1>4. Tree(r, b, seq[r])
  BY <1>2, <1>3, TreeKept DEF TraceOK
<1>5. Carries(a, b) /\ b \in Seq(SpanType)
  BY <1>2, <1>3, SameTreeCarries DEF SameTree
<1> HIDE DEF b
<1>6. NamesOK(r)'
  BY <1>1, <1>2, <1>5, NamesOKKept DEF TraceOK
<1>7. OpenOK(r)' /\ ToldOK(r)'
  BY <1>1 DEF OpenOK, ToldOK, NotStarted, Awaiting, UnderWay, AfterLoop
<1>8. VerdictOK(r)'
  BY <1>1, <1>2 DEF TraceOK, VerdictOK, AfterLoop
<1>9. QED
  BY <1>1, <1>4, <1>5, <1>6, <1>7, <1>8 DEF TraceOK

-----------------------------------------------------------------------------
(***************************************************************************)
(* The invariant is inductive.                                             *)
(***************************************************************************)
LEMMA InitTraceInv == TraceInit => TraceInv
<1> SUFFICES ASSUME TraceInit PROVE TraceInv
  OBVIOUS
<1>1. TraceTypeOK
  BY DEF TraceInit, TraceTypeOK
<1>2. ASSUME NEW r \in Runs PROVE TraceOK(r)
  <2>1. /\ spans[r] = <<>> /\ rowSpan[r] = <<>> /\ retried[r] = 0 /\ counted[r] = "none"
        /\ pc[r] = "absent" /\ steps[r] = <<>> /\ result[r] = "none"
    BY DEF TraceInit, Init
  <2>2. 1..Len(spans[r]) = {} /\ Len(rowSpan[r]) = Len(steps[r]) /\ 1..Len(steps[r]) = {}
    BY <2>1
  <2>3. Tree(r, spans[r], seq[r]) /\ NamesOK(r)
    BY <2>2 DEF Tree, NamesOK
  <2>4. OpenOK(r) /\ ToldOK(r) /\ VerdictOK(r)
    BY <2>1 DEF OpenOK, ToldOK, VerdictOK, NotStarted, Awaiting, UnderWay, AfterLoop
  <2>5. QED
    BY <2>3, <2>4 DEF TraceOK
<1>3. QED
  BY <1>1, <1>2 DEF TraceInv

\* Nothing of a run changes that its trace depends on.
LEMMA TypesKept ==
  ASSUME TraceTypeOK, UNCHANGED trace
  PROVE  TraceTypeOK'
BY DEF TraceTypeOK, trace

\* A step of the task of one run.
LEMMA TraceStepKeeps ==
  ASSUME IInv, TraceInv, NEW r \in Runs, TraceStep(r)
  PROVE  TraceInv'
<1>1. TraceTypeOK /\ TypeOK /\ \A q \in Runs : TraceOK(q)
  BY DEF TraceInv, IInv
<1>2. ASSUME NEW q \in Runs \ {r} PROVE TraceOK(q)'
  BY <1>1, OthersAlone, AloneKeeps
<1> USE DEF TraceTypeOK, Traces
<1>3. CASE TraceTask(r)
  <2>1. spans'[r] \in Seq(SpanType) /\ TraceOK(r)'
    BY <1>1, <1>3, TaskTraced
  <2>2. QED
    BY <1>1, <1>2, <1>3, <2>1 DEF TraceTask, TraceInv
<1>4. CASE TracePlan(r)
  <2>1. spans'[r] \in Seq(SpanType) /\ TraceOK(r)'
    BY <1>1, <1>4, PlanTraced
  <2>2. QED
    BY <1>1, <1>2, <1>4, <2>1 DEF TracePlan, TraceInv
<1>5. CASE TraceRow(r)
  <2>1. rowSpan'[r] \in Seq(Nat) /\ TraceOK(r)'
    BY <1>1, <1>5, RowTraced
  <2>2. QED
    BY <1>1, <1>2, <1>5, <2>1 DEF TraceRow, CopySpanId, TraceInv
<1>6. CASE TraceAttempt(r)
  <2>1. spans'[r] \in Seq(SpanType) /\ TraceOK(r)'
    BY <1>1, <1>6, AttemptTraced
  <2>2. QED
    BY <1>1, <1>2, <1>6, <2>1 DEF TraceAttempt, TraceInv
<1>7. CASE TraceSubModelCall(r)
  <2>1. spans'[r] \in Seq(SpanType) /\ TraceOK(r)'
    BY <1>1, <1>7, SubModelTraced
  <2>2. QED
    BY <1>1, <1>2, <1>7, <2>1 DEF TraceSubModelCall, TraceInv
<1>8. CASE TraceSubToolCall(r)
  <2>1. spans'[r] \in Seq(SpanType) /\ TraceOK(r)'
    BY <1>1, <1>8, SubToolTraced
  <2>2. QED
    BY <1>1, <1>2, <1>8, <2>1 DEF TraceSubToolCall, TraceInv
<1>9. CASE TraceFailure(r)
  <2>1. spans'[r] \in Seq(SpanType) /\ TraceOK(r)'
    BY <1>1, <1>9, FailureTraced
  <2>2. QED
    BY <1>1, <1>2, <1>9, <2>1 DEF TraceFailure, TraceInv
<1>10. CASE TraceSuccess(r)
  <2>1. spans'[r] \in Seq(SpanType) /\ TraceOK(r)'
    BY <1>1, <1>10, SuccessTraced
  <2>2. QED
    BY <1>1, <1>2, <1>10, <2>1 DEF TraceSuccess, TraceInv
<1>11. CASE TraceRetrying(r) \/ TraceBackoff(r)
  <2>1. retried'[r] \in Nat /\ TraceOK(r)'
    BY <1>1, <1>11, RetryingTraced
  <2>2. QED
    BY <1>1, <1>2, <1>11, <2>1 DEF TraceRetrying, TraceBackoff, trace, TraceInv
<1>12. CASE TraceRetry(r)
  <2>1. spans'[r] \in Seq(SpanType) /\ TraceOK(r)'
    BY <1>1, <1>12, RetryTraced
  <2>2. QED
    BY <1>1, <1>2, <1>12, <2>1 DEF TraceRetry, TraceInv
<1>13. CASE TraceStepEnd(r)
  <2>1. spans'[r] \in Seq(SpanType) /\ TraceOK(r)'
    BY <1>1, <1>13, StepEndTraced
  <2>2. QED
    BY <1>1, <1>2, <1>13, <2>1 DEF TraceStepEnd, TraceInv
<1>14. CASE TraceEnd(r)
  <2>1. /\ spans'[r] \in Seq(SpanType) /\ counted'[r] \in TerminalStatus \union {"none"}
        /\ TraceOK(r)'
    BY <1>1, <1>14, EndTraced
  <2>2. QED
    BY <1>1, <1>2, <1>14, <2>1 DEF TraceEnd, TraceInv
<1>15. CASE TraceBreaks(r)
  <2>1. spans'[r] \in Seq(SpanType) /\ TraceOK(r)'
    BY <1>1, <1>15, BreakTraced
  <2>2. QED
    BY <1>1, <1>2, <1>15, <2>1 DEF TraceBreaks, TraceInv
<1>16. QED
  BY <1>3, <1>4, <1>5, <1>6, <1>7, <1>8, <1>9, <1>10, <1>11, <1>12, <1>13, <1>14, <1>15
  DEF TraceStep

\* The steps that leave the trace alone: the end of a run is the one that counts.
LEMMA UntracedKeeps ==
  ASSUME IInv, TraceInv, Untraced
  PROVE  TraceInv'
<1>1. TraceTypeOK /\ TypeOK /\ UNCHANGED trace /\ \A q \in Runs : TraceOK(q)
  BY DEF TraceInv, IInv, Untraced
<1>2. TraceTypeOK'
  BY <1>1, TypesKept
<1>3. ASSUME NEW r \in Runs,
             CommitRun(r) \/ ScheduleRun(r) \/ CommitRunning(r) \/ CommitFinal(r)
      PROVE  \A q \in Runs : TraceOK(q)'
  <2>1. ASSUME NEW q \in Runs \ {r} PROVE TraceOK(q)'
    BY <1>1, <1>3, OthersAlone, AloneKeeps
  <2>2. CASE CommitFinal(r)
    BY <1>1, <2>1, <2>2, FinalTraced
  <2>3. CASE CommitRun(r) \/ ScheduleRun(r) \/ CommitRunning(r)
    <3>1. Alone(r)
      BY <1>1, <2>3
      DEF CommitRun, ScheduleRun, CommitRunning, Alone, database, locals, trace, TypeOK
    <3>2. \/ pc[r] \in NotStarted /\ pc'[r] \in NotStarted
          \/ pc[r] = "set_running" /\ pc'[r] = "begin"
      BY <1>1, <2>3
      DEF CommitRun, ScheduleRun, CommitRunning, At, NotStarted, TypeOK
    <3>3. TraceOK(r)'
      BY <1>1, <3>1, <3>2, AloneKeeps
    <3>4. QED
      BY <2>1, <3>3
  <2>4. QED
    BY <1>3, <2>2, <2>3
<1>4. ASSUME UNCHANGED <<steps, seq, cur, plan, outcome, result>>,
             \A q \in Runs : pc'[q] = pc[q] \/ (pc[q] # "done" /\ pc'[q] = "crashed")
      PROVE  \A q \in Runs : TraceOK(q)'
  <2>1. \A q \in Runs : Alone(q)
    BY <1>1, <1>4 DEF Alone, trace
  <2>2. QED
    BY <1>1, <1>4, <2>1, AloneKeeps
<1>5. ASSUME NEW c \in Cancels, CancelStep(c) \/ CancelFails(c)
      PROVE  UNCHANGED <<steps, seq, cur, plan, outcome, result, pc>>
  BY <1>5 DEF CancelStep, CancelLoad, CancelRefuse, CancelSignal, CancelCommit, CancelFails,
     database, task, locals
<1>6. ASSUME Restart
      PROVE  /\ UNCHANGED <<steps, seq, cur, plan, outcome, result>>
             /\ \A q \in Runs : pc'[q] = pc[q] \/ (pc[q] # "done" /\ pc'[q] = "crashed")
  BY <1>6 DEF Restart, Live, database, locals
<1>7. ASSUME Quiescent
      PROVE  UNCHANGED <<steps, seq, cur, plan, outcome, result, pc>>
  BY <1>7 DEF Quiescent, vars, database, task
<1>8. \A q \in Runs : TraceOK(q)'
  BY <1>3, <1>4, <1>5, <1>6, <1>7 DEF Untraced
<1>9. QED
  BY <1>2, <1>8 DEF TraceInv

\* With its trace the service does what it does without.
LEMMA TraceStepIs ==
  ASSUME [TraceNext]_<<vars, trace>>
  PROVE  [Next]_vars
<1>1. ASSUME NEW r \in Runs, TraceStep(r) PROVE TaskStep(r) \/ RunnerFails(r) \/ UNCHANGED vars
  BY <1>1
  DEF TraceStep, TraceTask, TracePlan, TraceRow, TraceAttempt, TraceSubModelCall,
      TraceSubToolCall, TraceFailure, TraceSuccess, TraceRetrying, TraceBackoff, TraceRetry,
      TraceStepEnd, TraceEnd, TraceBreaks, TaskStep
<1>2. ASSUME Untraced PROVE [Next]_vars
  BY <1>2 DEF Untraced, Next, TaskStep
<1>3. QED
  BY <1>1, <1>2 DEF TraceNext, Next

\* So what is proved of the life of a run may be used of a traced one (runner.py:252).
LEMMA TracedRunsAreRuns == TraceSpec => Spec
<1>1. TraceInit => Init
  BY DEF TraceInit
<1>2. [TraceNext]_<<vars, trace>> => [Next]_vars
  BY TraceStepIs
<1>3. QED
  BY <1>1, <1>2, PTL DEF TraceSpec, Spec

\* The spans open at any time are those of the place where the task is, and what the
\* spans tell agrees with the rows and the local step.
THEOREM TraceInvariance == TraceSpec => []TraceInv
<1>1. TraceInit => TraceInv
  BY InitTraceInv
<1>2. ASSUME IInv, TraceInv, [TraceNext]_<<vars, trace>> PROVE TraceInv'
  <2>1. CASE Untraced
    BY <1>2, <2>1, UntracedKeeps
  <2>2. CASE \E r \in Runs : TraceStep(r)
    BY <1>2, <2>2, TraceStepKeeps
  <2>3. CASE UNCHANGED <<vars, trace>>
    <3>1. /\ TraceTypeOK /\ UNCHANGED trace /\ pc' = pc
          /\ UNCHANGED <<steps, seq, cur, plan, outcome, result>>
      BY <1>2, <2>3 DEF TraceInv, vars, database, task
    <3>2. \A q \in Runs : Alone(q)
      BY <3>1 DEF Alone, trace
    <3>3. \A q \in Runs : TraceOK(q)'
      BY <1>2, <3>1, <3>2, AloneKeeps DEF TraceInv
    <3>4. QED
      BY <3>1, <3>3, TypesKept DEF TraceInv
  <2>4. QED
    BY <1>2, <2>1, <2>2, <2>3 DEF TraceNext
<1>3. TraceSpec => []IInv
  BY TracedRunsAreRuns, Invariance, PTL
<1>4. QED
  BY <1>1, <1>2, <1>3, PTL DEF TraceSpec

\* However runs interleave and wherever a task breaks off, the trace of a run is a tree
\* of its own, and a child does not outlast its parent (runner.py:252, 159, 216).
THEOREM TracesTreelike == TraceSpec => []TracesAreTrees
<1>1. TraceInv => TracesAreTrees
  BY DEF TraceInv, TraceOK, Tree, TracesAreTrees, Opened
<1>2. QED
  BY <1>1, TraceInvariance, PTL

\* The span_id a step row shows is that of the attempt it shows, with the same result
\* (runner.py:179).
THEOREM RowsNamed == TraceSpec => []RowsNameTheirSpan
<1>1. ASSUME TraceInv, NEW r \in Runs, NEW i \in 1..Len(steps[r])
      PROVE  LET row == steps[r][i]
                 n == rowSpan[r][i]
             IN  /\ n = 0 <=> row.status = "running"
                 /\ n # 0 =>
                      /\ IsStepSpan(spans[r][n]) /\ spans[r][n].step = i
                      /\ spans[r][n].attempt = row.attempt
                      /\ spans[r][n].status = IF row.status = "succeeded" THEN "ok" ELSE "error"
  <2>1. IF steps[r][i].status = "running" THEN rowSpan[r][i] = 0
        ELSE Names(spans[r], rowSpan[r][i], i, steps[r][i])
    BY <1>1 DEF TraceInv, TraceOK, NamesOK
  <2>2. \A n \in StepSpans(spans[r]) : n # 0 /\ IsStepSpan(spans[r][n])
    BY DEF StepSpans
  <2>3. QED
    BY <2>1, <2>2 DEF Names, Verdict
<1>2. TraceInv => RowsNameTheirSpan
  BY <1>1 DEF RowsNameTheirSpan
<1>3. QED
  BY <1>2, TraceInvariance, PTL

\* The trace of a finished run and the counters tell what is stored of it: the verdict,
\* every attempt in order, the two calls of a sub-agent that succeeded, every retry.
THEOREM TraceTold == TraceSpec => []TraceTellsTheRun
<1>1. ASSUME IInv, TraceInv, NEW r \in Runs, result[r] # "none"
      PROVE  LET list == spans[r]
                 rows == steps[r]
             IN  /\ list[1].verdict = result[r]
                 /\ list[1].status = IF result[r] = "failed" THEN "error" ELSE "ok"
                 /\ \A i \in 1..Len(rows) : \A k \in 1..rows[i].attempt :
                      \E n \in StepSpans(list) : list[n].step = i /\ list[n].attempt = k
                 /\ \A n \in StepSpans(list) :
                      /\ list[n].step \in 1..Len(rows)
                      /\ LET last == rows[list[n].step].attempt IN
                         /\ list[n].attempt \in 1..last
                         /\ list[n].attempt < last => list[n].status = "error"
                      /\ CallsShown(list, n, plan[r][list[n].step])
                 /\ \A m, n \in StepSpans(list) : m < n => Before(list[m], list[n])
                 /\ retried[r] = Cardinality(Later(list))
                 /\ counted[r] \in {"none", result[r]}
  <2> DEFINE list == spans[r]
             rows == steps[r]
             len == Len(rows)
  <2>1. RunTold(r) /\ Shows(list[1], result[r]) /\ counted[r] \in {"none", result[r]}
    BY <1>1 DEF TraceInv, TraceOK, VerdictOK
  <2>2. len \in Nat
    BY <1>1, RunFacts DEF TraceInv
  <2>3. /\ Tells(list, rows, len, rows[len].attempt, rows[len].attempt)
        /\ \A m \in StepSpans(list) : CallsShown(list, m, plan[r][list[m].step])
        /\ retried[r] = Cardinality(Later(list))
    BY <2>1 DEF RunTold
  <2> HIDE DEF list, rows
  <2>4. \A n \in StepSpans(list) :
          /\ list[n].step \in 1..len
          /\ list[n].attempt \in 1..rows[list[n].step].attempt
          /\ list[n].attempt < rows[list[n].step].attempt => list[n].status = "error"
    BY <2>2, <2>3 DEF Tells
  <2>5. ASSUME NEW i \in 1..len, NEW k \in 1..rows[i].attempt
        PROVE  \E n \in StepSpans(list) : list[n].step = i /\ list[n].attempt = k
    <3>1. CASE i = len
      BY <2>2, <2>3, <3>1 DEF Tells
    <3>2. CASE i # len
      <4>1. i \in 1..(len - 1)
        BY <2>2, <3>2
      <4>2. QED
        BY <2>3, <4>1 DEF Tells
    <3>3. QED
      BY <3>1, <3>2
  <2>6. \A m, n \in StepSpans(list) : m < n => Before(list[m], list[n])
    BY <2>3 DEF Tells
  <2>7. QED
    BY <2>1, <2>3, <2>4, <2>5, <2>6 DEF Shows, list, rows
<1>2. IInv /\ TraceInv => TraceTellsTheRun
  BY <1>1 DEF TraceTellsTheRun
<1>3. TraceSpec => []IInv
  BY TracedRunsAreRuns, Invariance, PTL
<1>4. QED
  BY <1>2, <1>3, TraceInvariance, PTL
=============================================================================
