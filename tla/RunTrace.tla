------------------------------ MODULE RunTrace ------------------------------
(***************************************************************************)
(* RunLifecycle with the trace of each run: the spans that execute_run and *)
(* _run_step keep open around their work, the span a step row names, and   *)
(* the counters of runs and retries.                                       *)
(*                                                                         *)
(* A span lasts as long as its with block.  What a task has under way is   *)
(* therefore the stack of its open spans, and the context of the task, in  *)
(* which a span without a context of its own is opened, is the last one of *)
(* them.  An exception leaves the blocks and marks their spans, but a span *)
(* that was set OK stays so.  With the process, the open spans are lost.   *)
(***************************************************************************)
EXTENDS RunLifecycle

VARIABLES
  spans,     \* the spans of a run, in the order they were opened
  rowSpan,   \* the span_id column of its step rows; 0 for none
  retried,   \* agent_step_retry_total, per run
  counted    \* the status a run was added to agent_run_total with

trace == <<spans, rowSpan, retried, counted>>

\* A span is known by its run and its number; the request that created the run has
\* one, too, which is not the task's.
SpanOf(r, n) == [run |-> r, number |-> n]
RequestSpan(r) == SpanOf(r, 0)
NoSpan == [run |-> "none", number |-> 0]

SpanKind == {"agent.run", "agent.step", "agent.sub_step.model_call",
             "agent.sub_step.tool_call"}

Span(kind, parent, step, attempt) ==
  [kind |-> kind, parent |-> parent, step |-> step, attempt |-> attempt,
   status |-> "unset", verdict |-> "none", ended |-> FALSE]

IsOpen(s) == ~ s.ended

Opened(list) == { n \in DOMAIN list : IsOpen(list[n]) }

\* The last span that was opened and not left.
Innermost(list) == CHOOSE n \in Opened(list) : \A m \in Opened(list) : m <= n

\* Variant: one context for all tasks.
SharedContext(r, list) ==
  LET others == { q \in Runs \ {r} : Opened(spans[q]) # {} } IN
  IF others = {} THEN SpanOf(r, Innermost(list))
  ELSE LET q == CHOOSE q \in others : TRUE IN SpanOf(q, Innermost(spans[q]))

\* The context of the task of r with these spans: the request's until it opens one.
ContextIn(r, list) ==
  IF Opened(list) = {} THEN RequestSpan(r) ELSE SpanOf(r, Innermost(list))
-----------------------------------------------------------------------------
TraceInit ==
  /\ Init
  /\ spans = [r \in Runs |-> <<>>]
  /\ rowSpan = [r \in Runs |-> <<>>]
  /\ retried = [r \in Runs |-> 0]
  /\ counted = [r \in Runs |-> "none"]

\* What becomes of a list of spans when its innermost open one is left, when that is
\* given a status, and when an exception leaves all of them.
Leave(list) == [list EXCEPT ![Innermost(list)].ended = TRUE]

Marked(list, mark) == [list EXCEPT ![Innermost(list)].status = mark]

Broken(list) ==
  [ n \in DOMAIN list |->
      IF ~ IsOpen(list[n]) THEN list[n]
      ELSE [list[n] EXCEPT !.ended = TRUE,
                           !.status = IF @ = "ok" THEN "ok" ELSE "error"] ]

\* Once the verdict is settled the root span shows it.
Settled(r, list) ==
  IF outcome'[r] = "none" THEN list
  ELSE [list EXCEPT ![1].verdict = outcome'[r],
                    ![1].status = IF outcome'[r] = "failed" THEN "error" ELSE "ok"]

Traces(r, list) == spans' = [spans EXCEPT ![r] = list]
-----------------------------------------------------------------------------
\* The root span is opened in an empty context.
TraceTask(r) ==
  /\ StartTask(r)
  /\ Traces(r, <<Span("agent.run", NoSpan, 0, 0)>>)
  /\ UNCHANGED <<rowSpan, retried, counted>>

TracePlan(r) ==
  /\ BeginPlan(r)
  /\ Traces(r, Settled(r, spans[r]))
  /\ UNCHANGED <<rowSpan, retried, counted>>

\* Variant: a row keeps the span of the attempt before.
KeepsRowSpan(r) ==
  rowSpan' = [rowSpan EXCEPT ![r] =
    IF seq[r] > Len(@) THEN Append(@, 0)
    ELSE IF cur[r].status = "running" THEN @
    ELSE [@ EXCEPT ![seq[r]] = Innermost(spans[r])]]

\* span_id is copied with the other columns; a record that has just been built for
\* an attempt has none.
CopySpanId(r) ==
  LET n == IF cur[r].status = "running" THEN 0 ELSE Innermost(spans[r]) IN
  rowSpan' = [rowSpan EXCEPT ![r] = IF seq[r] > Len(@) THEN Append(@, n)
                                    ELSE [@ EXCEPT ![seq[r]] = n]]

TraceRow(r) ==
  /\ PersistStep(r)
  /\ CopySpanId(r)
  /\ UNCHANGED <<spans, retried, counted>>

\* The span of an attempt is opened when its start was saved and published.
TraceAttempt(r) ==
  /\ PublishStarted(r)
  /\ Traces(r, Append(spans[r], Span("agent.step", SpanOf(r, 1), seq[r], cur[r].attempt)))
  /\ UNCHANGED <<rowSpan, retried, counted>>

\* A span of the sub-agent's attempt, in the context of the task.
SubSpan(r, kind, list) ==
  Append(list, Span(kind, ContextIn(r, list), seq[r], cur[r].attempt))

\* Where the attempt is: its own span is the innermost, or one of the sub-agent's.
InSpan(r, kind) == pc[r] = "working" /\ spans[r][Innermost(spans[r])].kind = kind

\* No sub-span was opened in the attempt yet: the last span is its own.
Untouched(r) == InSpan(r, "agent.step") /\ IsOpen(Last(spans[r]))

\* A sub-agent that will not fail makes its two calls in spans of their own.
TraceSubModelCall(r) ==
  /\ Untouched(r)
  /\ plan[r][seq[r]] = "sub_agent"
  /\ Traces(r, SubSpan(r, "agent.sub_step.model_call", spans[r]))
  /\ UNCHANGED <<vars, rowSpan, retried, counted>>

TraceSubToolCall(r) ==
  /\ InSpan(r, "agent.sub_step.model_call")
  /\ Traces(r, SubSpan(r, "agent.sub_step.tool_call", Leave(spans[r])))
  /\ UNCHANGED <<vars, rowSpan, retried, counted>>

\* Whether a step fails is known before its sub-spans are opened.
TraceFailure(r) ==
  /\ StepFails(r)
  /\ Untouched(r)
  /\ Traces(r, Marked(spans[r], "error"))
  /\ UNCHANGED <<rowSpan, retried, counted>>

TraceSuccess(r) ==
  /\ StepSucceeds(r)
  /\ IF plan[r][seq[r]] = "sub_agent"
     THEN InSpan(r, "agent.sub_step.tool_call") /\ Traces(r, Marked(Leave(spans[r]), "ok"))
     ELSE Traces(r, Marked(spans[r], "ok"))
  /\ UNCHANGED <<rowSpan, retried, counted>>

TraceRetrying(r) ==
  /\ PublishFailedAndRetry(r)
  /\ retried' = [retried EXCEPT ![r] = @ + 1]
  /\ UNCHANGED <<spans, rowSpan, counted>>

\* The backoff is still within the span of the attempt that failed.
TraceBackoff(r) == PublishRetrying(r) /\ UNCHANGED trace

TraceRetry(r) ==
  /\ Retry(r)
  /\ Traces(r, Settled(r, Leave(spans[r])))
  /\ UNCHANGED <<rowSpan, retried, counted>>

\* Variant: a retry is counted before it is known that one is left.
TraceStepEndCounted(r) ==
  /\ PublishSucceeded(r) \/ PublishFailedForGood(r)
  /\ retried' = [retried EXCEPT ![r] = IF cur[r].status = "failed" THEN @ + 1 ELSE @]
  /\ Traces(r, Settled(r, Leave(spans[r])))
  /\ UNCHANGED <<rowSpan, counted>>

\* _run_step returns, and the loop goes on or ends.
TraceStepEnd(r) ==
  /\ PublishSucceeded(r) \/ PublishFailedForGood(r)
  /\ Traces(r, Settled(r, Leave(spans[r])))
  /\ UNCHANGED <<rowSpan, retried, counted>>

\* The run is counted after its last commit, and its span is left at the very end.
TraceEnd(r) ==
  /\ Announce(r)
  /\ counted' = [counted EXCEPT ![r] = outcome[r]]
  /\ Traces(r, Leave(spans[r]))
  /\ UNCHANGED <<rowSpan, retried>>

TraceBreaks(r) ==
  /\ RunnerFails(r)
  /\ Traces(r, Broken(spans[r]))
  /\ UNCHANGED <<rowSpan, retried, counted>>

TraceStep(r) ==
  \/ TraceTask(r) \/ TracePlan(r) \/ TraceRow(r) \/ TraceAttempt(r)
  \/ TraceSubModelCall(r) \/ TraceSubToolCall(r) \/ TraceFailure(r) \/ TraceSuccess(r)
  \/ TraceRetrying(r) \/ TraceBackoff(r) \/ TraceRetry(r) \/ TraceStepEnd(r)
  \/ TraceEnd(r) \/ TraceBreaks(r)

\* What leaves the trace alone.
Untraced ==
  /\ \/ \E r \in Runs : CommitRun(r) \/ ScheduleRun(r) \/ CommitRunning(r) \/ CommitFinal(r)
     \/ \E c \in Cancels : CancelStep(c) \/ CancelFails(c)
     \/ Restart
     \/ Quiescent
  /\ UNCHANGED trace

TraceNext == Untraced \/ \E r \in Runs : TraceStep(r)

TraceSpec == TraceInit /\ [][TraceNext]_<<vars, trace>>
-----------------------------------------------------------------------------
(***************************************************************************)
(* Properties.                                                             *)
(***************************************************************************)
IsStepSpan(s) == s.kind = "agent.step"

\* However runs interleave and wherever a task breaks off, a trace is a tree of its
\* own: the root of a run has no parent, the request that created it least of all, a
\* step is a child of the root of its own run and a sub-step of a step of it; a child
\* does not outlast its parent, and one step is under way at a time.
TracesAreTrees ==
  \A r \in Runs : \A n \in 1..Len(spans[r]) :
    LET s == spans[r][n]
        up == s.parent.number
    IN  /\ n = 1 <=> s.kind = "agent.run"
        /\ n = 1 => s.parent = NoSpan
        /\ n > 1 =>
             /\ s.parent.run = r /\ up \in 1..(n - 1)
             /\ spans[r][up].kind = IF IsStepSpan(s) THEN "agent.run" ELSE "agent.step"
             /\ IsOpen(s) => IsOpen(spans[r][up])
        /\ IsOpen(s) /\ IsStepSpan(s) =>
             /\ s.step = seq[r]
             /\ \A m \in (n + 1)..Len(spans[r]) : ~IsStepSpan(spans[r][m])

\* The span a step row names is the one a reader is sent to: of this step, of the
\* attempt the row shows, and of the same result.  A row that shows a result names one.
RowsNameTheirSpan ==
  \A r \in Runs : \A i \in 1..Len(steps[r]) :
    LET row == steps[r][i]
        n == rowSpan[r][i]
    IN  /\ n = 0 <=> row.status = "running"
        /\ n # 0 =>
             /\ IsStepSpan(spans[r][n]) /\ spans[r][n].step = i
             /\ spans[r][n].attempt = row.attempt
             /\ spans[r][n].status = IF row.status = "succeeded" THEN "ok" ELSE "error"

\* The numbers of the spans of steps, of those of later attempts, and of the sub-spans
\* of span n.
StepSpans(list) == { n \in 1..Len(list) : IsStepSpan(list[n]) }
Later(list) == { n \in StepSpans(list) : list[n].attempt > 1 }
Children(list, n) == { m \in 1..Len(list) : list[m].parent.number = n }

\* Span n has the sub-spans a step of this type is to have.
CallsShown(list, n, type) ==
  /\ Children(list, n) = IF type = "sub_agent" /\ list[n].status = "ok" THEN {n + 1, n + 2}
                         ELSE {}
  /\ \A m \in Children(list, n) :
       list[m].kind = IF m = n + 1 THEN "agent.sub_step.model_call"
                      ELSE "agent.sub_step.tool_call"

\* An attempt of an earlier step, or an earlier attempt.
Before(s, t) == s.step < t.step \/ (s.step = t.step /\ s.attempt < t.attempt)

\* What is stored of a run that is over, what its trace shows and what is counted of it
\* agree, whatever retries and cancels there were: the root span has the verdict, every
\* step has the spans of its attempts, in order and all failed but perhaps the last, and
\* a sub-agent that succeeded has its two calls; as many retries were counted as there
\* were.  (The docs know of one span per step only, see OneSpanPerStep: an attempt that
\* has no span of its own would lose its error, and a retry its place in the trace.)
TraceTellsTheRun ==
  \A r \in Runs : result[r] # "none" =>
    LET list == spans[r]
        rows == steps[r]
    IN  /\ list[1].verdict = result[r]
        /\ list[1].status = IF result[r] = "failed" THEN "error" ELSE "ok"
        /\ \A i \in 1..Len(rows) : \A k \in 1..rows[i].attempt :
             \E n \in StepSpans(list) : list[n].step = i /\ list[n].attempt = k
        /\ \A n \in StepSpans(list) :
             /\ list[n].step \in 1..Len(rows)
             /\ LET last == rows[list[n].step].attempt IN
                /\ list[n].attempt \in 1..last
                /\ list[n].attempt < last => list[n].status = "error"
             /\ CallsShown(list, n, plan[r][list[n].step])
        /\ \A m, n \in StepSpans(list) : m < n => Before(list[m], list[n])
        /\ retried[r] = Cardinality(Later(list))
        /\ counted[r] \in {"none", result[r]}

\* "Every run is a root trace with one child span per step" (README.md:129).  The span
\* is opened within the loop over the attempts (runner.py:159), so a retried step has
\* as many as it had attempts.
OneSpanPerStep ==
  \A r \in Runs : \A m, n \in StepSpans(spans[r]) :
    spans[r][m].step = spans[r][n].step => m = n
=============================================================================
