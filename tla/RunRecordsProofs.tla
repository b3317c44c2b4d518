-------------------------- MODULE RunRecordsProofs --------------------------
(***************************************************************************)
(* Proofs about what a run leaves behind, for any runs, cancels, plans,    *)
(* retries and failures: the events it publishes, the rows it saves, and   *)
(* what it counts.                                                         *)
(*                                                                         *)
(* None of this is inductive.  What may be published next depends on what  *)
(* was published last, and that on where the task is and what its local    *)
(* step is; a saved step covers the events before it as the local step is  *)
(* never behind its row (EventsInv).  What is counted, saved and totalled  *)
(* differs between two suspensions by the usage of the local step, which   *)
(* is one move ahead of its row (RecordsInv).                              *)
(***************************************************************************)
EXTENDS RunLifecycleProperties, RunLifecycleProofs, RunTypesProofs
-----------------------------------------------------------------------------
(***************************************************************************)
(* The events of a run tell its story and are never ahead of its rows.     *)
(***************************************************************************)
\* Step s is not behind step t, of the same number.
NotBehind(s, t) ==
  \/ s.attempt > t.attempt
  \/ s.attempt = t.attempt /\ Rank[t.status] <= Rank[s.status]

\* The local step and its row.
LocalOK(r) ==
  /\ pc[r] \in {"publish", "working", "backoff"} => steps[r][seq[r]] = cur[r]
  /\ pc[r] = "working" => cur[r].status = "running"
  /\ pc[r] = "persist" /\ seq[r] = Len(steps[r]) => NotBehind(cur[r], steps[r][seq[r]])
  /\ pc[r] \in {"announce", "done"} => result[r] = outcome[r]

\* What the task published last.
LastIs(log, name, k, n) ==
  log # <<>> /\ log[Len(log)] = [event |-> name, seq |-> k, attempt |-> n]

Succeeded(log, k) ==
  log # <<>> /\ log[Len(log)].event = "step.succeeded" /\ log[Len(log)].seq = k

LogOK(r) ==
  LET log == published[r] IN
  /\ pc[r] \in BeforeLoop => log = <<>>
  /\ pc[r] \in {"persist", "publish"} =>
       /\ cur[r].status = "running" =>
            \/ cur[r].attempt = 1 /\ seq[r] = 1 /\ log = <<>>
            \/ cur[r].attempt = 1 /\ Succeeded(log, seq[r] - 1)
            \/ LastIs(log, "step.retrying", seq[r], cur[r].attempt - 1)
       /\ cur[r].status \in {"failed", "succeeded"} =>
            LastIs(log, "step.started", seq[r], cur[r].attempt)
       /\ cur[r].status = "retrying" => LastIs(log, "step.failed", seq[r], cur[r].attempt)
  /\ pc[r] = "working" => LastIs(log, "step.started", seq[r], cur[r].attempt)
  /\ pc[r] = "backoff" => LastIs(log, "step.retrying", seq[r], cur[r].attempt)
  /\ pc[r] \in {"set_final", "announce"} =>
       \/ outcome[r] = "cancelled" /\ log = <<>>
       \/ outcome[r] \in {"cancelled", "succeeded"} /\ Succeeded(log, seq[r])
       \/ outcome[r] = "failed" /\ LastIs(log, "step.failed", seq[r], MaxRetries + 1)

\* EventsTellTheStory and EventsAreBackedByRows, of one run.
Opens(e) ==
  \/ e = [event |-> "step.started", seq |-> 1, attempt |-> 1]
  \/ e = CompletedEvent("cancelled")

Story(log) ==
  /\ log # <<>> => Opens(log[1])
  /\ \A i \in 1..(Len(log) - 1) : Follows(log[i], log[i + 1])

Backed(e, rows, verdict) ==
  IF e.event = "run.completed" THEN verdict = e.verdict
  ELSE /\ e.seq <= Len(rows)
       /\ LET row == rows[e.seq] IN
          \/ row.attempt > e.attempt
          \/ /\ row.attempt = e.attempt
             /\ \E s \in StepStatus : EventOf[s] = e.event /\ Rank[s] <= Rank[row.status]

BackedOK(r) ==
  \A i \in 1..Len(published[r]) :
    LET e == published[r][i] IN
    Backed(e, steps[r], result[r]) /\ (e.event # "run.completed" => e.seq > 0)

EventsOK(r) == LocalOK(r) /\ LogOK(r) /\ Story(published[r]) /\ BackedOK(r)

EventsInv == \A r \in Runs : EventsOK(r)
-----------------------------------------------------------------------------
(***************************************************************************)
(* Lemmas about logs.                                                      *)
(***************************************************************************)
\* A message that may follow the last one continues the story.
LEMMA StoryGoesOn ==
  ASSUME NEW log \in Seq(Event), NEW e \in Event, Story(log),
         log = <<>> => Opens(e),
         log # <<>> => Follows(log[Len(log)], e)
  PROVE  /\ Story(Append(log, e))
         /\ Append(log, e) # <<>>
         /\ Append(log, e)[Len(Append(log, e))] = e
<1> DEFINE after == Append(log, e)
<1>1. /\ Len(log) \in Nat
      /\ after \in Seq(Event) /\ Len(after) = Len(log) + 1
      /\ \A i \in 1..Len(log) : after[i] = log[i]
      /\ after[Len(log) + 1] = e
  BY AppendProperties, LenProperties
<1>2. log # <<>> => Len(log) > 0
  BY EmptySeq, LenProperties
<1>3. Opens(after[1])
  BY <1>1, <1>2, EmptySeq DEF Story
<1>4. ASSUME NEW i \in 1..(Len(after) - 1) PROVE Follows(after[i], after[i + 1])
  <2>1. CASE i < Len(log)
    BY <1>1, <2>1 DEF Story
  <2>2. CASE i = Len(log)
    <3>1. log # <<>>
      BY <2>2, EmptySeq
    <3>2. QED
      BY <1>1, <2>2, <3>1
  <2>3. QED
    BY <1>1, <2>1, <2>2
<1>5. after # <<>>
  BY <1>1, EmptySeq
<1>6. QED
  BY <1>1, <1>3, <1>4, <1>5 DEF Story

\* Rows that move on cover the messages they covered.
LEMMA BackedByLaterRows ==
  ASSUME NEW rows \in Seq(StepRow), NEW later \in Seq(StepRow), NEW e \in Event, NEW v,
         Backed(e, rows, v), e.event # "run.completed" => e.seq > 0,
         Len(rows) <= Len(later),
         \A i \in 1..Len(rows) : NotBehind(later[i], rows[i])
  PROVE  Backed(e, later, v)
<1> SUFFICES ASSUME e.event # "run.completed" PROVE Backed(e, later, v)
  BY DEF Backed
<1>1. e.seq \in 1..Len(rows) /\ e.attempt \in Nat /\ e.seq <= Len(later)
  BY LenProperties DEF Backed, Event
<1>2. /\ rows[e.seq] \in StepRow /\ later[e.seq] \in StepRow
      /\ NotBehind(later[e.seq], rows[e.seq])
  BY <1>1, ElementOfSeq, LenProperties
<1>3. \A s \in StepStatus : Rank[s] \in Nat
  BY DEF StepStatus, Rank
<1>4. QED
  BY <1>1, <1>2, <1>3, StepFields, RetriesAssumption DEF Backed, NotBehind

\* A message that is covered joins those that are.
LEMMA BackedGoesOn ==
  ASSUME NEW r \in Runs, published[r] \in Seq(Event), NEW e \in Event, BackedOK(r),
         Backed(e, steps'[r], result'[r]), e.event # "run.completed" => e.seq > 0,
         published'[r] = Append(published[r], e),
         UNCHANGED <<steps, result>>
  PROVE  BackedOK(r)'
<1>1. /\ Len(published[r]) \in Nat
      /\ Len(published'[r]) = Len(published[r]) + 1
      /\ \A i \in 1..Len(published[r]) : published'[r][i] = published[r][i]
      /\ published'[r][Len(published[r]) + 1] = e
  BY AppendProperties, LenProperties
<1>2. QED
  BY <1>1 DEF BackedOK
-----------------------------------------------------------------------------
(***************************************************************************)
(* The steps of a run.                                                     *)
(***************************************************************************)
\* What no step of run r touches of run q.
Rests(q) ==
  /\ pc'[q] = pc[q] /\ steps'[q] = steps[q] /\ result'[q] = result[q]
  /\ seq'[q] = seq[q] /\ cur'[q] = cur[q] /\ outcome'[q] = outcome[q]
  /\ published'[q] = published[q]

\* A task that only moves on before its loop, or breaks off, publishes nothing.
LEMMA RestingKeepsEvents ==
  ASSUME NEW q \in Runs, EventsOK(q),
         steps'[q] = steps[q], result'[q] = result[q], seq'[q] = seq[q],
         cur'[q] = cur[q], outcome'[q] = outcome[q], published'[q] = published[q],
         \/ pc'[q] = pc[q]
         \/ pc'[q] = "crashed"
         \/ pc[q] \in BeforeLoop /\ pc'[q] \in BeforeLoop
  PROVE  EventsOK(q)'
<1>1. LocalOK(q)'
  BY DEF EventsOK, LocalOK, BeforeLoop
<1>2. LogOK(q)'
  BY DEF EventsOK, LogOK, BeforeLoop
<1>3. Story(published[q])' /\ BackedOK(q)'
  BY DEF EventsOK, BackedOK
<1>4. QED
  BY <1>1, <1>2, <1>3 DEF EventsOK

\* A task touches its own run only.
LEMMA OthersRest ==
  ASSUME TypeOK, NEW r \in Runs, NEW q \in Runs \ {r}, TaskStep(r) \/ RunnerFails(r)
  PROVE  Rests(q)
<1> USE DEF Rests, TypeOK, At, database, locals, requests
<1>1. CASE CommitRun(r) \/ ScheduleRun(r) \/ StartTask(r) \/ CommitRunning(r)
  BY <1>1 DEF CommitRun, ScheduleRun, StartTask, CommitRunning
<1>2. CASE BeginPlan(r)
  BY <1>2 DEF BeginPlan, Advance, Decide, StartStep
<1>3. CASE PersistStep(r)
  BY <1>3 DEF PersistStep, Persist
<1>4. CASE PublishStarted(r) \/ PublishFailedAndRetry(r) \/ PublishRetrying(r)
  BY <1>4 DEF PublishStarted, PublishFailedAndRetry, PublishRetrying, Publish
<1>5. CASE PublishFailedForGood(r)
  BY <1>5 DEF PublishFailedForGood, Publish, Decide
<1>6. CASE PublishSucceeded(r)
  BY <1>6 DEF PublishSucceeded, Publish, Advance, Decide, StartStep
<1>7. CASE StepFails(r) \/ StepSucceeds(r) \/ Retry(r)
  BY <1>7 DEF StepFails, StepSucceeds, Retry, Advance, Decide, StartStep
<1>8. CASE CommitFinal(r) \/ Announce(r) \/ RunnerFails(r)
  BY <1>8 DEF CommitFinal, Announce, RunnerFails
<1>9. QED
  BY <1>1, <1>2, <1>3, <1>4, <1>5, <1>6, <1>7, <1>8 DEF TaskStep

\* What IInv says of a task that is about to publish, or at work.
LEMMA InTheLoop ==
  ASSUME IInv, NEW q \in Runs, pc[q] \in InLoop
  PROVE  /\ cur[q] \in StepRow /\ cur[q].status \in StepStatus
         /\ cur[q].attempt \in 1..(MaxRetries + 1)
         /\ seq[q] \in Nat \ {0} /\ outcome[q] = "none" /\ result[q] = "none"
         /\ steps[q] \in Seq(StepRow) /\ Len(steps[q]) \in Nat
         /\ published[q] \in Seq(Event)
         /\ pc[q] \in {"publish", "working", "backoff"} => Len(steps[q]) = seq[q]
<1>1. TypeOK /\ StageInv /\ RowsInv
  BY DEF IInv
<1>2. cur[q] \in StepRow
  BY <1>1, InLoopTyped
<1>3. QED
  BY <1>1, <1>2, InLoopTyped, StepFields, LenProperties DEF TypeOK, RowsInv

\* The publication of the step that was just saved: its message continues the story
\* and is covered by its row.
LEMMA PublishGoesOn ==
  ASSUME IInv, NEW q \in Runs, EventsOK(q), NEW s \in StepStatus, Publish(q, s),
         UNCHANGED <<steps, result>>
  PROVE  /\ Story(published[q])' /\ BackedOK(q)'
         /\ LastIs(published'[q], EventOf[s], seq[q], cur[q].attempt)
<1> DEFINE log == published[q]
           e == StepEvent(seq[q], cur[q])
<1>1. pc[q] = "publish" /\ cur[q].status = s /\ published'[q] = Append(log, e)
  BY DEF Publish, IInv, TypeOK
<1>2. /\ cur[q] \in StepRow /\ cur[q].attempt \in 1..(MaxRetries + 1)
      /\ seq[q] \in Nat \ {0} /\ log \in Seq(Event) /\ Len(steps[q]) = seq[q]
  BY <1>1, InTheLoop DEF InLoop
<1>3. e = [event |-> EventOf[s], seq |-> seq[q], attempt |-> cur[q].attempt]
  BY <1>1 DEF StepEvent
<1>4. e \in Event
  BY <1>2, StepEventTyped
<1>5. /\ log = <<>> => Opens(e)
      /\ log # <<>> => Follows(log[Len(log)], e)
  <2>1. CASE s = "running"
    <3>1. \/ cur[q].attempt = 1 /\ seq[q] = 1 /\ log = <<>>
          \/ cur[q].attempt = 1 /\ Succeeded(log, seq[q] - 1)
          \/ LastIs(log, "step.retrying", seq[q], cur[q].attempt - 1)
      BY <1>1, <2>1 DEF EventsOK, LogOK
    <3>2. e = [event |-> "step.started", seq |-> seq[q], attempt |-> cur[q].attempt]
      BY <1>3, <2>1 DEF EventOf
    <3>3. QED
      BY <1>2, <3>1, <3>2 DEF Succeeded, LastIs, Opens, Follows
  <2>2. CASE s \in {"failed", "succeeded"}
    <3>1. LastIs(log, "step.started", seq[q], cur[q].attempt)
      BY <1>1, <2>2 DEF EventsOK, LogOK
    <3>2. e.event \in {"step.failed", "step.succeeded"}
      BY <1>3, <2>2 DEF EventOf
    <3>3. QED
      BY <1>3, <3>1, <3>2 DEF LastIs, Follows
  <2>3. CASE s = "retrying"
    <3>1. LastIs(log, "step.failed", seq[q], cur[q].attempt)
      BY <1>1, <2>3 DEF EventsOK, LogOK
    <3>2. e.event = "step.retrying"
      BY <1>3, <2>3 DEF EventOf
    <3>3. QED
      BY <1>3, <3>1, <3>2 DEF LastIs, Follows
  <2>4. QED
    BY <2>1, <2>2, <2>3 DEF StepStatus
<1>6. Story(log) /\ BackedOK(q)
  BY DEF EventsOK
<1>7. /\ Story(published[q])' /\ published'[q] # <<>>
      /\ published'[q][Len(published'[q])] = e
  BY <1>1, <1>2, <1>4, <1>5, <1>6, StoryGoesOn
<1>8. Backed(e, steps[q], result[q])
  <2>1. steps[q][seq[q]] = cur[q]
    BY <1>1 DEF EventsOK, LocalOK
  <2>2. e.event # "run.completed" /\ Rank[s] \in Nat
    BY <1>3 DEF EventOf, StepStatus, Rank
  <2>3. QED
    BY <1>1, <1>2, <1>3, <2>1, <2>2 DEF Backed
<1>9. BackedOK(q)'
  BY <1>1, <1>2, <1>3, <1>4, <1>6, <1>8, BackedGoesOn
<1>10. QED
  BY <1>3, <1>7, <1>9 DEF LastIs

\* On to the next step, or out of the loop, after a success or before the first step.
LEMMA AdvanceKeepsEvents ==
  ASSUME TypeOK, NEW q \in Runs, NEW p, NEW k \in Nat \ {0}, Advance(q, p, k),
         k = seq[q] + 1, Len(steps[q]) = seq[q],
         UNCHANGED <<steps, result>>,
         Story(published[q])', BackedOK(q)',
         \/ k = 1 /\ published'[q] = <<>> /\ Len(p) \in Nat \ {0}
         \/ Succeeded(published'[q], seq[q])
  PROVE  EventsOK(q)'
<1> DEFINE log == published'[q]
<1> USE DEF TypeOK
<1>1. CASE StartStep(q, k)
  <2>1. /\ pc'[q] = "persist" /\ seq'[q] = k /\ k # Len(steps'[q])
        /\ cur'[q].status = "running" /\ cur'[q].attempt = 1
    BY <1>1 DEF StartStep, FreshStep
  <2>2. LocalOK(q)'
    BY <2>1 DEF LocalOK
  <2>3. (k = 1 /\ log = <<>>) \/ Succeeded(log, k - 1)
    OBVIOUS
  <2>4. LogOK(q)'
    BY <2>1, <2>3 DEF LogOK, BeforeLoop
  <2>5. QED
    BY <2>2, <2>4 DEF EventsOK
<1>2. ASSUME NEW v \in {"cancelled", "succeeded"}, Decide(q, v),
             v = "succeeded" => Succeeded(log, seq[q])
      PROVE  EventsOK(q)'
  <2>1. pc'[q] = "set_final" /\ outcome'[q] = v /\ seq'[q] = seq[q]
    BY <1>2 DEF Decide
  <2>2. LocalOK(q)'
    BY <2>1 DEF LocalOK
  <2>3. (log = <<>> /\ v = "cancelled") \/ Succeeded(log, seq[q])
    BY <1>2
  <2>4. LogOK(q)'
    BY <2>1, <2>3 DEF LogOK, BeforeLoop
  <2>5. QED
    BY <2>2, <2>4 DEF EventsOK
<1>3. CASE flag[q] = "set"
  BY <1>2, <1>3 DEF Advance
<1>4. CASE flag[q] # "set" /\ k > Len(p)
  <2>1. Decide(q, "succeeded") /\ Succeeded(log, seq[q])
    BY <1>4 DEF Advance
  <2>2. QED
    BY <1>2, <2>1
<1>5. QED
  BY <1>1, <1>3, <1>4 DEF Advance

\* Saving a step: its row is now the local step, which was not behind it.
LEMMA PersistKeepsEvents ==
  ASSUME IInv, NEW q \in Runs, EventsOK(q), PersistStep(q)
  PROVE  EventsOK(q)'
<1> DEFINE rows == steps[q]
           later == steps'[q]
<1>1. /\ pc[q] = "persist" /\ pc'[q] = "publish"
      /\ later = IF seq[q] > Len(rows) THEN Append(rows, cur[q])
                  ELSE [rows EXCEPT ![seq[q]] = cur[q]]
      /\ UNCHANGED <<seq, cur, published, result, outcome>>
  BY DEF PersistStep, At, Persist, IInv, TypeOK, locals
<1>2. /\ cur[q] \in StepRow /\ seq[q] \in Nat \ {0} /\ rows \in Seq(StepRow)
      /\ Len(rows) \in Nat /\ published[q] \in Seq(Event)
  BY <1>1, InTheLoop DEF InLoop
<1>3. Len(rows) <= seq[q] /\ seq[q] <= Len(rows) + 1
  BY DEF IInv, RowsInv
<1>4. \A i \in 1..Len(rows) : rows[i] \in StepRow /\ NotBehind(rows[i], rows[i])
  <2>1. \A x \in StepRow : NotBehind(x, x)
    BY DEF NotBehind, StepRow, StepStatus, Rank
  <2>2. QED
    BY <1>2, <2>1, ElementOfSeq
<1>5. /\ later \in Seq(StepRow) /\ Len(rows) <= Len(later) /\ later[seq[q]] = cur[q]
      /\ \A i \in 1..Len(rows) : NotBehind(later[i], rows[i])
  <2>1. CASE seq[q] > Len(rows)
    <3>1. later = Append(rows, cur[q]) /\ seq[q] = Len(rows) + 1
      BY <1>1, <1>2, <1>3, <2>1
    <3>2. QED
      BY <1>2, <1>4, <3>1, AppendProperties
  <2>2. CASE seq[q] = Len(rows)
    <3>1. later = [rows EXCEPT ![seq[q]] = cur[q]]
      BY <1>1, <1>2, <2>2
    <3>2. /\ later \in Seq(StepRow) /\ Len(later) = Len(rows)
          /\ later[seq[q]] = cur[q]
          /\ \A i \in 1..Len(rows) : i # seq[q] => later[i] = rows[i]
      BY <1>2, <2>2, <3>1, ExceptSeq
    <3>3. NotBehind(cur[q], rows[seq[q]])
      BY <1>1, <2>2 DEF EventsOK, LocalOK
    <3>4. QED
      BY <1>2, <1>4, <3>2, <3>3
  <2>3. QED
    BY <1>2, <1>3, <2>1, <2>2
<1>6. BackedOK(q)'
  <2> SUFFICES ASSUME NEW i \in 1..Len(published[q])
               PROVE  LET e == published[q][i] IN
                      /\ Backed(e, later, result[q])
                      /\ e.event # "run.completed" => e.seq > 0
    BY <1>1 DEF BackedOK
  <2> DEFINE e == published[q][i]
  <2>1. e \in Event
    BY <1>2, ElementOfSeq
  <2>2. Backed(e, rows, result[q]) /\ (e.event # "run.completed" => e.seq > 0)
    BY DEF EventsOK, BackedOK
  <2>3. QED
    BY <1>2, <1>5, <2>1, <2>2, BackedByLaterRows
<1>7. LocalOK(q)'
  BY <1>1, <1>5 DEF LocalOK
<1>8. LogOK(q)'
  BY <1>1 DEF EventsOK, LogOK, BeforeLoop
<1>9. QED
  BY <1>1, <1>6, <1>7, <1>8 DEF EventsOK

\* The publications within the loop.
LEMMA PublishKeepsEvents ==
  ASSUME IInv, NEW q \in Runs, EventsOK(q),
         \/ PublishStarted(q) \/ PublishFailedAndRetry(q) \/ PublishRetrying(q)
         \/ PublishFailedForGood(q) \/ PublishSucceeded(q)
  PROVE  EventsOK(q)'
<1> USE DEF At, database, locals, requests
<1>1. TypeOK /\ pc[q] = "publish" /\ UNCHANGED <<steps, result>>
  BY DEF IInv, Publish, PublishStarted, PublishFailedAndRetry, PublishRetrying,
         PublishFailedForGood, PublishSucceeded
<1>2. /\ cur[q] \in StepRow /\ cur[q].attempt \in 1..(MaxRetries + 1)
      /\ seq[q] \in Nat \ {0} /\ Len(steps[q]) = seq[q] /\ steps[q][seq[q]] = cur[q]
  BY <1>1, InTheLoop DEF InLoop, EventsOK, LocalOK
<1>3. ASSUME PublishStarted(q) PROVE EventsOK(q)'
  <2>1. /\ pc'[q] = "working" /\ cur[q].status = "running"
        /\ UNCHANGED <<seq, cur, outcome>>
    BY <1>1, <1>3 DEF PublishStarted, Publish, TypeOK
  <2>2. /\ Story(published[q])' /\ BackedOK(q)'
        /\ LastIs(published'[q], "step.started", seq[q], cur[q].attempt)
    BY <1>1, <1>3, PublishGoesOn DEF PublishStarted, StepStatus, EventOf
  <2>3. LocalOK(q)' /\ LogOK(q)'
    BY <1>1, <1>2, <2>1, <2>2 DEF LocalOK, LogOK, BeforeLoop
  <2>4. QED
    BY <2>2, <2>3 DEF EventsOK
<1>4. ASSUME PublishFailedAndRetry(q) PROVE EventsOK(q)'
  <2>1. /\ pc'[q] = "persist" /\ cur[q].status = "failed"
        /\ cur'[q] = [cur[q] EXCEPT !.status = "retrying"]
        /\ UNCHANGED <<seq, outcome>>
    BY <1>1, <1>4 DEF PublishFailedAndRetry, Publish, TypeOK
  <2>2. cur'[q].status = "retrying" /\ cur'[q].attempt = cur[q].attempt
    BY <1>2, <2>1, AssignStatus DEF StepStatus
  <2>3. /\ Story(published[q])' /\ BackedOK(q)'
        /\ LastIs(published'[q], "step.failed", seq[q], cur[q].attempt)
    BY <1>1, <1>4, PublishGoesOn DEF PublishFailedAndRetry, StepStatus, EventOf
  <2>4. NotBehind(cur'[q], cur[q])
    BY <2>1, <2>2 DEF NotBehind, Rank
  <2>5. LocalOK(q)' /\ LogOK(q)'
    BY <1>1, <1>2, <2>1, <2>2, <2>3, <2>4 DEF LocalOK, LogOK, BeforeLoop
  <2>6. QED
    BY <2>3, <2>5 DEF EventsOK
<1>5. ASSUME PublishRetrying(q) PROVE EventsOK(q)'
  <2>1. pc'[q] = "backoff" /\ UNCHANGED <<seq, cur, outcome>>
    BY <1>1, <1>5 DEF PublishRetrying, Publish, TypeOK
  <2>2. /\ Story(published[q])' /\ BackedOK(q)'
        /\ LastIs(published'[q], "step.retrying", seq[q], cur[q].attempt)
    BY <1>1, <1>5, PublishGoesOn DEF PublishRetrying, StepStatus, EventOf
  <2>3. LocalOK(q)' /\ LogOK(q)'
    BY <1>1, <1>2, <2>1, <2>2 DEF LocalOK, LogOK, BeforeLoop
  <2>4. QED
    BY <2>2, <2>3 DEF EventsOK
<1>6. ASSUME PublishFailedForGood(q) PROVE EventsOK(q)'
  <2>1. /\ pc'[q] = "set_final" /\ outcome'[q] = "failed" /\ seq'[q] = seq[q]
        /\ cur[q].attempt > MaxRetries
    BY <1>1, <1>6 DEF PublishFailedForGood, Publish, Decide, TypeOK
  <2>2. /\ Story(published[q])' /\ BackedOK(q)'
        /\ LastIs(published'[q], "step.failed", seq[q], cur[q].attempt)
    BY <1>1, <1>6, PublishGoesOn DEF PublishFailedForGood, StepStatus, EventOf
  <2>3. cur[q].attempt = MaxRetries + 1
    BY <1>2, <2>1, RetriesAssumption
  <2>4. LocalOK(q)' /\ LogOK(q)'
    BY <2>1, <2>2, <2>3 DEF LocalOK, LogOK, BeforeLoop
  <2>5. QED
    BY <2>2, <2>4 DEF EventsOK
<1>7. ASSUME PublishSucceeded(q) PROVE EventsOK(q)'
  <2>1. /\ Story(published[q])' /\ BackedOK(q)'
        /\ LastIs(published'[q], "step.succeeded", seq[q], cur[q].attempt)
    BY <1>1, <1>7, PublishGoesOn DEF PublishSucceeded, StepStatus, EventOf
  <2>2. Succeeded(published'[q], seq[q])
    BY <2>1 DEF LastIs, Succeeded
  <2>3. Advance(q, plan[q], seq[q] + 1)
    BY <1>7 DEF PublishSucceeded
  <2>4. QED
    BY <1>1, <1>2, <2>1, <2>2, <2>3, AdvanceKeepsEvents
<1>8. QED
  BY <1>3, <1>4, <1>5, <1>6, <1>7

\* The work of a step, and the next attempt after the back-off: the local step moves
\* on from its row.
LEMMA WorkKeepsEvents ==
  ASSUME IInv, NEW q \in Runs, EventsOK(q), StepFails(q) \/ StepSucceeds(q) \/ Retry(q)
  PROVE  EventsOK(q)'
<1> USE DEF At, database, locals, requests
<1>0. Retry(q) => NextAttempt(q)
  BY RetryGoesOn DEF IInv
<1>1. /\ pc[q] \in {"working", "backoff"} /\ pc'[q] = "persist"
      /\ UNCHANGED <<steps, result, seq, outcome, published>>
  BY <1>0 DEF IInv, TypeOK, StepFails, StepSucceeds, NextAttempt
<1>2. /\ cur[q] \in StepRow /\ cur[q].attempt \in 1..(MaxRetries + 1)
      /\ seq[q] \in Nat \ {0} /\ Len(steps[q]) = seq[q] /\ steps[q][seq[q]] = cur[q]
  BY <1>1, InTheLoop DEF InLoop, EventsOK, LocalOK
<1>3. Story(published[q])' /\ BackedOK(q)'
  BY <1>1 DEF EventsOK, BackedOK
<1>4. CASE StepFails(q) \/ StepSucceeds(q)
  <2>1. /\ pc[q] = "working" /\ cur[q].status = "running"
        /\ LastIs(published[q], "step.started", seq[q], cur[q].attempt)
    BY <1>4 DEF StepFails, StepSucceeds, EventsOK, LocalOK, LogOK
  <2>2. cur'[q].status \in {"failed", "succeeded"} /\ cur'[q].attempt = cur[q].attempt
    <3>1. CASE StepFails(q)
      BY <1>2, <3>1, AssignStatus DEF StepFails, IInv, TypeOK, StepStatus
    <3>2. CASE StepSucceeds(q)
      <4>1. PICK u \in Usage :
              cur' = [cur EXCEPT ![q].status = "succeeded", ![q].usage = u]
        BY <3>2 DEF StepSucceeds
      <4>2. cur'[q] = [cur[q] EXCEPT !.status = "succeeded", !.usage = u]
        BY <4>1 DEF IInv, TypeOK
      <4>3. cur[q] \in StepRow /\ u \in Nat /\ "succeeded" \in StepStatus
        BY <1>2, UsageAssumption DEF StepStatus
      <4>4. [cur[q] EXCEPT !.status = "succeeded", !.usage = u].status = "succeeded"
        BY <4>3 DEF StepRow
      <4>5. [cur[q] EXCEPT !.status = "succeeded", !.usage = u].attempt = cur[q].attempt
        BY <4>3 DEF StepRow
      <4>6. QED
        BY <4>2, <4>4, <4>5
    <3>3. QED
      BY <1>4, <3>1, <3>2
  <2>3. NotBehind(cur'[q], cur[q])
    BY <2>1, <2>2 DEF NotBehind, Rank
  <2>4. LocalOK(q)' /\ LogOK(q)'
    BY <1>1, <1>2, <2>1, <2>2, <2>3 DEF LocalOK, LogOK, BeforeLoop
  <2>5. QED
    BY <1>3, <2>4 DEF EventsOK
<1>5. CASE Retry(q)
  <2>1. /\ pc[q] = "backoff"
        /\ LastIs(published[q], "step.retrying", seq[q], cur[q].attempt)
    BY <1>0, <1>5 DEF NextAttempt, EventsOK, LogOK
  <2>2. cur'[q].status = "running" /\ cur'[q].attempt = cur[q].attempt + 1
    BY <1>0, <1>5 DEF NextAttempt, FreshStep, IInv, TypeOK
  <2>3. NotBehind(cur'[q], cur[q]) /\ cur'[q].attempt - 1 = cur[q].attempt
    BY <1>2, <2>2, RetriesAssumption DEF NotBehind
  <2>4. LocalOK(q)' /\ LogOK(q)'
    BY <1>1, <1>2, <2>1, <2>2, <2>3 DEF LocalOK, LogOK, BeforeLoop
  <2>5. QED
    BY <1>3, <2>4 DEF EventsOK
<1>6. QED
  BY <1>4, <1>5

\* The last commit, and run.completed, which tells what it has recorded.
LEMMA EndKeepsEvents ==
  ASSUME IInv, NEW q \in Runs, EventsOK(q), CommitFinal(q) \/ Announce(q)
  PROVE  EventsOK(q)'
<1> USE DEF At, database, locals, requests
<1>1. TypeOK /\ StageInv /\ seq[q] \in Nat /\ published[q] \in Seq(Event)
      /\ outcome[q] \in TerminalStatus
  BY DEF IInv, TypeOK, StageInv, AfterLoop, CommitFinal, Announce
<1>2. CASE CommitFinal(q)
  <2>1. /\ pc[q] = "set_final" /\ pc'[q] = "announce" /\ result[q] = "none"
        /\ result'[q] = outcome[q]
        /\ UNCHANGED <<steps, seq, cur, outcome, published>>
    BY <1>1, <1>2 DEF CommitFinal, TypeOK, StageInv
  <2>2. \A i \in 1..Len(published[q]) :
          published[q][i] \in Event /\ published[q][i].event # "run.completed"
    <3>1. \A e \in Event : e.event = "run.completed" => e.verdict \in TerminalStatus
      BY DEF Event, EventName
    <3>2. "none" \notin TerminalStatus
      BY DEF TerminalStatus
    <3>3. QED
      BY <1>1, <2>1, <3>1, <3>2, ElementOfSeq DEF EventsOK, BackedOK, Backed
  <2>3. BackedOK(q)'
    BY <2>1, <2>2 DEF EventsOK, BackedOK, Backed
  <2>4. LocalOK(q)' /\ LogOK(q)' /\ Story(published[q])'
    BY <2>1 DEF EventsOK, LocalOK, LogOK, BeforeLoop
  <2>5. QED
    BY <2>3, <2>4 DEF EventsOK
<1>3. CASE Announce(q)
  <2> DEFINE log == published[q]
             e == CompletedEvent(outcome[q])
  <2>1. /\ pc[q] = "announce" /\ pc'[q] = "done" /\ log' = Append(log, e)
        /\ UNCHANGED <<steps, result, seq, cur, outcome>>
    BY <1>1, <1>3 DEF Announce, TypeOK
  <2>2. /\ e \in Event /\ result[q] = outcome[q]
        /\ e.event = "run.completed" /\ e.verdict = outcome[q]
    BY <1>1, <2>1, CompletedEventTyped DEF CompletedEvent, EventsOK, LocalOK
  <2>3. /\ log = <<>> => Opens(e)
        /\ log # <<>> => Follows(log[Len(log)], e)
    <3>1. \/ outcome[q] = "cancelled" /\ log = <<>>
          \/ outcome[q] \in {"cancelled", "succeeded"} /\ Succeeded(log, seq[q])
          \/ outcome[q] = "failed" /\ LastIs(log, "step.failed", seq[q], MaxRetries + 1)
      BY <2>1 DEF EventsOK, LogOK
    <3>2. QED
      BY <3>1 DEF Succeeded, LastIs, Opens, Follows
  <2>4. Story(log')
    BY <1>1, <2>1, <2>2, <2>3, StoryGoesOn DEF EventsOK
  <2>5. BackedOK(q)'
    BY <1>1, <2>1, <2>2, BackedGoesOn DEF EventsOK, Backed
  <2>6. LocalOK(q)' /\ LogOK(q)'
    BY <2>1, <2>2 DEF LocalOK, LogOK, BeforeLoop
  <2>7. QED
    BY <2>4, <2>5, <2>6 DEF EventsOK
<1>4. QED
  BY <1>2, <1>3

\* The plan is drawn: its first step begins, or none at all.
LEMMA BeginKeepsEvents ==
  ASSUME IInv, NEW q \in Runs, EventsOK(q), BeginPlan(q)
  PROVE  EventsOK(q)'
<1>1. /\ TypeOK /\ pc[q] = "begin" /\ seq[q] = 0 /\ steps[q] = <<>>
      /\ UNCHANGED <<steps, result, published>>
  BY DEF IInv, StageInv, BeforeLoop, BeginPlan, database, requests
<1>2. PICK tools \in 1..MaxTools, delegates \in BOOLEAN :
        Advance(q, PlanOf(tools, delegates), 1)
  BY DEF BeginPlan
<1>3. published'[q] = <<>> /\ Story(published[q])' /\ BackedOK(q)'
  BY <1>1 DEF EventsOK, LogOK, BackedOK, BeforeLoop
<1>4. Len(steps[q]) = seq[q]
  BY <1>1
<1>5. QED
  BY <1>1, <1>2, <1>3, <1>4, PlanOfTyped, AdvanceKeepsEvents

\* Every step keeps the events of every run.
LEMMA EventsStep ==
  ASSUME IInv, EventsInv, [Next]_vars
  PROVE  EventsInv'
<1> SUFFICES ASSUME NEW q \in Runs PROVE EventsOK(q)'
  BY DEF EventsInv
<1>1. TypeOK /\ EventsOK(q)
  BY DEF IInv, EventsInv
<1>2. ASSUME NEW r \in Runs \ {q}, TaskStep(r) \/ RunnerFails(r) PROVE EventsOK(q)'
  BY <1>1, <1>2, OthersRest, RestingKeepsEvents DEF Rests
<1>3. ASSUME CommitRun(q) \/ ScheduleRun(q) \/ StartTask(q) \/ CommitRunning(q)
             \/ RunnerFails(q)
      PROVE  EventsOK(q)'
  <2>1. /\ UNCHANGED <<steps, result, seq, cur, outcome, published>>
        /\ \/ pc'[q] = "crashed"
           \/ pc[q] \in BeforeLoop /\ pc'[q] \in BeforeLoop
    BY <1>1, <1>3 DEF CommitRun, ScheduleRun, StartTask, CommitRunning, RunnerFails, At,
                      TypeOK, BeforeLoop, database, locals
  <2>2. QED
    BY <1>1, <2>1, RestingKeepsEvents
<1>4. ASSUME TaskStep(q) PROVE EventsOK(q)'
  BY <1>1, <1>3, <1>4, PersistKeepsEvents, PublishKeepsEvents, WorkKeepsEvents,
     EndKeepsEvents, BeginKeepsEvents DEF TaskStep
<1>5. ASSUME NEW c \in Cancels, CancelStep(c) \/ CancelFails(c) PROVE EventsOK(q)'
  <2>1. UNCHANGED <<pc, steps, result, seq, cur, outcome, published>>
    BY <1>5 DEF CancelStep, CancelLoad, CancelRefuse, CancelSignal, CancelCommit,
                CancelFails, database, task, locals
  <2>2. QED
    BY <1>1, <2>1, RestingKeepsEvents
<1>6. ASSUME Restart PROVE EventsOK(q)'
  <2>1. /\ UNCHANGED <<steps, result, seq, cur, outcome, published>>
        /\ pc'[q] \in {pc[q], "crashed"}
    BY <1>6 DEF Restart, database, locals
  <2>2. QED
    BY <1>1, <2>1, RestingKeepsEvents
<1>7. ASSUME UNCHANGED vars PROVE EventsOK(q)'
  <2>1. UNCHANGED <<pc, steps, result, seq, cur, outcome, published>>
    BY <1>7 DEF vars, database, task, locals
  <2>2. QED
    BY <1>1, <2>1, RestingKeepsEvents
<1>8. QED
  BY <1>2, <1>3, <1>4, <1>5, <1>6, <1>7 DEF Next, Quiescent
-----------------------------------------------------------------------------
\* The inductive invariant: what was published last fits where the task is, and its
\* local step is not behind its row (runner.py:90-126, 141-241).
THEOREM EventsInvariance == Spec => []EventsInv
<1>1. Init => EventsInv
  BY DEF Init, EventsInv, EventsOK, LocalOK, LogOK, Story, BackedOK, BeforeLoop
<1>2. QED
  BY <1>1, EventsStep, Invariance, PTL DEF Spec

\* The events of a run tell its steps in order, whatever retries, cancels and failures
\* come between, and nothing follows run.completed.
THEOREM StoryTold == Spec => []EventsTellTheStory
<1>1. EventsInv => EventsTellTheStory
  BY DEF EventsInv, EventsOK, Story, Opens, EventsTellTheStory
<1>2. QED
  BY <1>1, EventsInvariance, PTL

\* Whoever reads the tables after an event was published finds what it announced, or
\* something later of the same step.
THEOREM EventsBacked == Spec => []EventsAreBackedByRows
<1>1. EventsInv => EventsAreBackedByRows
  BY DEF EventsInv, EventsOK, BackedOK, Backed, EventsAreBackedByRows
<1>2. QED
  BY <1>1, EventsInvariance, PTL

-----------------------------------------------------------------------------
(***************************************************************************)
(* The books of a run balance.                                             *)
(***************************************************************************)
\* Usage comes with success; only tools and sub-agents fail.
RowFits(r, k, s) ==
  IF s.status = "succeeded" THEN s.usage \in Usage
  ELSE /\ s.usage = 0
       /\ s.status \in {"failed", "retrying"} => plan[r][k] \in Fallible

\* The local step differs from its row by one move; a step without a row is fresh.
Moved(here, there) ==
  \/ here = "running" /\ there \in {"failed", "succeeded"}
  \/ here = "failed" /\ there = "retrying"
  \/ here = "retrying" /\ there = "running"

RowsOK(r) ==
  /\ \A i \in 1..Len(steps[r]) : RowFits(r, i, steps[r][i])
  /\ pc[r] \in InLoop => RowFits(r, seq[r], cur[r])
  /\ pc[r] = "persist" =>
       IF seq[r] = Len(steps[r]) THEN Moved(steps[r][seq[r]].status, cur[r].status)
       ELSE cur[r].status = "running"

\* What a step has consumed is counted first, saved next, and totalled last.
BooksOK(r) ==
  LET saved == UsageOf(steps[r]) IN
  /\ pc[r] \in BeforeLoop \union AfterLoop \union {"working", "backoff"} =>
       metered[r] = saved /\ spent[r] = saved
  /\ pc[r] = "persist" => metered[r] = saved + cur[r].usage /\ spent[r] = saved
  /\ pc[r] = "publish" => metered[r] = saved /\ spent[r] + cur[r].usage = saved
  /\ result[r] # "none" => metered[r] = saved /\ total[r] = saved

\* A run has a row once it was committed, and "running" was written to it before
\* its plan was drawn.  A plan is not longer than the table allows, and begins
\* with a model call.
StatusOK(r) ==
  /\ pc[r] # "absent" => status[r] # "none"
  /\ pc[r] \in InLoop \union AfterLoop \union {"begin"} => status[r] # "queued"
  /\ Len(plan[r]) <= MaxTools + 3
  /\ plan[r] # <<>> => plan[r][1] = "model_call"

RecordsOK(r) == RowsOK(r) /\ BooksOK(r) /\ StatusOK(r)

RecordsInv == \A r \in Runs : RecordsOK(r)
-----------------------------------------------------------------------------
\* What no step of another run touches.
Untouched(q) ==
  /\ pc'[q] = pc[q] /\ steps'[q] = steps[q] /\ result'[q] = result[q]
  /\ seq'[q] = seq[q] /\ cur'[q] = cur[q] /\ plan'[q] = plan[q]
  /\ spent'[q] = spent[q] /\ metered'[q] = metered[q] /\ total'[q] = total[q]

\* A task keeps its hands off the other runs.
LEMMA OthersUntouched ==
  ASSUME TypeOK, NEW r \in Runs, NEW q \in Runs \ {r}, TaskStep(r) \/ RunnerFails(r)
  PROVE  Untouched(q) /\ status'[q] = status[q]
<1> USE DEF Untouched, TypeOK, At, database, locals, requests
<1>1. CASE CommitRun(r) \/ ScheduleRun(r) \/ StartTask(r) \/ CommitRunning(r)
  BY <1>1 DEF CommitRun, ScheduleRun, StartTask, CommitRunning
<1>2. CASE BeginPlan(r)
  BY <1>2 DEF BeginPlan, Advance, Decide, StartStep
<1>3. CASE PersistStep(r)
  BY <1>3 DEF PersistStep, Persist
<1>4. CASE PublishStarted(r) \/ PublishFailedAndRetry(r) \/ PublishRetrying(r)
  BY <1>4 DEF PublishStarted, PublishFailedAndRetry, PublishRetrying, Publish
<1>5. CASE PublishFailedForGood(r)
  BY <1>5 DEF PublishFailedForGood, Publish, Decide
<1>6. CASE PublishSucceeded(r)
  BY <1>6 DEF PublishSucceeded, Publish, Advance, Decide, StartStep
<1>7. CASE StepFails(r) \/ StepSucceeds(r) \/ Retry(r)
  BY <1>7 DEF StepFails, StepSucceeds, Retry, Advance, Decide, StartStep
<1>8. CASE CommitFinal(r) \/ Announce(r) \/ RunnerFails(r)
  BY <1>8 DEF CommitFinal, Announce, RunnerFails
<1>9. QED
  BY <1>1, <1>2, <1>3, <1>4, <1>5, <1>6, <1>7, <1>8 DEF TaskStep

\* A task that only moves on before its loop, or breaks off, keeps its books.
LEMMA RestingKeepsBooks ==
  ASSUME NEW q \in Runs, RowsOK(q), BooksOK(q),
         steps'[q] = steps[q], result'[q] = result[q], seq'[q] = seq[q],
         cur'[q] = cur[q], plan'[q] = plan[q], spent'[q] = spent[q],
         metered'[q] = metered[q], total'[q] = total[q],
         \/ pc'[q] = pc[q]
         \/ pc'[q] = "crashed"
         \/ pc[q] \in BeforeLoop /\ pc'[q] \in BeforeLoop
         \/ pc[q] \in AfterLoop /\ pc'[q] \in AfterLoop
  PROVE  RowsOK(q)' /\ BooksOK(q)'
<1>1. RowsOK(q)'
  BY DEF RowsOK, RowFits, InLoop, BeforeLoop, AfterLoop
<1>2. BooksOK(q)'
  BY DEF BooksOK, BeforeLoop, AfterLoop
<1>3. QED
  BY <1>1, <1>2

\* The saved rows of a run, and what they have consumed, are well-formed.
LEMMA SavedTyped ==
  ASSUME TypeOK, NEW q \in Runs
  PROVE  /\ steps[q] \in Seq(StepRow) /\ Len(steps[q]) \in Nat
         /\ \A i \in 1..Len(steps[q]) : steps[q][i] \in StepRow
                                        /\ steps[q][i].usage \in Nat
         /\ UsageOf(steps[q]) \in Nat
<1>1. steps[q] \in Seq(StepRow) /\ Len(steps[q]) \in Nat
  BY LenProperties DEF TypeOK
<1>2. \A i \in 1..Len(steps[q]) : steps[q][i] \in StepRow
                                 /\ steps[q][i].usage \in Nat
  BY <1>1, ElementOfSeq, StepFields
<1>3. QED
  BY <1>1, <1>2, UsageTyped

\* Saving a step adds what it has consumed, once: its row had consumed nothing.
LEMMA PersistKeepsBooks ==
  ASSUME IInv, NEW q \in Runs, RowsOK(q), BooksOK(q), PersistStep(q)
  PROVE  RowsOK(q)' /\ BooksOK(q)'
<1> DEFINE rows == steps[q]
           n == seq[q]
<1>1. /\ pc[q] = "persist" /\ pc'[q] = "publish"
      /\ steps'[q] = IF n > Len(rows) THEN Append(rows, cur[q])
                      ELSE [rows EXCEPT ![n] = cur[q]]
      /\ UNCHANGED <<seq, cur, plan, result, total, spent, metered>>
  BY DEF PersistStep, At, Persist, IInv, TypeOK, locals
<1>2. /\ cur[q] \in StepRow /\ cur[q].usage \in Nat /\ n \in Nat \ {0}
      /\ result[q] = "none" /\ n <= Len(rows) + 1 /\ Len(rows) <= n
  BY <1>1, InTheLoop, StepFields DEF InLoop, IInv, RowsInv
<1>3. /\ rows \in Seq(StepRow) /\ Len(rows) \in Nat /\ UsageOf(rows) \in Nat
      /\ \A i \in 1..Len(rows) : rows[i].usage \in Nat
  BY SavedTyped DEF IInv
<1>4. /\ Len(steps'[q]) = n /\ steps'[q][n] = cur[q]
      /\ \A i \in 1..(n - 1) : i \in 1..Len(rows) /\ steps'[q][i] = rows[i]
      /\ UsageOf(steps'[q]) = UsageOf(rows) + cur[q].usage
  <2>1. CASE n > Len(rows)
    <3>1. n = Len(rows) + 1 /\ steps'[q] = Append(rows, cur[q])
      BY <1>1, <1>2, <1>3, <2>1
    <3>2. UsageOf(steps'[q]) = UsageOf(rows) + cur[q].usage
      BY <1>2, <1>3, <3>1, UsageOfAppend
    <3>3. QED
      BY <1>2, <1>3, <3>1, <3>2, AppendProperties
  <2>2. CASE n = Len(rows)
    <3>1. steps'[q] = [rows EXCEPT ![n] = cur[q]]
      BY <1>1, <1>2, <1>3, <2>2
    <3>2. rows[n].status # "succeeded"
      BY <1>1, <2>2 DEF RowsOK, Moved
    <3>3. rows[n].usage = 0
      BY <1>2, <2>2, <3>2 DEF RowsOK, RowFits
    <3>4. UsageOf([rows EXCEPT ![Len(rows)] = cur[q]])
            = UsageOf(rows) - rows[Len(rows)].usage + cur[q].usage
      BY <1>2, <1>3, <2>2, UsageOfChange
    <3>5. UsageOf(steps'[q]) = UsageOf(rows) + cur[q].usage
      BY <1>2, <1>3, <2>2, <3>1, <3>3, <3>4
    <3>6. QED
      BY <1>2, <1>3, <2>2, <3>1, <3>5, ExceptSeq
  <2>3. QED
    BY <1>2, <1>3, <2>1, <2>2
<1>5. RowFits(q, n, cur[q])
  BY <1>1 DEF RowsOK, InLoop
<1>6. \A i \in 1..n : RowFits(q, i, steps'[q][i])
  BY <1>2, <1>4, <1>5 DEF RowsOK
<1>7. RowsOK(q)'
  BY <1>1, <1>4, <1>5, <1>6 DEF RowsOK, RowFits, InLoop
<1>8. metered[q] = UsageOf(rows) + cur[q].usage /\ spent[q] = UsageOf(rows)
  BY <1>1 DEF BooksOK
<1>9. BooksOK(q)'
  BY <1>1, <1>2, <1>3, <1>4, <1>8 DEF BooksOK, BeforeLoop, AfterLoop
<1>10. QED
  BY <1>7, <1>9

\* On to the next step, or out of the loop: everything saved is totalled.
LEMMA AdvanceKeepsBooks ==
  ASSUME TypeOK, NEW q \in Runs, NEW p, NEW k \in Nat, Advance(q, p, k),
         k # Len(steps[q]),
         \A i \in 1..Len(steps[q]) : RowFits(q, i, steps[q][i])',
         result[q] = "none", UNCHANGED <<steps, result, metered>>,
         metered[q] = UsageOf(steps[q]), spent'[q] = UsageOf(steps[q]),
         UsageOf(steps[q]) \in Nat
  PROVE  RowsOK(q)' /\ BooksOK(q)'
<1> USE DEF TypeOK
<1>1. CASE StartStep(q, k)
  <2>1. /\ pc'[q] = "persist" /\ seq'[q] = k
        /\ cur'[q].status = "running" /\ cur'[q].usage = 0
    BY <1>1 DEF StartStep, FreshStep
  <2>2. RowFits(q, seq[q], cur[q])'
    BY <2>1 DEF RowFits
  <2>3. RowsOK(q)'
    BY <2>1, <2>2 DEF RowsOK, InLoop
  <2>4. BooksOK(q)'
    BY <2>1 DEF BooksOK, BeforeLoop, AfterLoop
  <2>5. QED
    BY <2>3, <2>4
<1>2. ASSUME NEW v, Decide(q, v) PROVE RowsOK(q)' /\ BooksOK(q)'
  <2>1. pc'[q] = "set_final"
    BY <1>2 DEF Decide
  <2>2. RowsOK(q)'
    BY <2>1 DEF RowsOK, InLoop
  <2>3. BooksOK(q)'
    BY <2>1 DEF BooksOK, BeforeLoop, AfterLoop
  <2>4. QED
    BY <2>2, <2>3
<1>3. QED
  BY <1>1, <1>2 DEF Advance

\* The publications within the loop: a step that is over is totalled.
LEMMA PublishKeepsBooks ==
  ASSUME IInv, NEW q \in Runs, EventsOK(q), RowsOK(q), BooksOK(q),
         \/ PublishStarted(q) \/ PublishFailedAndRetry(q) \/ PublishRetrying(q)
         \/ PublishFailedForGood(q) \/ PublishSucceeded(q)
  PROVE  RowsOK(q)' /\ BooksOK(q)'
<1> USE DEF At, database, locals, requests
<1>1. TypeOK /\ pc[q] = "publish"
      /\ UNCHANGED <<steps, result, total, plan, metered>>
  BY DEF IInv, Publish, PublishStarted, PublishFailedAndRetry, PublishRetrying,
         PublishFailedForGood, PublishSucceeded
<1>2. /\ cur[q] \in StepRow /\ cur[q].usage \in Nat /\ result[q] = "none"
      /\ seq[q] \in Nat \ {0} /\ Len(steps[q]) = seq[q] /\ steps[q][seq[q]] = cur[q]
      /\ RowFits(q, seq[q], cur[q])
  BY <1>1, InTheLoop, StepFields DEF InLoop, EventsOK, LocalOK, RowsOK
<1>3. \A i \in 1..Len(steps[q]) : RowFits(q, i, steps[q][i])'
  BY <1>1 DEF RowsOK, RowFits
<1>4. /\ metered[q] = UsageOf(steps[q]) /\ spent[q] + cur[q].usage = UsageOf(steps[q])
      /\ UsageOf(steps[q]) \in Nat /\ spent[q] \in Nat
  BY <1>1, SavedTyped DEF BooksOK, TypeOK
<1>5. ASSUME PublishStarted(q) \/ PublishRetrying(q) PROVE RowsOK(q)' /\ BooksOK(q)'
  <2>1. /\ pc'[q] \in {"working", "backoff"} /\ cur[q].status # "succeeded"
        /\ UNCHANGED <<seq, cur, spent>>
    BY <1>1, <1>5 DEF PublishStarted, PublishRetrying, Publish, TypeOK
  <2>2. spent[q] = UsageOf(steps[q])
    BY <1>2, <1>4, <2>1 DEF RowFits
  <2>3. RowsOK(q)'
    BY <1>1, <1>2, <1>3, <2>1 DEF RowsOK, RowFits
  <2>4. BooksOK(q)'
    BY <1>1, <1>2, <1>4, <2>1, <2>2 DEF BooksOK, BeforeLoop, AfterLoop
  <2>5. QED
    BY <2>3, <2>4
<1>6. ASSUME PublishFailedAndRetry(q) PROVE RowsOK(q)' /\ BooksOK(q)'
  <2>1. /\ pc'[q] = "persist" /\ cur[q].status = "failed"
        /\ cur'[q] = [cur[q] EXCEPT !.status = "retrying"]
        /\ UNCHANGED <<seq, spent>>
    BY <1>1, <1>6 DEF PublishFailedAndRetry, Publish, TypeOK
  <2>2. cur'[q].status = "retrying" /\ cur'[q].usage = cur[q].usage
    BY <1>2, <2>1 DEF StepRow
  <2>3. cur[q].usage = 0 /\ plan[q][seq[q]] \in Fallible
    BY <1>2, <2>1 DEF RowFits
  <2>4. RowFits(q, seq[q], cur[q])'
    BY <1>1, <2>1, <2>2, <2>3 DEF RowFits
  <2>5. RowsOK(q)'
    BY <1>1, <1>2, <1>3, <2>1, <2>2, <2>4 DEF RowsOK, Moved
  <2>6. BooksOK(q)'
    BY <1>1, <1>2, <1>4, <2>1, <2>2, <2>3 DEF BooksOK, BeforeLoop, AfterLoop
  <2>7. QED
    BY <2>5, <2>6
<1>7. ASSUME PublishFailedForGood(q) PROVE RowsOK(q)' /\ BooksOK(q)'
  <2>1. pc'[q] = "set_final" /\ spent'[q] = UsageOf(steps[q])
    BY <1>1, <1>4, <1>7 DEF PublishFailedForGood, Decide, TypeOK
  <2>2. RowsOK(q)'
    BY <1>1, <1>3, <2>1 DEF RowsOK, InLoop
  <2>3. BooksOK(q)'
    BY <1>1, <1>2, <1>4, <2>1 DEF BooksOK, BeforeLoop, AfterLoop
  <2>4. QED
    BY <2>2, <2>3
<1>8. ASSUME PublishSucceeded(q) PROVE RowsOK(q)' /\ BooksOK(q)'
  <2>1. Advance(q, plan[q], seq[q] + 1) /\ spent'[q] = UsageOf(steps[q])
    BY <1>1, <1>4, <1>8 DEF PublishSucceeded, TypeOK
  <2>2. seq[q] + 1 \in Nat /\ seq[q] + 1 # Len(steps[q])
    BY <1>2
  <2>3. QED
    BY <1>1, <1>2, <1>3, <1>4, <2>1, <2>2, AdvanceKeepsBooks
<1>9. QED
  BY <1>5, <1>6, <1>7, <1>8

\* The work of a step: what it has consumed is counted before it is saved.
LEMMA WorkKeepsBooks ==
  ASSUME IInv, NEW q \in Runs, EventsOK(q), RowsOK(q), BooksOK(q),
         StepFails(q) \/ StepSucceeds(q) \/ Retry(q)
  PROVE  RowsOK(q)' /\ BooksOK(q)'
<1> USE DEF At, database, locals, requests
<1>0. Retry(q) => NextAttempt(q)
  BY RetryGoesOn DEF IInv
<1>1. /\ TypeOK /\ pc[q] \in {"working", "backoff"} /\ pc'[q] = "persist"
      /\ UNCHANGED <<steps, result, total, plan, seq, spent>>
  BY <1>0 DEF IInv, TypeOK, StepFails, StepSucceeds, NextAttempt
<1>2. /\ cur[q] \in StepRow /\ cur[q].usage \in Nat /\ result[q] = "none"
      /\ seq[q] \in Nat \ {0} /\ Len(steps[q]) = seq[q] /\ steps[q][seq[q]] = cur[q]
      /\ RowFits(q, seq[q], cur[q])
  BY <1>1, InTheLoop, StepFields DEF InLoop, EventsOK, LocalOK, RowsOK
<1>3. \A i \in 1..Len(steps[q]) : RowFits(q, i, steps[q][i])'
  BY <1>1 DEF RowsOK, RowFits
<1>4. /\ metered[q] = UsageOf(steps[q]) /\ spent[q] = UsageOf(steps[q])
      /\ UsageOf(steps[q]) \in Nat
  BY <1>1, SavedTyped DEF BooksOK
<1>5. SUFFICES /\ RowFits(q, seq[q], cur[q])'
               /\ Moved(cur[q].status, cur'[q].status)
               /\ metered'[q] = UsageOf(steps[q]) + cur'[q].usage
  BY <1>1, <1>2, <1>3, <1>4 DEF RowsOK, BooksOK, BeforeLoop, AfterLoop
<1>6. CASE StepFails(q)
  <2>1. /\ cur[q].status = "running" /\ plan[q][seq[q]] \in Fallible
        /\ cur'[q] = [cur[q] EXCEPT !.status = "failed"] /\ metered' = metered
    BY <1>1, <1>6 DEF StepFails, TypeOK, EventsOK, LocalOK
  <2>2. cur'[q].status = "failed" /\ cur'[q].usage = cur[q].usage
    BY <1>2, <2>1 DEF StepRow
  <2>3. cur[q].usage = 0
    BY <1>2, <2>1 DEF RowFits
  <2>4. QED
    BY <1>1, <1>4, <2>1, <2>2, <2>3 DEF RowFits, Moved
<1>7. CASE StepSucceeds(q)
  <2>1. PICK u \in Usage :
          /\ cur' = [cur EXCEPT ![q].status = "succeeded", ![q].usage = u]
          /\ metered' = [metered EXCEPT ![q] = @ + u]
    BY <1>7 DEF StepSucceeds
  <2>2. /\ cur[q].status = "running"
        /\ cur'[q] = [cur[q] EXCEPT !.status = "succeeded", !.usage = u]
        /\ metered'[q] = metered[q] + u
    BY <1>1, <1>7, <2>1 DEF StepSucceeds, TypeOK, EventsOK, LocalOK
  <2>3. cur'[q].status = "succeeded" /\ cur'[q].usage = u
    BY <1>2, <2>2 DEF StepRow
  <2>4. QED
    BY <1>4, <2>2, <2>3 DEF RowFits, Moved
<1>8. CASE Retry(q)
  <2>1. cur[q].status = "retrying" /\ metered' = metered
    BY <1>0, <1>8 DEF NextAttempt, IInv, RowsInv
  <2>2. cur'[q].status = "running" /\ cur'[q].usage = 0
    BY <1>0, <1>1, <1>8 DEF NextAttempt, FreshStep, TypeOK
  <2>3. QED
    BY <1>4, <2>1, <2>2 DEF RowFits, Moved
<1>9. QED
  BY <1>6, <1>7, <1>8

\* The plan is drawn: nothing has been consumed yet.
LEMMA BeginKeepsBooks ==
  ASSUME IInv, NEW q \in Runs, RowsOK(q), BooksOK(q), BeginPlan(q)
  PROVE  RowsOK(q)' /\ BooksOK(q)'
<1>1. /\ TypeOK /\ pc[q] = "begin" /\ steps[q] = <<>> /\ result[q] = "none"
      /\ UNCHANGED <<steps, result, spent, metered>>
  BY DEF IInv, StageInv, BeforeLoop, BeginPlan, database, requests
<1>2. PICK tools \in 1..MaxTools, delegates \in BOOLEAN :
        Advance(q, PlanOf(tools, delegates), 1)
  BY DEF BeginPlan
<1>3. /\ Len(steps[q]) = 0 /\ \A i \in 1..Len(steps[q]) : RowFits(q, i, steps[q][i])'
  BY <1>1
<1>4. /\ metered[q] = UsageOf(steps[q]) /\ spent'[q] = UsageOf(steps[q])
      /\ UsageOf(steps[q]) \in Nat
  BY <1>1, SavedTyped DEF BooksOK, BeforeLoop
<1>5. QED
  BY <1>1, <1>2, <1>3, <1>4, AdvanceKeepsBooks

\* The last commit records the totals of the rows.
LEMMA FinalKeepsBooks ==
  ASSUME IInv, NEW q \in Runs, RowsOK(q), BooksOK(q), CommitFinal(q)
  PROVE  RowsOK(q)' /\ BooksOK(q)'
<1>1. /\ pc[q] = "set_final" /\ pc'[q] = "announce" /\ total'[q] = spent[q]
      /\ UNCHANGED <<steps, seq, cur, plan, spent, metered>>
  BY DEF CommitFinal, At, locals, IInv, TypeOK
<1>2. RowsOK(q)'
  BY <1>1 DEF RowsOK, RowFits, InLoop
<1>3. BooksOK(q)'
  BY <1>1 DEF BooksOK, BeforeLoop, AfterLoop
<1>4. QED
  BY <1>2, <1>3

\* A plan has at most one step per tool and three more, and begins with a model call.
LEMMA PlanOfShape ==
  ASSUME NEW n \in 1..MaxTools, NEW b \in BOOLEAN
  PROVE  Len(PlanOf(n, b)) <= MaxTools + 3 /\ PlanOf(n, b)[1] = "model_call"
<1> DEFINE first == <<"model_call">>
           tools == [i \in 1..n |-> "tool_call"]
           sub   == IF b THEN <<"sub_agent">> ELSE <<>>
<1>1. /\ first \in Seq(StepType) /\ Len(first) = 1 /\ first[1] = "model_call"
      /\ sub \in Seq(StepType) /\ Len(sub) <= 1
  <2>1. Len(<<"sub_agent">>) = 1 /\ Len(<<>>) = 0
    OBVIOUS
  <2>2. /\ <<"sub_agent">> \in Seq(StepType) /\ <<"model_call">> \in Seq(StepType)
        /\ <<>> \in Seq(StepType)
    BY DEF StepType
  <2>3. sub \in Seq(StepType) /\ Len(sub) <= 1
    BY <2>1, <2>2
  <2>4. QED
    BY <2>2, <2>3
<1>2. n \in Nat /\ n <= MaxTools /\ MaxTools \in Nat
  BY ToolsAssumption
<1>3. tools \in Seq(StepType) /\ Len(tools) = n
  <2>1. tools \in Seq(StepType)
    BY <1>2, IsASeq DEF StepType
  <2>2. QED
    BY <1>2, <2>1, LenProperties
<1> HIDE DEF first, tools, sub
<1>4. Len(sub) \in Nat
  BY <1>1, LenProperties
<1>5. /\ first \o tools \in Seq(StepType) /\ Len(first \o tools) = 1 + n
      /\ (first \o tools)[1] = "model_call"
  BY <1>1, <1>2, <1>3, ConcatProperties
<1>6. /\ first \o tools \o sub \in Seq(StepType)
      /\ Len(first \o tools \o sub) = 1 + n + Len(sub)
      /\ (first \o tools \o sub)[1] = "model_call"
  BY <1>1, <1>2, <1>5, ConcatProperties, LenProperties
<1>7. /\ Len(first \o tools \o sub \o first) = 1 + n + Len(sub) + 1
      /\ (first \o tools \o sub \o first)[1] = "model_call"
  <2>1. 1 \in 1..Len(first \o tools \o sub)
    BY <1>2, <1>4, <1>6
  <2>2. PICK x \in Seq(StepType) : x = first \o tools \o sub
    BY <1>6
  <2>3. 1 \in 1..Len(x)
    BY <2>1, <2>2
  <2>4. Len(x \o first) = Len(x) + 1 /\ (x \o first)[1] = x[1]
    <3>1. 1 \in 1..(Len(x) + Len(first)) /\ 1 <= Len(x)
      BY <1>1, <2>3, LenProperties
    <3>2. /\ Len(x \o first) = Len(x) + Len(first)
          /\ \A i \in 1..(Len(x) + Len(first)) :
               (x \o first)[i] = IF i <= Len(x) THEN x[i] ELSE first[i - Len(x)]
      BY <1>1, ConcatProperties, Zenon
    <3>3. QED
      BY <1>1, <3>1, <3>2
  <2>5. QED
    BY <1>6, <2>2, <2>4
<1>8. QED
  BY <1>1, <1>2, <1>4, <1>7 DEF PlanOf, first, tools, sub

\* Nothing takes the row of a run away or puts it back to "queued".
LEMMA StatusKept ==
  ASSUME TypeOK, StageInv, NEW q \in Runs, StatusOK(q), [Next]_vars
  PROVE  StatusOK(q)'
<1> USE DEF At, CancelGoto, database, task, locals, requests, StatusOK, TypeOK, InLoop,
            AfterLoop
<1>1. ASSUME NEW r \in Runs, CommitRun(r) PROVE StatusOK(q)'
  BY <1>1 DEF CommitRun
<1>2. ASSUME NEW r \in Runs, ScheduleRun(r) \/ StartTask(r) PROVE StatusOK(q)'
  BY <1>2 DEF ScheduleRun, StartTask
<1>3. ASSUME NEW r \in Runs, CommitRunning(r) PROVE StatusOK(q)'
  BY <1>3 DEF CommitRunning
<1>4. ASSUME NEW r \in Runs, BeginPlan(r) PROVE StatusOK(q)'
  <2>1. PICK n \in 1..MaxTools, b \in BOOLEAN :
          plan' = [plan EXCEPT ![r] = PlanOf(n, b)] /\ Advance(r, PlanOf(n, b), 1)
    BY <1>4 DEF BeginPlan
  <2>2. plan'[q] = plan[q] \/ plan'[q] = PlanOf(n, b)
    BY <2>1
  <2>3. Len(plan'[q]) <= MaxTools + 3 /\ (plan'[q] # <<>> => plan'[q][1] = "model_call")
    BY <2>2, PlanOfShape
  <2>4. pc[r] = "begin" /\ status' = status /\ (pc'[q] = pc[q] \/ q = r)
    BY <1>4, <2>1 DEF BeginPlan, Advance, Decide, StartStep
  <2>5. QED
    BY <2>3, <2>4
<1>5. ASSUME NEW r \in Runs, PersistStep(r) PROVE StatusOK(q)'
  BY <1>5 DEF PersistStep
<1>6. ASSUME NEW r \in Runs,
             \/ PublishStarted(r) \/ PublishFailedAndRetry(r) \/ PublishRetrying(r)
             \/ PublishFailedForGood(r) \/ PublishSucceeded(r)
      PROVE  StatusOK(q)'
  <2>1. pc[r] = "publish" /\ UNCHANGED <<status, plan>> /\ (pc'[q] = pc[q] \/ q = r)
    BY <1>6 DEF PublishStarted, PublishFailedAndRetry, PublishRetrying, Publish,
                PublishFailedForGood, PublishSucceeded, Advance, Decide, StartStep
  <2>2. QED
    BY <2>1
<1>7. ASSUME NEW r \in Runs, StepFails(r) \/ StepSucceeds(r) \/ Retry(r)
      PROVE  StatusOK(q)'
  BY <1>7 DEF StepFails, StepSucceeds, Retry, Advance, Decide, StartStep
<1>8. ASSUME NEW r \in Runs, CommitFinal(r) PROVE StatusOK(q)'
  BY <1>8 DEF CommitFinal, StageInv, TerminalStatus
<1>9. ASSUME NEW r \in Runs, Announce(r) \/ RunnerFails(r) PROVE StatusOK(q)'
  BY <1>9 DEF Announce, RunnerFails, AtDatabase
<1>10. ASSUME NEW c \in Cancels,
              CancelLoad(c) \/ CancelRefuse(c) \/ CancelSignal(c) \/ CancelFails(c)
       PROVE  StatusOK(q)'
  BY <1>10 DEF CancelLoad, CancelRefuse, CancelSignal, CancelFails
<1>11. ASSUME NEW c \in Cancels, CancelCommit(c) PROVE StatusOK(q)'
  BY <1>11 DEF CancelCommit
<1>12. ASSUME Restart PROVE StatusOK(q)'
  BY <1>12 DEF Restart, Live, TaskPc
<1>13. ASSUME UNCHANGED vars PROVE StatusOK(q)'
  BY <1>13 DEF vars
<1>14. QED
  BY StepCases, <1>1, <1>2, <1>3, <1>4, <1>5, <1>6, <1>7, <1>8, <1>9, <1>10, <1>11,
     <1>12, <1>13

\* Every step keeps the books of every run.
LEMMA RecordsStep ==
  ASSUME IInv, EventsInv, RecordsInv, [Next]_vars
  PROVE  RecordsInv'
<1> SUFFICES ASSUME NEW q \in Runs PROVE RecordsOK(q)'
  BY DEF RecordsInv
<1>1. TypeOK /\ StageInv /\ EventsOK(q) /\ RowsOK(q) /\ BooksOK(q) /\ StatusOK(q)
  BY DEF IInv, EventsInv, RecordsInv, RecordsOK
<1>2. SUFFICES RowsOK(q)' /\ BooksOK(q)'
  BY <1>1, StatusKept DEF RecordsOK
<1>3. ASSUME NEW r \in Runs \ {q}, TaskStep(r) \/ RunnerFails(r)
      PROVE  RowsOK(q)' /\ BooksOK(q)'
  BY <1>1, <1>3, OthersUntouched, RestingKeepsBooks DEF Untouched
<1>4. ASSUME \/ CommitRun(q) \/ ScheduleRun(q) \/ StartTask(q) \/ CommitRunning(q)
             \/ Announce(q) \/ RunnerFails(q)
      PROVE  RowsOK(q)' /\ BooksOK(q)'
  <2>1. /\ UNCHANGED <<steps, result, seq, cur, plan, spent, metered, total>>
        /\ \/ pc'[q] = "crashed"
           \/ pc[q] \in BeforeLoop /\ pc'[q] \in BeforeLoop
           \/ pc[q] \in AfterLoop /\ pc'[q] \in AfterLoop
    BY <1>1, <1>4 DEF CommitRun, ScheduleRun, StartTask, CommitRunning, Announce,
                      RunnerFails, At, TypeOK, BeforeLoop, AfterLoop, database, locals
  <2>2. QED
    BY <1>1, <2>1, RestingKeepsBooks
<1>5. ASSUME TaskStep(q) PROVE RowsOK(q)' /\ BooksOK(q)'
  BY <1>1, <1>4, <1>5, PersistKeepsBooks, PublishKeepsBooks, WorkKeepsBooks,
     BeginKeepsBooks, FinalKeepsBooks DEF TaskStep
<1>6. ASSUME \/ \E c \in Cancels : CancelStep(c) \/ CancelFails(c)
             \/ Restart \/ UNCHANGED vars
      PROVE  RowsOK(q)' /\ BooksOK(q)'
  <2>1. /\ UNCHANGED <<steps, result, seq, cur, plan, spent, metered, total>>
        /\ pc'[q] \in {pc[q], "crashed"}
    BY <1>6 DEF CancelStep, CancelLoad, CancelRefuse, CancelSignal, CancelCommit,
                CancelFails, Restart, vars, database, task, locals
  <2>2. QED
    BY <1>1, <2>1, RestingKeepsBooks
<1>7. QED
  BY <1>3, <1>4, <1>5, <1>6 DEF Next, Quiescent

\* The inductive invariant: what was consumed is counted, saved and totalled once, and
\* the local step is one move ahead of its row (runner.py:141-241, 262-339).
THEOREM RecordsInvariance == Spec => []RecordsInv
<1>1. Init => RecordsInv
  BY UsageOfNothing, ToolsAssumption
  DEF Init, RecordsInv, RecordsOK, RowsOK, BooksOK, StatusOK, BeforeLoop, InLoop, AfterLoop
<1>2. QED
  BY <1>1, RecordsStep, Invariance, EventsInvariance, PTL DEF Spec

\* The totals of a finished run, its step rows and the counters agree, whatever
\* retries, failures and restarts came before.
THEOREM BooksBalance == Spec => []UsageAgrees
<1>1. RecordsInv => UsageAgrees
  BY DEF RecordsInv, RecordsOK, BooksOK, UsageAgrees
<1>2. QED
  BY <1>1, RecordsInvariance, PTL

-----------------------------------------------------------------------------
(***************************************************************************)
(* The service writes to the tables what RunTable allows.                  *)
(***************************************************************************)
\* The tables as RunTable sees them: the rows that the instance Table is given.
View == [r \in Runs |-> [k \in 1..Len(steps[r]) |-> ReadableRow(r, k)]]

\* RunTable has the vocabulary of RunTypes too.
LEMMA TableConstants ==
  Table!StepType = StepType /\ Table!Fallible = Fallible
BY DEF Table!StepType, StepType, Table!Fallible, Fallible

LEMMA TableUsage ==
  ASSUME NEW rows
  PROVE  Table!UsageOf(rows) = UsageOf(rows)
BY DEF Table!UsageOf, UsageOf

\* What has to be shown of a step of the service for it to be each of the changes that
\* RunTable allows, or none.
LEMMA TableStutter ==
  ASSUME UNCHANGED <<status, result, total, View>>
  PROVE  UNCHANGED Table!tables
BY DEF Table!tables, View, ReadableRow

LEMMA TableInsert ==
  ASSUME NEW r \in Runs, status[r] = "none", status' = [status EXCEPT ![r] = "queued"],
         UNCHANGED <<result, total, View>>
  PROVE  Table!InsertRun(r)
BY DEF Table!InsertRun, View

LEMMA TableSet ==
  ASSUME NEW r \in Runs, status[r] # "none", NEW s \in {"running", "cancelling"},
         status' = [status EXCEPT ![r] = s], s = "running" => result[r] = "none",
         UNCHANGED <<result, total, View>>
  PROVE  Table!SetStatus(r)
BY DEF Table!SetStatus, Table!Existing, View

LEMMA TableAdd ==
  ASSUME NEW r \in Runs, status[r] \notin {"none", "queued"}, result[r] = "none",
         Len(View[r]) < MaxTools + 3,
         \A k \in 1..Len(View[r]) : View[r][k].status = "succeeded",
         NEW t \in StepType, View[r] = <<>> => t = "model_call",
         View' = [View EXCEPT ![r] = Append(@, [type |-> t, status |-> "running", usage |-> 0])],
         UNCHANGED <<status, result, total>>
  PROVE  Table!AddStep(r)
BY TableConstants DEF Table!AddStep, Table!Existing, View

LEMMA TableMove ==
  ASSUME NEW r \in Runs, result[r] = "none", Len(View[r]) > 0,
         View[r][Len(View[r])].type \in Fallible,
         NEW move \in Table!StepMoves,
         View[r][Len(View[r])].status = move[1],
         View' = [View EXCEPT ![r][Len(View[r])].status = move[2]],
         UNCHANGED <<status, result, total>>
  PROVE  Table!ChangeStep(r)
<1>1. View[r][Len(View[r])].type \in Table!Fallible
  BY TableConstants
<1>2. QED
  BY <1>1, Zenon DEF Table!ChangeStep, View

LEMMA TableSucceed ==
  ASSUME NEW r \in Runs, result[r] = "none", Len(View[r]) > 0,
         View[r][Len(View[r])].status = "running", NEW u \in Usage,
         View' = [View EXCEPT ![r][Len(View[r])].status = "succeeded",
                              ![r][Len(View[r])].usage = u],
         UNCHANGED <<status, result, total>>
  PROVE  Table!ChangeStep(r)
BY TableConstants, Zenon DEF Table!ChangeStep, View

LEMMA TableFinish ==
  ASSUME NEW r \in Runs, status[r] \notin {"none", "queued"}, result[r] = "none",
         NEW v \in Table!Verdicts(View[r]),
         result' = [result EXCEPT ![r] = v],
         status' = [status EXCEPT ![r] = v],
         total' = [total EXCEPT ![r] = Table!UsageOf(View[r])],
         UNCHANGED View
  PROVE  Table!FinishRun(r)
BY DEF Table!FinishRun, Table!Existing, View

\* The rows of a run as their readers see them, given its plan.
AsRead(t, s) == [type |-> t, status |-> s.status, usage |-> s.usage]

ReadableRows(p, rows) == [k \in 1..Len(rows) |-> AsRead(p[k], rows[k])]

ReadableType == [type: StepType, status: StepStatus, usage: Nat]

\* They are well-formed.
LEMMA ReadableTyped ==
  ASSUME NEW p \in Seq(StepType), NEW rows \in Seq(StepRow), Len(rows) <= Len(p)
  PROVE  /\ ReadableRows(p, rows) \in Seq(ReadableType)
         /\ Len(ReadableRows(p, rows)) = Len(rows)
         /\ \A k \in 1..Len(rows) :
              ReadableRows(p, rows)[k] = AsRead(p[k], rows[k])
<1>1. Len(rows) \in Nat /\ Len(p) \in Nat
  BY LenProperties
<1>2. \A k \in 1..Len(rows) : AsRead(p[k], rows[k]) \in ReadableType
  BY <1>1, ElementOfSeq, StepFields DEF ReadableType, AsRead
<1>3. ReadableRows(p, rows) \in Seq(ReadableType)
  BY <1>1, <1>2, IsASeq DEF ReadableRows
<1>4. QED
  BY <1>1, <1>3, LenProperties DEF ReadableRows

\* A row added to the table of steps is a row added for its readers.
LEMMA ReadableAppend ==
  ASSUME NEW p \in Seq(StepType), NEW rows \in Seq(StepRow), Len(rows) < Len(p),
         NEW s \in StepRow
  PROVE  ReadableRows(p, Append(rows, s))
           = Append(ReadableRows(p, rows), AsRead(p[Len(rows) + 1], s))
<1> DEFINE e == AsRead(p[Len(rows) + 1], s)
           after == Append(rows, s)
<1>1. Len(rows) \in Nat /\ Len(p) \in Nat /\ Len(rows) <= Len(p)
  BY LenProperties
<1>2. e \in ReadableType
  BY <1>1, ElementOfSeq, StepFields DEF ReadableType, AsRead
<1>3. /\ after \in Seq(StepRow) /\ Len(after) = Len(rows) + 1
      /\ \A i \in 1..Len(rows) : after[i] = rows[i]
      /\ after[Len(rows) + 1] = s
  BY AppendProperties
<1>4. Len(after) <= Len(p)
  BY <1>1, <1>3
<1> HIDE DEF after, e
<1>5. /\ ReadableRows(p, after) \in Seq(ReadableType)
      /\ Len(ReadableRows(p, after)) = Len(rows) + 1
      /\ \A k \in 1..(Len(rows) + 1) :
           ReadableRows(p, after)[k] = AsRead(p[k], after[k])
  BY <1>3, <1>4, ReadableTyped
<1>6. /\ ReadableRows(p, rows) \in Seq(ReadableType)
      /\ Len(ReadableRows(p, rows)) = Len(rows)
      /\ \A k \in 1..Len(rows) :
           ReadableRows(p, rows)[k] = AsRead(p[k], rows[k])
  BY <1>1, ReadableTyped
<1>7. /\ Append(ReadableRows(p, rows), e) \in Seq(ReadableType)
      /\ Len(Append(ReadableRows(p, rows), e)) = Len(rows) + 1
      /\ \A i \in 1..Len(rows) :
           Append(ReadableRows(p, rows), e)[i] = ReadableRows(p, rows)[i]
      /\ Append(ReadableRows(p, rows), e)[Len(rows) + 1] = e
  BY <1>2, <1>6, AppendProperties
<1>8. \A k \in 1..(Len(rows) + 1) :
        ReadableRows(p, after)[k] = Append(ReadableRows(p, rows), e)[k]
  <2>1. ASSUME NEW k \in 1..Len(rows)
        PROVE  ReadableRows(p, after)[k] = Append(ReadableRows(p, rows), e)[k]
    <3>1. k \in 1..(Len(rows) + 1)
      BY <1>1
    <3>2. ReadableRows(p, after)[k] = AsRead(p[k], after[k])
      BY <3>1, <1>5
    <3>3. after[k] = rows[k]
      BY <1>3
    <3>4. ReadableRows(p, rows)[k] = AsRead(p[k], rows[k])
      BY <1>6
    <3>5. Append(ReadableRows(p, rows), e)[k] = ReadableRows(p, rows)[k]
      BY <1>7
    <3>6. QED
      BY <3>2, <3>3, <3>4, <3>5, Zenon
  <2>2. ReadableRows(p, after)[Len(rows) + 1] = e
    BY <1>1, <1>3, <1>5 DEF e
  <2>3. QED
    BY <1>1, <1>7, <2>1, <2>2
<1>9. ReadableRows(p, after) = Append(ReadableRows(p, rows), e)
  BY <1>5, <1>7, <1>8, SeqEqual
<1>10. QED
  BY <1>9 DEF after, e

\* What a reader sees of a row that has moved on.
LEMMA ReadableSuccess ==
  ASSUME NEW t, NEW s, NEW u
  PROVE  [AsRead(t, s) EXCEPT !.status = "succeeded", !.usage = u]
           = [type |-> t, status |-> "succeeded", usage |-> u]
<1>1. [AsRead(t, s) EXCEPT !.status = "succeeded"]
        = [type |-> t, status |-> "succeeded", usage |-> s.usage]
  BY DEF AsRead
<1>2. [[type |-> t, status |-> "succeeded", usage |-> s.usage] EXCEPT !.usage = u]
        = [type |-> t, status |-> "succeeded", usage |-> u]
  OBVIOUS
<1>3. QED
  BY <1>1, <1>2, Zenon

LEMMA ReadableMove ==
  ASSUME NEW t, NEW s, NEW r, r.usage = s.usage
  PROVE  [AsRead(t, s) EXCEPT !.status = r.status] = AsRead(t, r)
BY DEF AsRead

\* What the instance makes of the rows.
LEMMA ViewIsReadable ==
  /\ View = [r \in Runs |-> ReadableRows(plan[r], steps[r])]
  /\ View' = [r \in Runs |-> ReadableRows(plan'[r], steps'[r])]
BY DEF View, ReadableRow, ReadableRows, AsRead

\* A step that leaves the rows and the plans alone leaves their readers' view alone.
LEMMA ViewKept ==
  ASSUME UNCHANGED <<steps, plan>>
  PROVE  View' = View
BY DEF View, ReadableRow

\* The view of a run, and that every row has its type in the plan.
LEMMA ViewTyped ==
  ASSUME IInv, NEW r \in Runs
  PROVE  /\ plan[r] \in Seq(StepType) /\ Len(plan[r]) \in Nat
         /\ Len(steps[r]) <= Len(plan[r])
         /\ View[r] \in Seq(ReadableType) /\ Len(View[r]) = Len(steps[r])
         /\ \A k \in 1..Len(steps[r]) :
              View[r][k] = AsRead(plan[r][k], steps[r][k])
<1>1. /\ plan[r] \in Seq(StepType) /\ Len(plan[r]) \in Nat
      /\ steps[r] \in Seq(StepRow) /\ Len(steps[r]) \in Nat /\ seq[r] \in Nat
      /\ Len(steps[r]) <= seq[r] /\ seq[r] <= Len(plan[r])
  BY LenProperties DEF IInv, TypeOK, RowsInv
<1>2. Len(steps[r]) <= Len(plan[r]) /\ View[r] = ReadableRows(plan[r], steps[r])
  BY <1>1, ViewIsReadable
<1>3. QED
  BY <1>1, <1>2, ReadableTyped

\* A saved step is a row added to the table, or a move of the last one.
LEMMA PersistWrites ==
  ASSUME IInv, NEW r \in Runs, EventsOK(r), RecordsOK(r), PersistStep(r)
  PROVE  Table!AddStep(r) \/ Table!ChangeStep(r)
<1> DEFINE rows == steps[r]
           n == seq[r]
<1>1. /\ pc[r] = "persist"
      /\ steps' = [steps EXCEPT ![r] = IF n > Len(rows) THEN Append(rows, cur[r])
                                       ELSE [rows EXCEPT ![n] = cur[r]]]
      /\ UNCHANGED <<status, result, total, plan>>
  BY DEF PersistStep, At, Persist, locals
<1>2. /\ cur[r] \in StepRow /\ n \in Nat \ {0} /\ rows \in Seq(StepRow)
      /\ Len(rows) \in Nat /\ result[r] = "none"
      /\ n <= Len(rows) + 1 /\ Len(rows) <= n /\ n <= Len(plan[r])
      /\ \A i \in 1..Len(rows) : i < n => rows[i].status = "succeeded"
  BY <1>1, InTheLoop DEF InLoop, IInv, RowsInv
<1>3. /\ status[r] \notin {"none", "queued"} /\ Len(plan[r]) <= MaxTools + 3
      /\ plan[r] # <<>> => plan[r][1] = "model_call"
  BY <1>1 DEF RecordsOK, StatusOK, InLoop
<1>4. /\ plan[r] \in Seq(StepType) /\ Len(plan[r]) \in Nat
      /\ View[r] \in Seq(ReadableType) /\ Len(View[r]) = Len(rows)
      /\ \A k \in 1..Len(rows) :
           View[r][k] = AsRead(plan[r][k], rows[k])
  BY ViewTyped
<1>5. View' = [View EXCEPT ![r] = ReadableRows(plan[r], steps'[r])]
  BY <1>1, ViewIsReadable DEF IInv, TypeOK
<1>6. View[r] = ReadableRows(plan[r], rows)
  BY ViewIsReadable
<1>7. RowFits(r, n, cur[r])
  BY <1>1 DEF RecordsOK, RowsOK, InLoop
<1>8. CASE n > Len(rows)
  <2>1. /\ n = Len(rows) + 1 /\ Len(rows) < Len(plan[r])
        /\ steps'[r] = Append(rows, cur[r])
    BY <1>1, <1>2, <1>4, <1>8 DEF IInv, TypeOK
  <2>2. cur[r].status = "running" /\ cur[r].usage = 0
    BY <1>1, <1>2, <1>7, <1>8 DEF RecordsOK, RowsOK, RowFits
  <2>3. View' = [View EXCEPT ![r] = Append(@, [type |-> plan[r][n], status |-> "running",
                                               usage |-> 0])]
    <3>1. ReadableRows(plan[r], steps'[r])
            = Append(ReadableRows(plan[r], rows), AsRead(plan[r][n], cur[r]))
      BY <1>2, <1>4, <2>1, ReadableAppend
    <3>2. AsRead(plan[r][n], cur[r])
            = [type |-> plan[r][n], status |-> "running", usage |-> 0]
      BY <2>2 DEF AsRead
    <3>3. QED
      BY <1>5, <1>6, <3>1, <3>2, Zenon
  <2>4. plan[r][n] \in StepType /\ (View[r] = <<>> => plan[r][n] = "model_call")
    <3>1. plan[r][n] \in StepType /\ plan[r] # <<>>
      BY <1>2, <1>4, ElementOfSeq, EmptySeq
    <3>2. View[r] = <<>> => n = 1
      BY <1>4, <2>1, EmptySeq
    <3>3. QED
      BY <1>3, <3>1, <3>2
  <2>5. Len(View[r]) < MaxTools + 3
    BY <1>2, <1>3, <1>4, <2>1, ToolsAssumption
  <2>6. \A k \in 1..Len(View[r]) : View[r][k].status = "succeeded"
    <3>1. ASSUME NEW k \in 1..Len(rows) PROVE View[r][k].status = "succeeded"
      <4>1. rows[k].status = "succeeded"
        BY <1>2, <2>1
      <4>2. View[r][k] = AsRead(plan[r][k], rows[k])
        BY <1>4
      <4>3. QED
        BY <4>1, <4>2 DEF AsRead
    <3>2. QED
      BY <1>4, <3>1
  <2>7. Table!AddStep(r)
    BY <1>1, <1>2, <1>3, <2>3, <2>4, <2>5, <2>6, TableAdd
  <2>8. QED
    BY <2>7
<1>9. CASE n = Len(rows)
  <2>1. /\ Len(View[r]) = n /\ n > 0 /\ steps'[r] = [rows EXCEPT ![n] = cur[r]]
        /\ Len(rows) <= Len(plan[r])
    BY <1>1, <1>2, <1>4, <1>9 DEF IInv, TypeOK
  <2>2. View' = [View EXCEPT ![r] = [@ EXCEPT ![n] = AsRead(plan[r][n], cur[r])]]
    <3>1. /\ n \in 1..Len(rows) /\ Len(steps'[r]) = Len(rows) /\ steps'[r][n] = cur[r]
          /\ \A j \in 1..Len(rows) : j # n => steps'[r][j] = rows[j]
      BY <1>2, <1>9, <2>1, ExceptSeq
    <3>2. ReadableRows(plan[r], steps'[r])
            = [ReadableRows(plan[r], rows) EXCEPT ![n] = AsRead(plan[r][n], cur[r])]
      <4>1. ReadableRows(plan[r], steps'[r])
              = [ReadableRows(plan[r], rows) EXCEPT ![n] = AsRead(plan[r][n], steps'[r][n])]
        BY <3>1 DEF ReadableRows
      <4>2. QED
        BY <3>1, <4>1
    <3>3. QED
      BY <1>5, <1>6, <3>2, Zenon
  <2>3. /\ Moved(rows[n].status, cur[r].status) /\ RowFits(r, n, rows[n])
    BY <1>1, <1>2, <1>9 DEF RecordsOK, RowsOK
  <2>4. View[r][n] = AsRead(plan[r][n], rows[n])
    BY <1>2, <1>4, <1>9
  <2>5. CASE cur[r].status = "succeeded"
    <3>1. rows[n].status = "running" /\ cur[r].usage \in Usage
      BY <1>7, <2>3, <2>5 DEF Moved, RowFits
    <3>2. [View[r][n] EXCEPT !.status = "succeeded", !.usage = cur[r].usage]
            = AsRead(plan[r][n], cur[r])
      <4>1. [AsRead(plan[r][n], rows[n]) EXCEPT !.status = "succeeded", !.usage = cur[r].usage]
              = [type |-> plan[r][n], status |-> "succeeded", usage |-> cur[r].usage]
        BY ReadableSuccess
      <4>2. AsRead(plan[r][n], cur[r])
              = [type |-> plan[r][n], status |-> "succeeded", usage |-> cur[r].usage]
        BY <2>5 DEF AsRead
      <4>3. QED
        BY <2>4, <4>1, <4>2, Zenon
    <3>3. View' = [View EXCEPT ![r][Len(View[r])].status = "succeeded",
                               ![r][Len(View[r])].usage = cur[r].usage]
      BY <2>1, <2>2, <3>2
    <3>4. Table!ChangeStep(r)
      <4>1. View[r][Len(View[r])].status = "running" /\ Len(View[r]) > 0
        BY <2>1, <2>4, <3>1 DEF AsRead
      <4>2. QED
        BY <1>1, <1>2, <3>1, <3>3, <4>1, TableSucceed
    <3>5. QED
      BY <3>4
  <2>6. CASE cur[r].status # "succeeded"
    <3>1. /\ <<rows[n].status, cur[r].status>> \in Table!StepMoves
          /\ plan[r][n] \in Fallible /\ cur[r].usage = 0 /\ rows[n].usage = 0
      BY <1>7, <2>3, <2>6 DEF Moved, RowFits, Table!StepMoves
    <3>2. [View[r][n] EXCEPT !.status = cur[r].status] = AsRead(plan[r][n], cur[r])
      BY <2>4, <3>1, ReadableMove
    <3>3. View' = [View EXCEPT ![r][Len(View[r])].status = cur[r].status]
      BY <2>1, <2>2, <3>2
    <3>4. Table!ChangeStep(r)
      <4>1. /\ View[r][Len(View[r])].type \in Fallible /\ Len(View[r]) > 0
            /\ View[r][Len(View[r])].status = rows[n].status
        BY <2>1, <2>4, <3>1 DEF AsRead
      <4>2. PICK move \in Table!StepMoves :
              move[1] = rows[n].status /\ move[2] = cur[r].status
        BY <3>1
      <4>3. QED
        BY <1>1, <1>2, <3>3, <4>1, <4>2, TableMove
    <3>5. QED
      BY <3>4
  <2>7. QED
    BY <2>5, <2>6
<1>10. QED
  BY <1>2, <1>8, <1>9

\* The last commit of the task finishes the run in the table: the verdict is one the
\* rows allow, and the totals are those of the rows.
LEMMA FinalWrites ==
  ASSUME IInv, NEW r \in Runs, RecordsOK(r), CommitFinal(r)
  PROVE  Table!FinishRun(r)
<1> DEFINE rows == steps[r]
<1>1. /\ pc[r] = "set_final" /\ UNCHANGED <<steps, plan>>
      /\ status' = [status EXCEPT ![r] = outcome[r]]
      /\ result' = [result EXCEPT ![r] = outcome[r]]
      /\ total' = [total EXCEPT ![r] = spent[r]]
  BY DEF CommitFinal, At, locals
<1>2. /\ result[r] = "none" /\ outcome[r] \in TerminalStatus
      /\ status[r] \notin {"none", "queued"} /\ spent[r] = UsageOf(rows)
  BY <1>1 DEF IInv, StageInv, RecordsOK, StatusOK, BooksOK, AfterLoop
<1>3. /\ View[r] \in Seq(ReadableType) /\ Len(View[r]) = Len(rows)
      /\ Len(rows) \in Nat
      /\ \A k \in 1..Len(rows) : View[r][k] = AsRead(plan[r][k], rows[k])
  BY ViewTyped, SavedTyped DEF IInv
<1>4. \A t : \A s : AsRead(t, s).usage = s.usage /\ AsRead(t, s).status = s.status
  BY DEF AsRead
<1>5. spent[r] = Table!UsageOf(View[r])
  <2>1. \A k \in 1..Len(rows) : rows[k].usage = View[r][k].usage
    BY <1>3, <1>4
  <2>2. UsageOf(rows) = UsageOf(View[r])
    BY <1>3, <2>1, UsageDependsOnUsage
  <2>3. QED
    BY <1>2, <2>2, TableUsage
<1>6. outcome[r] \in Table!Verdicts(View[r])
  <2>1. /\ outcome[r] = "succeeded" => Len(rows) > 0 /\ rows[Len(rows)].status = "succeeded"
        /\ outcome[r] = "failed" => Len(rows) > 0 /\ rows[Len(rows)].status = "failed"
        /\ outcome[r] = "cancelled" /\ Len(rows) > 0 => rows[Len(rows)].status = "succeeded"
    BY DEF IInv, OutcomeInv
  <2>2. Len(rows) > 0 => View[r][Len(rows)].status = rows[Len(rows)].status
    BY <1>3, <1>4
  <2>3. View[r] = <<>> <=> ~ (Len(rows) > 0)
    BY <1>3, EmptySeq
  <2>4. QED
    BY <1>2, <1>3, <2>1, <2>2, <2>3 DEF TerminalStatus, Table!Verdicts, Table!Last
<1>7. QED
  BY <1>1, <1>2, <1>5, <1>6, ViewKept, TableFinish

\* Every step of the service writes to the tables what RunTable allows, or nothing.
LEMMA StepWrites ==
  ASSUME IInv, EventsInv, RecordsInv, [Next]_vars
  PROVE  [Table!TableNext]_(Table!tables)
<1> USE DEF At, CancelGoto, database, task, locals, requests
<1>1. SUFFICES (\E r \in Runs : Table!WriteRun(r)) \/ UNCHANGED Table!tables
  BY DEF Table!TableNext
<1>2. ASSUME NEW r \in Runs,
             \/ ScheduleRun(r) \/ StartTask(r) \/ PublishStarted(r)
             \/ PublishFailedAndRetry(r) \/ PublishFailedForGood(r)
             \/ PublishRetrying(r) \/ PublishSucceeded(r) \/ StepFails(r)
             \/ StepSucceeds(r) \/ Retry(r) \/ Announce(r) \/ RunnerFails(r)
      PROVE  UNCHANGED Table!tables
  <2>1. UNCHANGED <<status, result, total, steps, plan>>
    BY <1>2 DEF ScheduleRun, StartTask, PublishStarted, PublishFailedAndRetry,
                PublishFailedForGood, PublishRetrying, PublishSucceeded, StepFails,
                StepSucceeds, Retry, Announce, RunnerFails
  <2>2. QED
    BY <2>1, ViewKept, TableStutter
<1>3. ASSUME NEW c \in Cancels,
             CancelLoad(c) \/ CancelRefuse(c) \/ CancelSignal(c) \/ CancelFails(c)
      PROVE  UNCHANGED Table!tables
  <2>1. UNCHANGED <<status, result, total, steps, plan>>
    BY <1>3 DEF CancelLoad, CancelRefuse, CancelSignal, CancelFails
  <2>2. QED
    BY <2>1, ViewKept, TableStutter
<1>4. ASSUME Restart \/ UNCHANGED vars
      PROVE  UNCHANGED Table!tables
  <2>1. UNCHANGED <<status, result, total, steps, plan>>
    BY <1>4 DEF Restart, vars
  <2>2. QED
    BY <2>1, ViewKept, TableStutter
<1>5. ASSUME NEW r \in Runs, CommitRun(r) PROVE Table!WriteRun(r)
  <2>1. /\ status[r] = "none" /\ status' = [status EXCEPT ![r] = "queued"]
        /\ UNCHANGED <<result, total, steps, plan>>
    BY <1>5 DEF CommitRun, IInv, StageInv
  <2>2. QED
    BY <2>1, ViewKept, TableInsert DEF Table!WriteRun
<1>6. ASSUME NEW r \in Runs, CommitRunning(r) PROVE Table!WriteRun(r)
  <2>1. /\ status[r] # "none" /\ result[r] = "none"
        /\ status' = [status EXCEPT ![r] = "running"]
        /\ UNCHANGED <<result, total, steps, plan>>
    BY <1>6 DEF CommitRunning, IInv, StageInv, BeforeLoop, RecordsInv, RecordsOK, StatusOK
  <2>2. QED
    BY <2>1, ViewKept, TableSet DEF Table!WriteRun
<1>7. ASSUME NEW r \in Runs, BeginPlan(r) PROVE UNCHANGED Table!tables
  <2>1. /\ steps[r] = <<>> /\ UNCHANGED <<status, result, total, steps>>
        /\ \A q \in Runs \ {r} : plan'[q] = plan[q]
    BY <1>7 DEF BeginPlan, IInv, TypeOK, StageInv, BeforeLoop
  <2>2. \A q \in Runs : ReadableRows(plan'[q], steps'[q]) = ReadableRows(plan[q], steps[q])
    <3>1. Len(steps[r]) = 0
      BY <2>1
    <3>2. ReadableRows(plan'[r], steps'[r]) = ReadableRows(plan[r], steps[r])
      BY <2>1, <3>1 DEF ReadableRows
    <3>3. QED
      BY <2>1, <3>2
  <2>3. View' = View
    BY <2>2, ViewIsReadable
  <2>4. QED
    BY <2>1, <2>3, TableStutter
<1>8. ASSUME NEW r \in Runs, PersistStep(r) PROVE Table!WriteRun(r)
  BY <1>8, PersistWrites DEF EventsInv, RecordsInv, Table!WriteRun
<1>9. ASSUME NEW r \in Runs, CommitFinal(r) PROVE Table!WriteRun(r)
  BY <1>9, FinalWrites DEF RecordsInv, Table!WriteRun
<1>10. ASSUME NEW c \in Cancels, CancelCommit(c)
       PROVE  (\E r \in Runs : Table!WriteRun(r)) \/ UNCHANGED Table!tables
  <2> DEFINE r == crun[c]
  <2>1. r \in Runs /\ UNCHANGED <<result, total, steps, plan>>
    BY <1>10 DEF CancelCommit, IInv, TypeOK
  <2>2. CASE cloaded[c] = "cancelling"
    BY <1>10, <2>1, <2>2, ViewKept, TableStutter DEF CancelCommit
  <2>3. CASE cloaded[c] # "cancelling"
    <3>1. status[r] # "none"
      BY <1>10, <2>1 DEF CancelCommit, IInv, StageInv, RecordsInv, RecordsOK, StatusOK
    <3>2. status' = [status EXCEPT ![r] = "cancelling"]
      BY <1>10, <2>3 DEF CancelCommit
    <3>3. Table!SetStatus(r)
      BY <2>1, <3>1, <3>2, ViewKept, TableSet
    <3>4. QED
      BY <2>1, <3>3 DEF Table!WriteRun
  <2>4. QED
    BY <2>2, <2>3
<1>11. QED
  BY StepCases, <1>2, <1>3, <1>4, <1>5, <1>6, <1>7, <1>8, <1>9, <1>10

\* The task, the cancels and the failures write to the tables no more than a reader
\* may rely on (RunTable): rows grow one step at a time, usage appears once, and the
\* result comes last and all at once, with the totals of the rows.
THEOREM TableRefinement == Spec => ImplementsRunTable
<1>1. Init => Table!TableInit
  BY DEF Init, Table!TableInit, ReadableRow
<1>2. IInv /\ EventsInv /\ RecordsInv /\ [Next]_vars => [Table!TableNext]_(Table!tables)
  BY StepWrites
<1>3. QED
  BY <1>1, <1>2, Invariance, EventsInvariance, RecordsInvariance, PTL
  DEF Spec, Table!TableSpec, ImplementsRunTable
=============================================================================
