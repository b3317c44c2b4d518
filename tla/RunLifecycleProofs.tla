------------------------ MODULE RunLifecycleProofs ------------------------
(***************************************************************************)
(* Proofs about RunLifecycle, for any runs, cancels, plans, retries and    *)
(* any number of failures.  The inductive invariant IInv has six parts; a  *)
(* lemma shows for each part that every action keeps it, given all six.    *)
(***************************************************************************)
EXTENDS RunLifecycleProperties, TLAPS, SequenceTheorems

\* Every plan is a sequence of steps, and has one.
LEMMA PlanOfTyped ==
  ASSUME NEW n \in 1..MaxTools, NEW b \in BOOLEAN
  PROVE  PlanOf(n, b) \in Seq(StepType) /\ Len(PlanOf(n, b)) \in Nat \ {0}
<1> DEFINE first == <<"model_call">>
           tools == [i \in 1..n |-> "tool_call"]
           sub   == IF b THEN <<"sub_agent">> ELSE <<>>
<1>1. first \in Seq(StepType) /\ Len(first) = 1
  BY DEF StepType
<1>2. tools \in Seq(StepType)
  <2>1. n \in Nat
    BY ToolsAssumption
  <2>2. \A i \in 1..n : "tool_call" \in StepType
    BY DEF StepType
  <2>3. QED
    BY <2>1, <2>2, IsASeq
<1>3. sub \in Seq(StepType)
  <2>1. <<"sub_agent">> \in Seq(StepType)
    BY DEF StepType
  <2>2. <<>> \in Seq(StepType)
    OBVIOUS
  <2>3. QED
    BY <2>1, <2>2
<1> HIDE DEF first, tools, sub
<1>4. first \o tools \in Seq(StepType) /\ Len(first \o tools) > 0
  <2>1. Len(first \o tools) = Len(first) + Len(tools) /\ first \o tools \in Seq(StepType)
    BY <1>1, <1>2, ConcatProperties
  <2>2. QED
    BY <1>1, <1>2, <2>1, LenProperties
<1>5. first \o tools \o sub \in Seq(StepType) /\ Len(first \o tools \o sub) > 0
  BY <1>3, <1>4, ConcatProperties, LenProperties
<1>6. first \o tools \o sub \o first \in Seq(StepType)
      /\ Len(first \o tools \o sub \o first) > 0
  BY <1>1, <1>5, ConcatProperties, LenProperties
<1>7. QED
  BY <1>6, LenProperties DEF PlanOf, first, tools, sub

\* What the runner publishes is an event of the bus.
LEMMA StepEventTyped ==
  ASSUME NEW k \in Nat, NEW s \in StepRow
  PROVE  StepEvent(k, s) \in Event
BY RetriesAssumption DEF StepEvent, StepRow, Event, EventName, EventOf, StepStatus

\* The last message of a run is an event of the bus.
LEMMA CompletedEventTyped ==
  ASSUME NEW v \in TerminalStatus
  PROVE  CompletedEvent(v) \in Event
BY DEF CompletedEvent, Event

\* The fields of a step, and what becomes of them when the runner assigns some.
LEMMA StepFields ==
  ASSUME NEW s \in StepRow
  PROVE  /\ s.status \in StepStatus
         /\ s.attempt \in 1..(MaxRetries + 1)
         /\ s.usage \in Nat
BY DEF StepRow

\* The record built at the start of an attempt is a well-formed row.
LEMMA FreshStepTyped ==
  ASSUME NEW n \in 1..(MaxRetries + 1)
  PROVE  /\ FreshStep(n) \in StepRow
         /\ FreshStep(n).status = "running"
BY RetriesAssumption DEF FreshStep, StepRow, StepStatus

\* Assigning a step status keeps a row well-formed and its attempt.
LEMMA AssignStatus ==
  ASSUME NEW s \in StepRow, NEW x \in StepStatus
  PROVE  /\ [s EXCEPT !.status = x] \in StepRow
         /\ [s EXCEPT !.status = x].status = x
         /\ [s EXCEPT !.status = x].attempt = s.attempt
BY DEF StepRow

\* Assigning what a successful step consumed keeps a row well-formed.
LEMMA AssignUsage ==
  ASSUME NEW s \in StepRow, NEW x \in StepStatus, NEW u \in Nat
  PROVE  /\ [s EXCEPT !.status = x, !.usage = u] \in StepRow
         /\ [s EXCEPT !.status = x, !.usage = u].status = x
         /\ [s EXCEPT !.status = x, !.usage = u].attempt = s.attempt
BY DEF StepRow

\* In the loop the local step is bound.
LEMMA InLoopTyped ==
  ASSUME TypeOK, StageInv, NEW r \in Runs, pc[r] \in InLoop
  PROVE  /\ cur[r] \in StepRow
         /\ seq[r] \in Nat \ {0}
         /\ outcome[r] = "none"
         /\ result[r] = "none"
BY DEF TypeOK, StageInv, InLoop

\* The ways on from one step: a new step, or a verdict.
LEMMA AdvanceTyped ==
  ASSUME TypeOK, NEW r \in Runs, NEW p, NEW k \in Nat, Advance(r, p, k)
  PROVE  /\ pc' \in [Runs -> TaskPc]
         /\ seq' \in [Runs -> Nat]
         /\ cur' \in [Runs -> StepRow \union {NoStep}]
         /\ outcome' \in [Runs -> TerminalStatus \union {"none"}]
<1>1. FreshStep(1) \in StepRow
  BY FreshStepTyped, RetriesAssumption
<1>2. CASE StartStep(r, k)
  BY <1>1, <1>2 DEF StartStep, TypeOK, TaskPc
<1>3. ASSUME NEW v \in TerminalStatus, Decide(r, v)
      PROVE  /\ pc' \in [Runs -> TaskPc]
             /\ seq' \in [Runs -> Nat]
             /\ cur' \in [Runs -> StepRow \union {NoStep}]
             /\ outcome' \in [Runs -> TerminalStatus \union {"none"}]
  BY <1>3 DEF Decide, TypeOK, TaskPc
<1>4. QED
  BY <1>2, <1>3 DEF Advance, TerminalStatus

-----------------------------------------------------------------------------
(***************************************************************************)
(* The inductive invariant.                                                *)
(***************************************************************************)
\* A step of the system is one of its actions, or changes nothing.
LEMMA StepCases ==
  ASSUME [Next]_vars
  PROVE  \/ \E r \in Runs :
              \/ CommitRun(r) \/ ScheduleRun(r) \/ StartTask(r) \/ CommitRunning(r)
              \/ BeginPlan(r) \/ PersistStep(r) \/ PublishStarted(r)
              \/ PublishFailedAndRetry(r) \/ PublishFailedForGood(r)
              \/ PublishRetrying(r) \/ PublishSucceeded(r) \/ StepFails(r)
              \/ StepSucceeds(r) \/ Retry(r) \/ CommitFinal(r) \/ Announce(r)
              \/ RunnerFails(r)
         \/ \E c \in Cancels :
              \/ CancelLoad(c) \/ CancelRefuse(c) \/ CancelSignal(c)
              \/ CancelCommit(c) \/ CancelFails(c)
         \/ Restart
         \/ UNCHANGED vars
BY DEF Next, TaskStep, CancelStep, Quiescent

\* The next attempt of a step.
NextAttempt(r) ==
  /\ pc[r] = "backoff" /\ pc' = [pc EXCEPT ![r] = "persist"]
  /\ cur' = [cur EXCEPT ![r] = FreshStep(@.attempt + 1)]
  /\ UNCHANGED <<database, flag, plan, seq, spent, outcome, metered, published,
                 requests, faults>>

\* A retry is only announced if the loop over the attempts has a round left: its end
\* (runner.py:241, "loop always returns above") is never reached.
LEMMA RetryGoesOn ==
  ASSUME TypeOK, StageInv, RowsInv, NEW r \in Runs, Retry(r)
  PROVE  NextAttempt(r)
<1>1. pc[r] = "backoff"
  BY DEF Retry
<1>2. cur[r] \in StepRow
  BY <1>1, InLoopTyped DEF InLoop
<1>3. cur[r].attempt \in Nat \ {0} /\ cur[r].attempt <= MaxRetries
  BY <1>1, <1>2, StepFields, RetriesAssumption DEF RowsInv, InLoop
<1>4. cur[r].attempt + 1 \in Attempts
  BY <1>3, RetriesAssumption DEF Attempts
<1>5. QED
  BY <1>1, <1>4 DEF Retry, NextAttempt

\* The initial states satisfy every part.
LEMMA InitIInv == Init => IInv
BY RetriesAssumption, FaultsAssumption
DEF Init, IInv, TypeOK, StageInv, RowsInv, OutcomeInv, FlagInv, StatusAgreesWithResult,
    TaskPc, CancelPc, NoStep, BeforeLoop, InLoop, AfterLoop

\* Every step keeps the types: an attempt is never counted past the last retry,
\* and what is published is an event.
LEMMA TypeOKStep ==
  ASSUME IInv, [Next]_vars
  PROVE  TypeOK'
<1>a. TypeOK /\ StageInv /\ RowsInv /\ OutcomeInv /\ FlagInv /\ StatusAgreesWithResult
  BY DEF IInv
<1> USE <1>a, RetriesAssumption, FaultsAssumption
    DEF At, CancelGoto, database, task, locals, requests
<1>1. ASSUME NEW r \in Runs, CommitRun(r) PROVE TypeOK'
  BY <1>1 DEF CommitRun, TypeOK, StageInv, TaskPc, RunStatus
<1>2. ASSUME NEW r \in Runs, ScheduleRun(r) PROVE TypeOK'
  BY <1>2 DEF ScheduleRun, TypeOK, StageInv, TaskPc
<1>3. ASSUME NEW r \in Runs, StartTask(r) PROVE TypeOK'
  BY <1>3 DEF StartTask, TypeOK, StageInv, TaskPc
<1>4. ASSUME NEW r \in Runs, CommitRunning(r) PROVE TypeOK'
  BY <1>4 DEF CommitRunning, TypeOK, StageInv, TaskPc, RunStatus
<1>5. ASSUME NEW r \in Runs, BeginPlan(r) PROVE TypeOK'
  <2>1. PICK n \in 1..MaxTools, b \in BOOLEAN :
          plan' = [plan EXCEPT ![r] = PlanOf(n, b)] /\ Advance(r, PlanOf(n, b), 1)
    BY <1>5 DEF BeginPlan
  <2>2. PlanOf(n, b) \in Seq(StepType)
    BY PlanOfTyped
  <2>3. plan' \in [Runs -> Seq(StepType)]
    BY <2>1, <2>2 DEF TypeOK
  <2>4. /\ pc' \in [Runs -> TaskPc]
        /\ seq' \in [Runs -> Nat]
        /\ cur' \in [Runs -> StepRow \union {NoStep}]
        /\ outcome' \in [Runs -> TerminalStatus \union {"none"}]
    BY <2>1, AdvanceTyped
  <2>5. QED
    BY <1>5, <2>3, <2>4 DEF BeginPlan, TypeOK
<1>6. ASSUME NEW r \in Runs, PersistStep(r) PROVE TypeOK'
  <2>1. cur[r] \in StepRow /\ seq[r] \in Nat \ {0} /\ outcome[r] = "none" /\ result[r] = "none"
    BY <1>6, InLoopTyped DEF PersistStep, Persist, InLoop, At
  <2>2. steps[r] \in Seq(StepRow)
    BY DEF TypeOK
  <2>3. Append(steps[r], cur[r]) \in Seq(StepRow)
    BY <2>1, <2>2, AppendProperties
  <2>4. seq[r] <= Len(steps[r]) => [steps[r] EXCEPT ![seq[r]] = cur[r]] \in Seq(StepRow)
    BY <2>1, <2>2, ExceptSeq, LenProperties
  <2>5. steps' \in [Runs -> Seq(StepRow)]
    BY <1>6, <2>1, <2>2, <2>3, <2>4, LenProperties
    DEF PersistStep, Persist, TypeOK
  <2>6. QED
    BY <1>6, <2>5 DEF PersistStep, TypeOK, TaskPc
<1>7. ASSUME NEW r \in Runs, PublishStarted(r) PROVE TypeOK'
  <2>1. cur[r] \in StepRow /\ seq[r] \in Nat \ {0} /\ outcome[r] = "none" /\ result[r] = "none"
    BY <1>7, InLoopTyped DEF PublishStarted, Publish, InLoop, At
  <2>2. published' \in [Runs -> Seq(Event)]
    BY <1>7, <2>1, StepEventTyped, AppendProperties
    DEF PublishStarted, Publish, TypeOK
  <2>3. QED
    BY <1>7, <2>2 DEF PublishStarted, Publish, TypeOK, TaskPc
<1>8. ASSUME NEW r \in Runs, PublishFailedAndRetry(r) PROVE TypeOK'
  <2>1. cur[r] \in StepRow /\ seq[r] \in Nat \ {0} /\ outcome[r] = "none" /\ result[r] = "none"
    BY <1>8, InLoopTyped DEF PublishFailedAndRetry, Publish, InLoop, At
  <2>2. published' \in [Runs -> Seq(Event)]
    BY <1>8, <2>1, StepEventTyped, AppendProperties
    DEF PublishFailedAndRetry, Publish, TypeOK
  <2>3. [cur[r] EXCEPT !.status = "retrying"] \in StepRow
    BY <2>1, AssignStatus DEF StepStatus
  <2>4. cur' \in [Runs -> StepRow \union {NoStep}]
    BY <1>8, <2>3 DEF PublishFailedAndRetry, TypeOK
  <2>5. QED
    BY <1>8, <2>2, <2>4 DEF PublishFailedAndRetry, TypeOK, TaskPc
<1>9. ASSUME NEW r \in Runs, PublishFailedForGood(r) PROVE TypeOK'
  <2>1. cur[r] \in StepRow /\ seq[r] \in Nat \ {0} /\ outcome[r] = "none" /\ result[r] = "none"
    BY <1>9, InLoopTyped DEF PublishFailedForGood, Publish, InLoop, At
  <2>2. published' \in [Runs -> Seq(Event)]
    BY <1>9, <2>1, StepEventTyped, AppendProperties
    DEF PublishFailedForGood, Publish, TypeOK
  <2>3. spent' \in [Runs -> Nat]
    BY <1>9, <2>1, StepFields DEF PublishFailedForGood, TypeOK
  <2>4. outcome' \in [Runs -> TerminalStatus \union {"none"}]
    BY <1>9 DEF PublishFailedForGood, Decide, TypeOK, TerminalStatus
  <2>5. QED
    BY <1>9, <2>2, <2>3, <2>4 DEF PublishFailedForGood, Decide, TypeOK, TaskPc
<1>10. ASSUME NEW r \in Runs, PublishRetrying(r) PROVE TypeOK'
  <2>1. cur[r] \in StepRow /\ seq[r] \in Nat \ {0} /\ outcome[r] = "none" /\ result[r] = "none"
    BY <1>10, InLoopTyped DEF PublishRetrying, Publish, InLoop, At
  <2>2. published' \in [Runs -> Seq(Event)]
    BY <1>10, <2>1, StepEventTyped, AppendProperties
    DEF PublishRetrying, Publish, TypeOK
  <2>3. QED
    BY <1>10, <2>2 DEF PublishRetrying, Publish, TypeOK, TaskPc
<1>11. ASSUME NEW r \in Runs, PublishSucceeded(r) PROVE TypeOK'
  <2>1. cur[r] \in StepRow /\ seq[r] \in Nat \ {0} /\ outcome[r] = "none" /\ result[r] = "none"
    BY <1>11, InLoopTyped DEF PublishSucceeded, Publish, InLoop, At
  <2>2. published' \in [Runs -> Seq(Event)]
    BY <1>11, <2>1, StepEventTyped, AppendProperties
    DEF PublishSucceeded, Publish, TypeOK
  <2>3. spent' \in [Runs -> Nat]
    BY <1>11, <2>1, StepFields DEF PublishSucceeded, TypeOK
  <2>4. /\ pc' \in [Runs -> TaskPc]
        /\ seq' \in [Runs -> Nat]
        /\ cur' \in [Runs -> StepRow \union {NoStep}]
        /\ outcome' \in [Runs -> TerminalStatus \union {"none"}]
    BY SMTT(30), <1>11, <2>1, AdvanceTyped DEF PublishSucceeded, TypeOK
  <2>5. QED
    BY <1>11, <2>2, <2>3, <2>4 DEF PublishSucceeded, Publish, TypeOK
<1>12. ASSUME NEW r \in Runs, StepFails(r) PROVE TypeOK'
  <2>1. cur[r] \in StepRow /\ seq[r] \in Nat \ {0} /\ outcome[r] = "none" /\ result[r] = "none"
    BY <1>12, InLoopTyped DEF StepFails, At, InLoop, At
  <2>2. [cur[r] EXCEPT !.status = "failed"] \in StepRow
    BY <2>1, AssignStatus DEF StepStatus
  <2>3. cur' \in [Runs -> StepRow \union {NoStep}]
    BY <1>12, <2>2 DEF StepFails, TypeOK
  <2>4. QED
    BY <1>12, <2>3 DEF StepFails, TypeOK, TaskPc
<1>13. ASSUME NEW r \in Runs, StepSucceeds(r) PROVE TypeOK'
  <2>1. cur[r] \in StepRow /\ seq[r] \in Nat \ {0} /\ outcome[r] = "none" /\ result[r] = "none"
    BY <1>13, InLoopTyped DEF StepSucceeds, At, InLoop, At
  <2>2. PICK u \in Usage :
          /\ cur' = [cur EXCEPT ![r].status = "succeeded", ![r].usage = u]
          /\ metered' = [metered EXCEPT ![r] = @ + u]
    BY <1>13 DEF StepSucceeds
  <2>3. u \in Nat
    BY UsageAssumption
  <2>4. [cur[r] EXCEPT !.status = "succeeded", !.usage = u] \in StepRow
    BY <2>1, <2>3, AssignUsage DEF StepStatus
  <2>5. cur' \in [Runs -> StepRow \union {NoStep}]
    BY <2>2, <2>4 DEF TypeOK
  <2>6. metered' \in [Runs -> Nat]
    BY <2>2, <2>3 DEF TypeOK
  <2>7. QED
    BY <1>13, <2>5, <2>6 DEF StepSucceeds, TypeOK, TaskPc
<1>14. ASSUME NEW r \in Runs, Retry(r) PROVE TypeOK'
  <2>0. NextAttempt(r)
    BY <1>14, RetryGoesOn
  <2>1. cur[r] \in StepRow /\ seq[r] \in Nat \ {0} /\ outcome[r] = "none" /\ result[r] = "none"
    BY <2>0, InLoopTyped DEF NextAttempt, At, InLoop, At
  <2>2. cur[r].attempt + 1 \in 1..(MaxRetries + 1)
    BY <2>0, <2>1, StepFields DEF NextAttempt, RowsInv, InLoop
  <2>3. FreshStep(cur[r].attempt + 1) \in StepRow
    BY <2>2, FreshStepTyped
  <2>4. cur' \in [Runs -> StepRow \union {NoStep}]
    BY <2>0, <2>3 DEF NextAttempt, TypeOK
  <2>5. QED
    BY <2>0, <2>4 DEF NextAttempt, TypeOK, TaskPc
<1>15. ASSUME NEW r \in Runs, CommitFinal(r) PROVE TypeOK'
  BY <1>15 DEF CommitFinal, TypeOK, StageInv, TaskPc, RunStatus, AfterLoop
<1>16. ASSUME NEW r \in Runs, Announce(r) PROVE TypeOK'
  <2>1. CompletedEvent(outcome[r]) \in Event
    BY <1>16, CompletedEventTyped DEF Announce, StageInv, AfterLoop
  <2>2. published' \in [Runs -> Seq(Event)]
    BY <1>16, <2>1, AppendProperties DEF Announce, TypeOK
  <2>3. QED
    BY <1>16, <2>2 DEF Announce, TypeOK, TaskPc
<1>17. ASSUME NEW r \in Runs, RunnerFails(r) PROVE TypeOK'
  BY <1>17 DEF RunnerFails, TypeOK, StageInv, TaskPc
<1>18. ASSUME NEW c \in Cancels, CancelLoad(c) PROVE TypeOK'
  BY <1>18 DEF CancelLoad, TypeOK, StageInv, TaskPc, CancelPc
<1>19. ASSUME NEW c \in Cancels, CancelRefuse(c) PROVE TypeOK'
  BY <1>19 DEF CancelRefuse, TypeOK, StageInv, TaskPc, CancelPc
<1>20. ASSUME NEW c \in Cancels, CancelSignal(c) PROVE TypeOK'
  BY <1>20 DEF CancelSignal, TypeOK, StageInv, TaskPc, CancelPc
<1>21. ASSUME NEW c \in Cancels, CancelCommit(c) PROVE TypeOK'
  BY <1>21 DEF CancelCommit, TypeOK, StageInv, TaskPc, RunStatus, CancelPc
<1>22. ASSUME NEW c \in Cancels, CancelFails(c) PROVE TypeOK'
  BY <1>22 DEF CancelFails, TypeOK, StageInv, TaskPc, CancelPc
<1>23. ASSUME Restart PROVE TypeOK'
  BY <1>23 DEF Restart, TypeOK, StageInv, TaskPc, Live, CancelPc
<1>24. ASSUME UNCHANGED vars PROVE TypeOK'
  BY <1>24 DEF vars, TypeOK
<1>25. QED
  BY StepCases, <1>1, <1>2, <1>3, <1>4, <1>5, <1>6, <1>7, <1>8, <1>9, <1>10,
     <1>11, <1>12, <1>13, <1>14, <1>15, <1>16, <1>17, <1>18, <1>19, <1>20,
     <1>21, <1>22, <1>23, <1>24

\* Every step keeps the stages of the task.
LEMMA StageStep ==
  ASSUME IInv, [Next]_vars
  PROVE  StageInv'
<1>a. TypeOK /\ StageInv /\ RowsInv /\ OutcomeInv /\ FlagInv /\ StatusAgreesWithResult
  BY DEF IInv
<1> USE <1>a, RetriesAssumption, FaultsAssumption
    DEF At, CancelGoto, database, task, locals, requests
<1>1. ASSUME NEW r \in Runs, CommitRun(r) PROVE StageInv'
  BY <1>1
  DEF CommitRun, TypeOK, StageInv, TerminalStatus, InLoop, BeforeLoop, AfterLoop
<1>2. ASSUME NEW r \in Runs, ScheduleRun(r) PROVE StageInv'
  BY <1>2
  DEF ScheduleRun, TypeOK, StageInv, TerminalStatus, InLoop, BeforeLoop,
      AfterLoop
<1>3. ASSUME NEW r \in Runs, StartTask(r) PROVE StageInv'
  BY <1>3
  DEF StartTask, TypeOK, StageInv, TerminalStatus, InLoop, BeforeLoop, AfterLoop
<1>4. ASSUME NEW r \in Runs, CommitRunning(r) PROVE StageInv'
  BY <1>4
  DEF CommitRunning, TypeOK, StageInv, TerminalStatus, InLoop, BeforeLoop,
      AfterLoop
<1>5. ASSUME NEW r \in Runs, BeginPlan(r) PROVE StageInv'
  <2>1. PICK n \in 1..MaxTools, b \in BOOLEAN :
          plan' = [plan EXCEPT ![r] = PlanOf(n, b)] /\ Advance(r, PlanOf(n, b), 1)
    BY <1>5 DEF BeginPlan
  <2>2. Len(PlanOf(n, b)) \in Nat \ {0}
    BY PlanOfTyped
  <2>3. FreshStep(1) \in StepRow /\ FreshStep(1).status = "running"
    BY FreshStepTyped
  <2>4. CASE StartStep(r, 1)
    BY <1>5, <2>3, <2>4
    DEF BeginPlan, StartStep, TypeOK, StageInv, BeforeLoop, InLoop, AfterLoop
  <2>5. CASE Decide(r, "cancelled")
    BY SMTT(30), <1>5, <2>5
    DEF BeginPlan, Decide, TypeOK, StageInv, BeforeLoop, InLoop, AfterLoop,
        TerminalStatus
  <2>6. QED
    BY <2>1, <2>2, <2>4, <2>5 DEF Advance
<1>6. ASSUME NEW r \in Runs, PersistStep(r) PROVE StageInv'
  BY <1>6
  DEF PersistStep, Persist, TypeOK, StageInv, TerminalStatus, InLoop,
      BeforeLoop, AfterLoop
<1>7. ASSUME NEW r \in Runs, PublishStarted(r) PROVE StageInv'
  BY <1>7
  DEF PublishStarted, Publish, TypeOK, StageInv, TerminalStatus, InLoop,
      BeforeLoop, AfterLoop
<1>8. ASSUME NEW r \in Runs, PublishFailedAndRetry(r) PROVE StageInv'
  <2>1. cur[r] \in StepRow /\ seq[r] \in Nat \ {0} /\ outcome[r] = "none" /\ result[r] = "none"
    BY <1>8, InLoopTyped DEF PublishFailedAndRetry, Publish, InLoop, At
  <2>2. [cur[r] EXCEPT !.status = "retrying"] \in StepRow
    BY <2>1, AssignStatus DEF StepStatus
  <2>3. QED
    BY <1>8, <2>1, <2>2
    DEF PublishFailedAndRetry, Publish, TypeOK, StageInv, BeforeLoop, InLoop,
        AfterLoop
<1>9. ASSUME NEW r \in Runs, PublishFailedForGood(r) PROVE StageInv'
  BY <1>9
  DEF PublishFailedForGood, Publish, Decide, TypeOK, StageInv, TerminalStatus,
      InLoop, BeforeLoop, AfterLoop
<1>10. ASSUME NEW r \in Runs, PublishRetrying(r) PROVE StageInv'
  BY <1>10
  DEF PublishRetrying, Publish, TypeOK, StageInv, TerminalStatus, InLoop,
      BeforeLoop, AfterLoop
<1>11. ASSUME NEW r \in Runs, PublishSucceeded(r) PROVE StageInv'
  <2>1. cur[r] \in StepRow /\ seq[r] \in Nat \ {0} /\ outcome[r] = "none" /\ result[r] = "none"
    BY <1>11, InLoopTyped DEF PublishSucceeded, Publish, InLoop, At
  <2>2. FreshStep(1) \in StepRow /\ FreshStep(1).status = "running"
    BY FreshStepTyped
  <2>3. CASE StartStep(r, seq[r] + 1)
    BY SMTT(30), <1>11, <2>1, <2>2, <2>3
    DEF PublishSucceeded, Publish, StartStep, TypeOK, StageInv, BeforeLoop,
        InLoop, AfterLoop
  <2>4. ASSUME NEW v \in TerminalStatus, Decide(r, v) PROVE StageInv'
    BY <1>11, <2>1, <2>4
    DEF PublishSucceeded, Publish, Decide, TypeOK, StageInv, BeforeLoop, InLoop,
        AfterLoop
  <2>5. QED
    BY <1>11, <2>3, <2>4 DEF PublishSucceeded, Advance, TerminalStatus
<1>12. ASSUME NEW r \in Runs, StepFails(r) PROVE StageInv'
  <2>1. cur[r] \in StepRow /\ seq[r] \in Nat \ {0} /\ outcome[r] = "none" /\ result[r] = "none"
    BY <1>12, InLoopTyped DEF StepFails, At, InLoop, At
  <2>2. [cur[r] EXCEPT !.status = "failed"] \in StepRow
    BY <2>1, AssignStatus DEF StepStatus
  <2>3. QED
    BY <1>12, <2>1, <2>2
    DEF StepFails, TypeOK, StageInv, BeforeLoop, InLoop, AfterLoop
<1>13. ASSUME NEW r \in Runs, StepSucceeds(r) PROVE StageInv'
  <2>1. cur[r] \in StepRow /\ seq[r] \in Nat \ {0} /\ outcome[r] = "none" /\ result[r] = "none"
    BY <1>13, InLoopTyped DEF StepSucceeds, At, InLoop, At
  <2>2. PICK u \in Usage :
          /\ cur' = [cur EXCEPT ![r].status = "succeeded", ![r].usage = u]
          /\ metered' = [metered EXCEPT ![r] = @ + u]
    BY <1>13 DEF StepSucceeds
  <2>3. u \in Nat
    BY UsageAssumption
  <2>4. [cur[r] EXCEPT !.status = "succeeded", !.usage = u] \in StepRow
    BY <2>1, <2>3, AssignUsage DEF StepStatus
  <2>5. \A q \in Runs : cur[q] \in StepRow => cur'[q] \in StepRow
    BY <2>1, <2>2, <2>4 DEF TypeOK
  <2>6. QED
    BY SMTT(30), <1>13, <2>1, <2>5
    DEF StepSucceeds, TypeOK, StageInv, BeforeLoop, InLoop, AfterLoop
<1>14. ASSUME NEW r \in Runs, Retry(r) PROVE StageInv'
  <2>0. NextAttempt(r)
    BY <1>14, RetryGoesOn
  <2>1. cur[r] \in StepRow /\ seq[r] \in Nat \ {0} /\ outcome[r] = "none" /\ result[r] = "none"
    BY <2>0, InLoopTyped DEF NextAttempt, At, InLoop, At
  <2>2. cur[r].attempt + 1 \in 1..(MaxRetries + 1)
    BY <2>0, <2>1, StepFields DEF NextAttempt, RowsInv, InLoop
  <2>3. FreshStep(cur[r].attempt + 1) \in StepRow
    BY <2>2, FreshStepTyped
  <2>4. QED
    BY <2>0, <2>1, <2>3
    DEF NextAttempt, TypeOK, StageInv, BeforeLoop, InLoop, AfterLoop
<1>15. ASSUME NEW r \in Runs, CommitFinal(r) PROVE StageInv'
  BY <1>15
  DEF CommitFinal, TypeOK, StageInv, TerminalStatus, InLoop, BeforeLoop,
      AfterLoop
<1>16. ASSUME NEW r \in Runs, Announce(r) PROVE StageInv'
  BY <1>16
  DEF Announce, TypeOK, StageInv, TerminalStatus, InLoop, BeforeLoop, AfterLoop
<1>17. ASSUME NEW r \in Runs, RunnerFails(r) PROVE StageInv'
  BY <1>17
  DEF RunnerFails, TypeOK, StageInv, TerminalStatus, InLoop, BeforeLoop,
      AfterLoop
<1>18. ASSUME NEW c \in Cancels, CancelLoad(c) PROVE StageInv'
  BY <1>18
  DEF CancelLoad, TypeOK, StageInv, TerminalStatus, InLoop, BeforeLoop,
      AfterLoop
<1>19. ASSUME NEW c \in Cancels, CancelRefuse(c) PROVE StageInv'
  BY <1>19
  DEF CancelRefuse, TypeOK, StageInv, TerminalStatus, InLoop, BeforeLoop,
      AfterLoop
<1>20. ASSUME NEW c \in Cancels, CancelSignal(c) PROVE StageInv'
  BY <1>20
  DEF CancelSignal, TypeOK, StageInv, TerminalStatus, InLoop, BeforeLoop,
      AfterLoop
<1>21. ASSUME NEW c \in Cancels, CancelCommit(c) PROVE StageInv'
  BY <1>21
  DEF CancelCommit, TypeOK, StageInv, TerminalStatus, InLoop, BeforeLoop,
      AfterLoop
<1>22. ASSUME NEW c \in Cancels, CancelFails(c) PROVE StageInv'
  BY <1>22
  DEF CancelFails, TypeOK, StageInv, TerminalStatus, InLoop, BeforeLoop,
      AfterLoop
<1>23. ASSUME Restart PROVE StageInv'
  BY <1>23
  DEF Restart, TypeOK, StageInv, TerminalStatus, InLoop, BeforeLoop, AfterLoop,
      Live
<1>24. ASSUME UNCHANGED vars PROVE StageInv'
  BY <1>24 DEF vars, StageInv
<1>25. QED
  BY StepCases, <1>1, <1>2, <1>3, <1>4, <1>5, <1>6, <1>7, <1>8, <1>9, <1>10,
     <1>11, <1>12, <1>13, <1>14, <1>15, <1>16, <1>17, <1>18, <1>19, <1>20,
     <1>21, <1>22, <1>23, <1>24

\* Every step keeps the rows in line with the local step.
LEMMA RowsStep ==
  ASSUME IInv, [Next]_vars
  PROVE  RowsInv'
<1>a. TypeOK /\ StageInv /\ RowsInv /\ OutcomeInv /\ FlagInv /\ StatusAgreesWithResult
  BY DEF IInv
<1> USE <1>a, RetriesAssumption, FaultsAssumption
    DEF At, CancelGoto, database, task, locals, requests
<1>1. ASSUME NEW r \in Runs, CommitRun(r) PROVE RowsInv'
  BY <1>1
  DEF CommitRun, TypeOK, StageInv, RowsInv, InLoop, BeforeLoop, AfterLoop,
      TerminalStatus
<1>2. ASSUME NEW r \in Runs, ScheduleRun(r) PROVE RowsInv'
  BY <1>2
  DEF ScheduleRun, TypeOK, StageInv, RowsInv, InLoop, BeforeLoop, AfterLoop,
      TerminalStatus
<1>3. ASSUME NEW r \in Runs, StartTask(r) PROVE RowsInv'
  BY <1>3
  DEF StartTask, TypeOK, StageInv, RowsInv, InLoop, BeforeLoop, AfterLoop,
      TerminalStatus
<1>4. ASSUME NEW r \in Runs, CommitRunning(r) PROVE RowsInv'
  BY <1>4
  DEF CommitRunning, TypeOK, StageInv, RowsInv, InLoop, BeforeLoop, AfterLoop,
      TerminalStatus
<1>5. ASSUME NEW r \in Runs, BeginPlan(r) PROVE RowsInv'
  <2>1. PICK n \in 1..MaxTools, b \in BOOLEAN :
          plan' = [plan EXCEPT ![r] = PlanOf(n, b)] /\ Advance(r, PlanOf(n, b), 1)
    BY <1>5 DEF BeginPlan
  <2>2. Len(PlanOf(n, b)) \in Nat \ {0}
    BY PlanOfTyped
  <2>3. FreshStep(1) \in StepRow /\ FreshStep(1).status = "running"
    BY FreshStepTyped
  <2>4. CASE StartStep(r, 1)
    BY SMTT(30), <1>5, <2>1, <2>2, <2>3, <2>4
    DEF BeginPlan, StartStep, TypeOK, StageInv, RowsInv, BeforeLoop, InLoop,
        AfterLoop
  <2>5. CASE Decide(r, "cancelled")
    BY <1>5, <2>1, <2>2, <2>5
    DEF BeginPlan, Decide, TypeOK, StageInv, RowsInv, BeforeLoop, InLoop,
        AfterLoop
  <2>6. QED
    BY <2>1, <2>2, <2>4, <2>5 DEF Advance
<1>6. ASSUME NEW r \in Runs, PersistStep(r) PROVE RowsInv'
  BY SMTT(30), <1>6
  DEF PersistStep, Persist, TypeOK, StageInv, RowsInv, InLoop, BeforeLoop,
      AfterLoop, TerminalStatus
<1>7. ASSUME NEW r \in Runs, PublishStarted(r) PROVE RowsInv'
  BY <1>7
  DEF PublishStarted, Publish, TypeOK, StageInv, RowsInv, InLoop, BeforeLoop,
      AfterLoop, TerminalStatus
<1>8. ASSUME NEW r \in Runs, PublishFailedAndRetry(r) PROVE RowsInv'
  BY <1>8
  DEF PublishFailedAndRetry, Publish, TypeOK, StageInv, RowsInv, InLoop,
      BeforeLoop, AfterLoop, TerminalStatus
<1>9. ASSUME NEW r \in Runs, PublishFailedForGood(r) PROVE RowsInv'
  BY <1>9
  DEF PublishFailedForGood, Publish, Decide, TypeOK, StageInv, RowsInv, InLoop,
      BeforeLoop, AfterLoop, TerminalStatus
<1>10. ASSUME NEW r \in Runs, PublishRetrying(r) PROVE RowsInv'
  BY <1>10
  DEF PublishRetrying, Publish, TypeOK, StageInv, RowsInv, InLoop, BeforeLoop,
      AfterLoop, TerminalStatus
<1>11. ASSUME NEW r \in Runs, PublishSucceeded(r) PROVE RowsInv'
  <2>1. cur[r] \in StepRow /\ seq[r] \in Nat \ {0} /\ outcome[r] = "none" /\ result[r] = "none"
    BY <1>11, InLoopTyped DEF PublishSucceeded, Publish, InLoop, At
  <2>2. FreshStep(1) \in StepRow /\ FreshStep(1).status = "running"
    BY FreshStepTyped
  <2>3. Len(plan[r]) \in Nat /\ Len(steps[r]) \in Nat
    BY LenProperties DEF TypeOK
  <2>4. CASE seq[r] + 1 \in 1..Len(plan[r]) /\ StartStep(r, seq[r] + 1)
    BY SMTT(30), <1>11, <2>1, <2>2, <2>3, <2>4
    DEF PublishSucceeded, Publish, StartStep, TypeOK, StageInv, RowsInv,
        BeforeLoop, InLoop, AfterLoop
  <2>5. ASSUME NEW v \in TerminalStatus, Decide(r, v) PROVE RowsInv'
    BY <1>11, <2>1, <2>3, <2>5
    DEF PublishSucceeded, Publish, Decide, TypeOK, StageInv, RowsInv,
        BeforeLoop, InLoop, AfterLoop
  <2>6. QED
    BY <1>11, <2>4, <2>5 DEF PublishSucceeded, Advance, TerminalStatus
<1>12. ASSUME NEW r \in Runs, StepFails(r) PROVE RowsInv'
  BY <1>12
  DEF StepFails, TypeOK, StageInv, RowsInv, InLoop, BeforeLoop, AfterLoop,
      TerminalStatus
<1>13. ASSUME NEW r \in Runs, StepSucceeds(r) PROVE RowsInv'
  <2>1. cur[r] \in StepRow /\ seq[r] \in Nat \ {0} /\ outcome[r] = "none" /\ result[r] = "none"
    BY <1>13, InLoopTyped DEF StepSucceeds, At, InLoop, At
  <2>2. PICK u \in Usage :
          /\ cur' = [cur EXCEPT ![r].status = "succeeded", ![r].usage = u]
          /\ metered' = [metered EXCEPT ![r] = @ + u]
    BY <1>13 DEF StepSucceeds
  <2>3. u \in Nat
    BY UsageAssumption
  <2>4. [cur[r] EXCEPT !.status = "succeeded", !.usage = u] \in StepRow
    BY <2>1, <2>3, AssignUsage DEF StepStatus
  <2>5. cur'[r].status = "succeeded" /\ \A q \in Runs \ {r} : cur'[q] = cur[q]
    <3>1. /\ cur'[r] = [cur[r] EXCEPT !.status = "succeeded", !.usage = u]
          /\ \A q \in Runs \ {r} : cur'[q] = cur[q]
      BY <2>2 DEF TypeOK
    <3>2. "succeeded" \in StepStatus
      BY DEF StepStatus
    <3>3. [cur[r] EXCEPT !.status = "succeeded", !.usage = u].status = "succeeded"
      BY <2>1, <2>3, <3>2, AssignUsage
    <3>4. QED
      BY <3>1, <3>3
  <2>6. /\ UNCHANGED <<steps, seq, plan, outcome>>
        /\ pc[r] = "working" /\ pc' = [pc EXCEPT ![r] = "persist"]
    BY <1>13 DEF StepSucceeds
  <2>7. QED
    BY <2>1, <2>5, <2>6 DEF TypeOK, RowsInv, BeforeLoop, InLoop, AfterLoop
<1>14. ASSUME NEW r \in Runs, Retry(r) PROVE RowsInv'
  <2>0. NextAttempt(r)
    BY <1>14, RetryGoesOn
  <2>1. cur[r] \in StepRow /\ seq[r] \in Nat \ {0} /\ outcome[r] = "none" /\ result[r] = "none"
    BY <2>0, InLoopTyped DEF NextAttempt, At, InLoop, At
  <2>2. FreshStep(cur[r].attempt + 1).status = "running"
    BY DEF FreshStep
  <2>3. QED
    BY <2>0, <2>1, <2>2
    DEF NextAttempt, TypeOK, StageInv, RowsInv, BeforeLoop, InLoop, AfterLoop
<1>15. ASSUME NEW r \in Runs, CommitFinal(r) PROVE RowsInv'
  BY <1>15
  DEF CommitFinal, TypeOK, StageInv, RowsInv, InLoop, BeforeLoop, AfterLoop,
      TerminalStatus
<1>16. ASSUME NEW r \in Runs, Announce(r) PROVE RowsInv'
  BY <1>16
  DEF Announce, TypeOK, StageInv, RowsInv, InLoop, BeforeLoop, AfterLoop,
      TerminalStatus
<1>17. ASSUME NEW r \in Runs, RunnerFails(r) PROVE RowsInv'
  BY <1>17
  DEF RunnerFails, TypeOK, StageInv, RowsInv, InLoop, BeforeLoop, AfterLoop,
      TerminalStatus
<1>18. ASSUME NEW c \in Cancels, CancelLoad(c) PROVE RowsInv'
  BY <1>18
  DEF CancelLoad, TypeOK, StageInv, RowsInv, InLoop, BeforeLoop, AfterLoop,
      TerminalStatus
<1>19. ASSUME NEW c \in Cancels, CancelRefuse(c) PROVE RowsInv'
  BY <1>19
  DEF CancelRefuse, TypeOK, StageInv, RowsInv, InLoop, BeforeLoop, AfterLoop,
      TerminalStatus
<1>20. ASSUME NEW c \in Cancels, CancelSignal(c) PROVE RowsInv'
  BY <1>20
  DEF CancelSignal, TypeOK, StageInv, RowsInv, InLoop, BeforeLoop, AfterLoop,
      TerminalStatus
<1>21. ASSUME NEW c \in Cancels, CancelCommit(c) PROVE RowsInv'
  BY <1>21
  DEF CancelCommit, TypeOK, StageInv, RowsInv, InLoop, BeforeLoop, AfterLoop,
      TerminalStatus
<1>22. ASSUME NEW c \in Cancels, CancelFails(c) PROVE RowsInv'
  BY <1>22
  DEF CancelFails, TypeOK, StageInv, RowsInv, InLoop, BeforeLoop, AfterLoop,
      TerminalStatus
<1>23. ASSUME Restart PROVE RowsInv'
  BY <1>23
  DEF Restart, TypeOK, StageInv, RowsInv, InLoop, BeforeLoop, AfterLoop,
      TerminalStatus, Live
<1>24. ASSUME UNCHANGED vars PROVE RowsInv'
  BY <1>24 DEF vars, RowsInv
<1>25. QED
  BY StepCases, <1>1, <1>2, <1>3, <1>4, <1>5, <1>6, <1>7, <1>8, <1>9, <1>10,
     <1>11, <1>12, <1>13, <1>14, <1>15, <1>16, <1>17, <1>18, <1>19, <1>20,
     <1>21, <1>22, <1>23, <1>24

\* Every step keeps the verdict in line with the rows.
LEMMA OutcomeStep ==
  ASSUME IInv, [Next]_vars
  PROVE  OutcomeInv'
<1>a. TypeOK /\ StageInv /\ RowsInv /\ OutcomeInv /\ FlagInv /\ StatusAgreesWithResult
  BY DEF IInv
<1> USE <1>a, RetriesAssumption, FaultsAssumption
    DEF At, CancelGoto, database, task, locals, requests
<1>1. ASSUME NEW r \in Runs, CommitRun(r) PROVE OutcomeInv'
  BY <1>1
  DEF CommitRun, TypeOK, StageInv, RowsInv, OutcomeInv, InLoop, BeforeLoop,
      AfterLoop
<1>2. ASSUME NEW r \in Runs, ScheduleRun(r) PROVE OutcomeInv'
  BY <1>2
  DEF ScheduleRun, TypeOK, StageInv, RowsInv, OutcomeInv, InLoop, BeforeLoop,
      AfterLoop
<1>3. ASSUME NEW r \in Runs, StartTask(r) PROVE OutcomeInv'
  BY <1>3
  DEF StartTask, TypeOK, StageInv, RowsInv, OutcomeInv, InLoop, BeforeLoop,
      AfterLoop
<1>4. ASSUME NEW r \in Runs, CommitRunning(r) PROVE OutcomeInv'
  BY <1>4
  DEF CommitRunning, TypeOK, StageInv, RowsInv, OutcomeInv, InLoop, BeforeLoop,
      AfterLoop
<1>5. ASSUME NEW r \in Runs, BeginPlan(r) PROVE OutcomeInv'
  <2>1. PICK n \in 1..MaxTools, b \in BOOLEAN :
          plan' = [plan EXCEPT ![r] = PlanOf(n, b)] /\ Advance(r, PlanOf(n, b), 1)
    BY <1>5 DEF BeginPlan
  <2>2. Len(PlanOf(n, b)) \in Nat \ {0}
    BY PlanOfTyped
  <2>3. CASE StartStep(r, 1)
    BY <1>5, <2>1, <2>3
    DEF BeginPlan, StartStep, TypeOK, StageInv, OutcomeInv, BeforeLoop, InLoop,
        AfterLoop
  <2>4. CASE Decide(r, "cancelled")
    BY <1>5, <2>1, <2>4
    DEF BeginPlan, Decide, TypeOK, StageInv, OutcomeInv, BeforeLoop, InLoop,
        AfterLoop
  <2>5. QED
    BY <2>1, <2>2, <2>3, <2>4 DEF Advance
<1>6. ASSUME NEW r \in Runs, PersistStep(r) PROVE OutcomeInv'
  BY <1>6
  DEF PersistStep, Persist, TypeOK, StageInv, RowsInv, OutcomeInv, InLoop,
      BeforeLoop, AfterLoop
<1>7. ASSUME NEW r \in Runs, PublishStarted(r) PROVE OutcomeInv'
  BY <1>7
  DEF PublishStarted, Publish, TypeOK, StageInv, RowsInv, OutcomeInv, InLoop,
      BeforeLoop, AfterLoop
<1>8. ASSUME NEW r \in Runs, PublishFailedAndRetry(r) PROVE OutcomeInv'
  BY <1>8
  DEF PublishFailedAndRetry, Publish, TypeOK, StageInv, RowsInv, OutcomeInv,
      InLoop, BeforeLoop, AfterLoop
<1>9. ASSUME NEW r \in Runs, PublishFailedForGood(r) PROVE OutcomeInv'
  <2>1. cur[r] \in StepRow /\ seq[r] \in Nat \ {0} /\ outcome[r] = "none" /\ result[r] = "none"
    BY <1>9, InLoopTyped DEF PublishFailedForGood, Publish, InLoop, At
  <2>2. cur[r].attempt = MaxRetries + 1
    BY <1>9, <2>1, StepFields DEF PublishFailedForGood
  <2>3. Len(steps[r]) = seq[r] /\ steps[r][Len(steps[r])] = cur[r]
    BY <1>9 DEF PublishFailedForGood, Publish, RowsInv
  <2>4. QED
    BY <1>9, <2>1, <2>2, <2>3
    DEF PublishFailedForGood, Publish, Decide, TypeOK, OutcomeInv
<1>10. ASSUME NEW r \in Runs, PublishRetrying(r) PROVE OutcomeInv'
  BY <1>10
  DEF PublishRetrying, Publish, TypeOK, StageInv, RowsInv, OutcomeInv, InLoop,
      BeforeLoop, AfterLoop
<1>11. ASSUME NEW r \in Runs, PublishSucceeded(r) PROVE OutcomeInv'
  <2>1. seq[r] \in Nat \ {0} /\ outcome[r] = "none" /\ Len(plan[r]) \in Nat
    BY <1>11, InLoopTyped, LenProperties DEF PublishSucceeded, Publish, InLoop, At, TypeOK
  <2>2. Len(steps[r]) = seq[r] /\ steps[r][Len(steps[r])].status = "succeeded"
        /\ seq[r] <= Len(plan[r])
    BY <1>11 DEF PublishSucceeded, Publish, RowsInv
  <2>3. UNCHANGED <<steps, plan>> /\ Advance(r, plan[r], seq[r] + 1)
    BY <1>11 DEF PublishSucceeded
  <2>4. CASE StartStep(r, seq[r] + 1)
    BY <2>1, <2>3, <2>4 DEF StartStep, TypeOK, OutcomeInv
  <2>5. CASE Decide(r, "cancelled")
    BY <2>1, <2>2, <2>3, <2>5 DEF Decide, TypeOK, OutcomeInv
  <2>6. CASE seq[r] + 1 > Len(plan[r]) /\ Decide(r, "succeeded")
    <3>1. seq[r] = Len(plan[r])
      BY <2>1, <2>2, <2>6
    <3>2. QED
      BY <2>1, <2>2, <2>3, <2>6, <3>1 DEF Decide, TypeOK, OutcomeInv
  <2>7. QED
    BY <2>3, <2>4, <2>5, <2>6 DEF Advance
<1>12. ASSUME NEW r \in Runs, StepFails(r) PROVE OutcomeInv'
  BY <1>12
  DEF StepFails, TypeOK, StageInv, RowsInv, OutcomeInv, InLoop, BeforeLoop,
      AfterLoop
<1>13. ASSUME NEW r \in Runs, StepSucceeds(r) PROVE OutcomeInv'
  BY <1>13
  DEF StepSucceeds, TypeOK, StageInv, RowsInv, OutcomeInv, InLoop, BeforeLoop,
      AfterLoop
<1>14. ASSUME NEW r \in Runs, Retry(r) PROVE OutcomeInv'
  <2>0. NextAttempt(r)
    BY <1>14, RetryGoesOn
  <2>1. QED
    BY <2>0
    DEF NextAttempt, TypeOK, StageInv, RowsInv, OutcomeInv, InLoop, BeforeLoop,
        AfterLoop
<1>15. ASSUME NEW r \in Runs, CommitFinal(r) PROVE OutcomeInv'
  BY <1>15
  DEF CommitFinal, TypeOK, StageInv, RowsInv, OutcomeInv, InLoop, BeforeLoop,
      AfterLoop
<1>16. ASSUME NEW r \in Runs, Announce(r) PROVE OutcomeInv'
  BY <1>16
  DEF Announce, TypeOK, StageInv, RowsInv, OutcomeInv, InLoop, BeforeLoop,
      AfterLoop
<1>17. ASSUME NEW r \in Runs, RunnerFails(r) PROVE OutcomeInv'
  BY <1>17
  DEF RunnerFails, TypeOK, StageInv, RowsInv, OutcomeInv, InLoop, BeforeLoop,
      AfterLoop
<1>18. ASSUME NEW c \in Cancels, CancelLoad(c) PROVE OutcomeInv'
  BY <1>18
  DEF CancelLoad, TypeOK, StageInv, RowsInv, OutcomeInv, InLoop, BeforeLoop,
      AfterLoop
<1>19. ASSUME NEW c \in Cancels, CancelRefuse(c) PROVE OutcomeInv'
  BY <1>19
  DEF CancelRefuse, TypeOK, StageInv, RowsInv, OutcomeInv, InLoop, BeforeLoop,
      AfterLoop
<1>20. ASSUME NEW c \in Cancels, CancelSignal(c) PROVE OutcomeInv'
  BY <1>20
  DEF CancelSignal, TypeOK, StageInv, RowsInv, OutcomeInv, InLoop, BeforeLoop,
      AfterLoop
<1>21. ASSUME NEW c \in Cancels, CancelCommit(c) PROVE OutcomeInv'
  BY <1>21
  DEF CancelCommit, TypeOK, StageInv, RowsInv, OutcomeInv, InLoop, BeforeLoop,
      AfterLoop
<1>22. ASSUME NEW c \in Cancels, CancelFails(c) PROVE OutcomeInv'
  BY <1>22
  DEF CancelFails, TypeOK, StageInv, RowsInv, OutcomeInv, InLoop, BeforeLoop,
      AfterLoop
<1>23. ASSUME Restart PROVE OutcomeInv'
  BY <1>23
  DEF Restart, TypeOK, StageInv, RowsInv, OutcomeInv, InLoop, BeforeLoop,
      AfterLoop, Live
<1>24. ASSUME UNCHANGED vars PROVE OutcomeInv'
  BY <1>24 DEF vars, OutcomeInv
<1>25. QED
  BY StepCases, <1>1, <1>2, <1>3, <1>4, <1>5, <1>6, <1>7, <1>8, <1>9, <1>10,
     <1>11, <1>12, <1>13, <1>14, <1>15, <1>16, <1>17, <1>18, <1>19, <1>20,
     <1>21, <1>22, <1>23, <1>24

\* A step of the task inside the loop that leaves the flags, the cancels and the
\* step number alone keeps what FlagInv says.
LEMMA FlagKept ==
  ASSUME TypeOK, FlagInv, NEW r \in Runs, pc[r] \in InLoop,
         NEW there \in InLoop, pc' = [pc EXCEPT ![r] = there],
         UNCHANGED <<flag, outcome, seq, requests>>
  PROVE  FlagInv'
<1>1. \A q \in Runs : pc'[q] # pc[q] => q = r /\ pc'[q] \in InLoop
  BY DEF TypeOK
<1>2. Asked' = Asked
  BY DEF Asked, requests
<1>3. \A q \in Runs :
        /\ pc'[q] \in {"absent", "inserted", "scheduled"} =>
             pc[q] \in {"absent", "inserted", "scheduled"}
        /\ pc'[q] \in InLoop \union {"set_running", "begin"} =>
             pc[q] \in InLoop \union {"set_running", "begin"}
  BY <1>1 DEF InLoop
<1>4. QED
  BY <1>2, <1>3 DEF FlagInv, requests

\* Every step keeps a cancel that was heard remembered.
LEMMA FlagStep ==
  ASSUME IInv, [Next]_vars
  PROVE  FlagInv'
<1>a. TypeOK /\ StageInv /\ RowsInv /\ OutcomeInv /\ FlagInv /\ StatusAgreesWithResult
  BY DEF IInv
<1> USE <1>a, RetriesAssumption, FaultsAssumption
    DEF At, CancelGoto, database, task, locals, requests
<1>1. ASSUME NEW r \in Runs, CommitRun(r) PROVE FlagInv'
  BY <1>1
  DEF CommitRun, TypeOK, StageInv, FlagInv, Asked, InLoop, BeforeLoop, AfterLoop
<1>2. ASSUME NEW r \in Runs, ScheduleRun(r) PROVE FlagInv'
  BY <1>2
  DEF ScheduleRun, TypeOK, StageInv, FlagInv, Asked, InLoop, BeforeLoop,
      AfterLoop
<1>3. ASSUME NEW r \in Runs, StartTask(r) PROVE FlagInv'
  BY <1>3
  DEF StartTask, TypeOK, StageInv, FlagInv, Asked, InLoop, BeforeLoop, AfterLoop
<1>4. ASSUME NEW r \in Runs, CommitRunning(r) PROVE FlagInv'
  BY <1>4
  DEF CommitRunning, TypeOK, StageInv, FlagInv, Asked, InLoop, BeforeLoop,
      AfterLoop
<1>5. ASSUME NEW r \in Runs, BeginPlan(r) PROVE FlagInv'
  <2>1. PICK n \in 1..MaxTools, b \in BOOLEAN :
          plan' = [plan EXCEPT ![r] = PlanOf(n, b)] /\ Advance(r, PlanOf(n, b), 1)
    BY <1>5 DEF BeginPlan
  <2>2. Len(PlanOf(n, b)) \in Nat \ {0}
    BY PlanOfTyped
  <2>3. CASE flag[r] # "set" /\ StartStep(r, 1)
    BY SMTT(30), <1>5, <2>3
    DEF BeginPlan, StartStep, TypeOK, FlagInv, Asked, BeforeLoop, InLoop,
        AfterLoop
  <2>4. CASE Decide(r, "cancelled")
    BY <1>5, <2>4
    DEF BeginPlan, Decide, TypeOK, FlagInv, Asked, BeforeLoop, InLoop, AfterLoop
  <2>5. QED
    BY <2>1, <2>2, <2>3, <2>4 DEF Advance
<1>6. ASSUME NEW r \in Runs, PersistStep(r) PROVE FlagInv'
  BY <1>6, FlagKept DEF PersistStep, Persist, InLoop
<1>7. ASSUME NEW r \in Runs, PublishStarted(r) PROVE FlagInv'
  BY <1>7, FlagKept DEF PublishStarted, Publish, InLoop
<1>8. ASSUME NEW r \in Runs, PublishFailedAndRetry(r) PROVE FlagInv'
  BY <1>8, FlagKept DEF PublishFailedAndRetry, Publish, InLoop
<1>9. ASSUME NEW r \in Runs, PublishFailedForGood(r) PROVE FlagInv'
  BY <1>9
  DEF PublishFailedForGood, Publish, Decide, TypeOK, StageInv, FlagInv, Asked,
      InLoop, BeforeLoop, AfterLoop
<1>10. ASSUME NEW r \in Runs, PublishRetrying(r) PROVE FlagInv'
  BY <1>10, FlagKept DEF PublishRetrying, Publish, InLoop
<1>11. ASSUME NEW r \in Runs, PublishSucceeded(r) PROVE FlagInv'
  <2>1. cur[r] \in StepRow /\ seq[r] \in Nat \ {0} /\ outcome[r] = "none" /\ result[r] = "none"
    BY <1>11, InLoopTyped DEF PublishSucceeded, Publish, InLoop, At
  <2>2. CASE flag[r] # "set" /\ StartStep(r, seq[r] + 1)
    BY SMTT(30), <1>11, <2>1, <2>2
    DEF PublishSucceeded, Publish, StartStep, TypeOK, FlagInv, Asked,
        BeforeLoop, InLoop, AfterLoop
  <2>3. CASE Decide(r, "cancelled")
    BY <1>11, <2>1, <2>3
    DEF PublishSucceeded, Publish, Decide, TypeOK, FlagInv, Asked, BeforeLoop,
        InLoop, AfterLoop
  <2>4. CASE flag[r] # "set" /\ Decide(r, "succeeded")
    BY <1>11, <2>1, <2>4
    DEF PublishSucceeded, Publish, Decide, TypeOK, FlagInv, Asked, BeforeLoop,
        InLoop, AfterLoop
  <2>5. QED
    BY <1>11, <2>2, <2>3, <2>4 DEF PublishSucceeded, Advance
<1>12. ASSUME NEW r \in Runs, StepFails(r) PROVE FlagInv'
  BY <1>12, FlagKept DEF StepFails, InLoop
<1>13. ASSUME NEW r \in Runs, StepSucceeds(r) PROVE FlagInv'
  BY <1>13, FlagKept DEF StepSucceeds, InLoop
<1>14. ASSUME NEW r \in Runs, Retry(r) PROVE FlagInv'
  <2>0. NextAttempt(r)
    BY <1>14, RetryGoesOn
  <2>1. QED
    BY <2>0, FlagKept DEF NextAttempt, InLoop
<1>15. ASSUME NEW r \in Runs, CommitFinal(r) PROVE FlagInv'
  BY <1>15
  DEF CommitFinal, TypeOK, StageInv, FlagInv, Asked, InLoop, BeforeLoop,
      AfterLoop
<1>16. ASSUME NEW r \in Runs, Announce(r) PROVE FlagInv'
  BY <1>16
  DEF Announce, TypeOK, StageInv, FlagInv, Asked, InLoop, BeforeLoop, AfterLoop
<1>17. ASSUME NEW r \in Runs, RunnerFails(r) PROVE FlagInv'
  BY <1>17
  DEF RunnerFails, TypeOK, StageInv, FlagInv, Asked, InLoop, BeforeLoop,
      AfterLoop
<1>18. ASSUME NEW c \in Cancels, CancelLoad(c) PROVE FlagInv'
  BY <1>18
  DEF CancelLoad, TypeOK, StageInv, FlagInv, Asked, InLoop, BeforeLoop,
      AfterLoop
<1>19. ASSUME NEW c \in Cancels, CancelRefuse(c) PROVE FlagInv'
  BY <1>19
  DEF CancelRefuse, TypeOK, StageInv, FlagInv, Asked, InLoop, BeforeLoop,
      AfterLoop
<1>20. ASSUME NEW c \in Cancels, CancelSignal(c) PROVE FlagInv'
  BY SMTT(30), <1>20
  DEF CancelSignal, TypeOK, StageInv, FlagInv, Asked, InLoop, BeforeLoop,
      AfterLoop
<1>21. ASSUME NEW c \in Cancels, CancelCommit(c) PROVE FlagInv'
  BY <1>21
  DEF CancelCommit, TypeOK, StageInv, FlagInv, Asked, InLoop, BeforeLoop,
      AfterLoop
<1>22. ASSUME NEW c \in Cancels, CancelFails(c) PROVE FlagInv'
  BY <1>22
  DEF CancelFails, TypeOK, StageInv, FlagInv, Asked, InLoop, BeforeLoop,
      AfterLoop
<1>23. ASSUME Restart PROVE FlagInv'
  BY <1>23
  DEF Restart, TypeOK, StageInv, FlagInv, Asked, InLoop, BeforeLoop, AfterLoop,
      Live
<1>24. ASSUME UNCHANGED vars PROVE FlagInv'
  BY <1>24 DEF vars, FlagInv, Asked
<1>25. QED
  BY StepCases, <1>1, <1>2, <1>3, <1>4, <1>5, <1>6, <1>7, <1>8, <1>9, <1>10,
     <1>11, <1>12, <1>13, <1>14, <1>15, <1>16, <1>17, <1>18, <1>19, <1>20,
     <1>21, <1>22, <1>23, <1>24

\* Every step keeps the status in line with the result, a stale cancel included.
LEMMA StatusStep ==
  ASSUME IInv, [Next]_vars
  PROVE  StatusAgreesWithResult'
<1>a. TypeOK /\ StageInv /\ RowsInv /\ OutcomeInv /\ FlagInv /\ StatusAgreesWithResult
  BY DEF IInv
<1> USE <1>a, RetriesAssumption, FaultsAssumption
    DEF At, CancelGoto, database, task, locals, requests
<1>1. ASSUME NEW r \in Runs, CommitRun(r) PROVE StatusAgreesWithResult'
  BY <1>1
  DEF CommitRun, TypeOK, StageInv, StatusAgreesWithResult, InLoop, BeforeLoop,
      AfterLoop, TerminalStatus, RunStatus
<1>2. ASSUME NEW r \in Runs, ScheduleRun(r) PROVE StatusAgreesWithResult'
  BY <1>2
  DEF ScheduleRun, TypeOK, StageInv, StatusAgreesWithResult, InLoop, BeforeLoop,
      AfterLoop, TerminalStatus
<1>3. ASSUME NEW r \in Runs, StartTask(r) PROVE StatusAgreesWithResult'
  BY <1>3
  DEF StartTask, TypeOK, StageInv, StatusAgreesWithResult, InLoop, BeforeLoop,
      AfterLoop, TerminalStatus
<1>4. ASSUME NEW r \in Runs, CommitRunning(r) PROVE StatusAgreesWithResult'
  BY <1>4
  DEF CommitRunning, TypeOK, StageInv, StatusAgreesWithResult, InLoop,
      BeforeLoop, AfterLoop, TerminalStatus
<1>5. ASSUME NEW r \in Runs, BeginPlan(r) PROVE StatusAgreesWithResult'
  BY <1>5
  DEF BeginPlan, Advance, StartStep, Decide, TypeOK, StageInv,
      StatusAgreesWithResult, InLoop, BeforeLoop, AfterLoop, TerminalStatus
<1>6. ASSUME NEW r \in Runs, PersistStep(r) PROVE StatusAgreesWithResult'
  BY <1>6
  DEF PersistStep, Persist, TypeOK, StageInv, StatusAgreesWithResult, InLoop,
      BeforeLoop, AfterLoop, TerminalStatus
<1>7. ASSUME NEW r \in Runs, PublishStarted(r) PROVE StatusAgreesWithResult'
  BY <1>7
  DEF PublishStarted, Publish, TypeOK, StageInv, StatusAgreesWithResult, InLoop,
      BeforeLoop, AfterLoop, TerminalStatus
<1>8. ASSUME NEW r \in Runs, PublishFailedAndRetry(r) PROVE StatusAgreesWithResult'
  BY <1>8
  DEF PublishFailedAndRetry, Publish, TypeOK, StageInv, StatusAgreesWithResult,
      InLoop, BeforeLoop, AfterLoop, TerminalStatus
<1>9. ASSUME NEW r \in Runs, PublishFailedForGood(r) PROVE StatusAgreesWithResult'
  BY <1>9
  DEF PublishFailedForGood, Publish, Decide, TypeOK, StageInv,
      StatusAgreesWithResult, InLoop, BeforeLoop, AfterLoop, TerminalStatus
<1>10. ASSUME NEW r \in Runs, PublishRetrying(r) PROVE StatusAgreesWithResult'
  BY <1>10
  DEF PublishRetrying, Publish, TypeOK, StageInv, StatusAgreesWithResult,
      InLoop, BeforeLoop, AfterLoop, TerminalStatus
<1>11. ASSUME NEW r \in Runs, PublishSucceeded(r) PROVE StatusAgreesWithResult'
  BY <1>11
  DEF PublishSucceeded, Publish, Advance, Decide, StartStep, TypeOK, StageInv,
      StatusAgreesWithResult, InLoop, BeforeLoop, AfterLoop, TerminalStatus
<1>12. ASSUME NEW r \in Runs, StepFails(r) PROVE StatusAgreesWithResult'
  BY <1>12
  DEF StepFails, TypeOK, StageInv, StatusAgreesWithResult, InLoop, BeforeLoop,
      AfterLoop, TerminalStatus
<1>13. ASSUME NEW r \in Runs, StepSucceeds(r) PROVE StatusAgreesWithResult'
  BY <1>13
  DEF StepSucceeds, TypeOK, StageInv, StatusAgreesWithResult, InLoop,
      BeforeLoop, AfterLoop, TerminalStatus
<1>14. ASSUME NEW r \in Runs, Retry(r) PROVE StatusAgreesWithResult'
  <2>0. NextAttempt(r)
    BY <1>14, RetryGoesOn
  <2>1. QED
    BY <2>0
    DEF NextAttempt, TypeOK, StageInv, StatusAgreesWithResult, InLoop, BeforeLoop,
        AfterLoop, TerminalStatus
<1>15. ASSUME NEW r \in Runs, CommitFinal(r) PROVE StatusAgreesWithResult'
  BY <1>15
  DEF CommitFinal, TypeOK, StageInv, StatusAgreesWithResult, InLoop, BeforeLoop,
      AfterLoop, TerminalStatus
<1>16. ASSUME NEW r \in Runs, Announce(r) PROVE StatusAgreesWithResult'
  BY <1>16
  DEF Announce, TypeOK, StageInv, StatusAgreesWithResult, InLoop, BeforeLoop,
      AfterLoop, TerminalStatus
<1>17. ASSUME NEW r \in Runs, RunnerFails(r) PROVE StatusAgreesWithResult'
  BY <1>17
  DEF RunnerFails, TypeOK, StageInv, StatusAgreesWithResult, InLoop, BeforeLoop,
      AfterLoop, TerminalStatus
<1>18. ASSUME NEW c \in Cancels, CancelLoad(c) PROVE StatusAgreesWithResult'
  BY <1>18
  DEF CancelLoad, TypeOK, StageInv, StatusAgreesWithResult, InLoop, BeforeLoop,
      AfterLoop, TerminalStatus
<1>19. ASSUME NEW c \in Cancels, CancelRefuse(c) PROVE StatusAgreesWithResult'
  BY <1>19
  DEF CancelRefuse, TypeOK, StageInv, StatusAgreesWithResult, InLoop,
      BeforeLoop, AfterLoop, TerminalStatus
<1>20. ASSUME NEW c \in Cancels, CancelSignal(c) PROVE StatusAgreesWithResult'
  BY <1>20
  DEF CancelSignal, TypeOK, StageInv, StatusAgreesWithResult, InLoop,
      BeforeLoop, AfterLoop, TerminalStatus
<1>21. ASSUME NEW c \in Cancels, CancelCommit(c) PROVE StatusAgreesWithResult'
  BY <1>21
  DEF CancelCommit, TypeOK, StageInv, StatusAgreesWithResult, InLoop,
      BeforeLoop, AfterLoop, TerminalStatus
<1>22. ASSUME NEW c \in Cancels, CancelFails(c) PROVE StatusAgreesWithResult'
  BY <1>22
  DEF CancelFails, TypeOK, StageInv, StatusAgreesWithResult, InLoop, BeforeLoop,
      AfterLoop, TerminalStatus
<1>23. ASSUME Restart PROVE StatusAgreesWithResult'
  BY <1>23
  DEF Restart, TypeOK, StageInv, StatusAgreesWithResult, InLoop, BeforeLoop,
      AfterLoop, TerminalStatus, Live
<1>24. ASSUME UNCHANGED vars PROVE StatusAgreesWithResult'
  BY <1>24 DEF vars, StatusAgreesWithResult
<1>25. QED
  BY StepCases, <1>1, <1>2, <1>3, <1>4, <1>5, <1>6, <1>7, <1>8, <1>9, <1>10,
     <1>11, <1>12, <1>13, <1>14, <1>15, <1>16, <1>17, <1>18, <1>19, <1>20,
     <1>21, <1>22, <1>23, <1>24

\* Type correctness and the other parts hold in every reachable state.
THEOREM Invariance == Spec => []IInv
<1>1. Init => IInv
  BY InitIInv
<1>2. IInv /\ [Next]_vars => IInv'
  BY TypeOKStep, StageStep, RowsStep, OutcomeStep, FlagStep, StatusStep DEF IInv
<1>3. QED
  BY <1>1, <1>2, PTL DEF Spec

\* Variables keep their types; no attempt exceeds 1 + MaxRetries (runner.py:141).
THEOREM TypeCorrectness == Spec => []TypeOK
<1>1. IInv => TypeOK
  BY DEF IInv
<1>2. QED
  BY <1>1, Invariance, PTL

\* A terminal status is shown with its own result and a result with its own
\* status or "cancelling", however many cancels race with the final commit.
THEOREM StatusResult == Spec => []StatusAgreesWithResult
<1>1. IInv => StatusAgreesWithResult
  BY DEF IInv
<1>2. QED
  BY <1>1, Invariance, PTL

\* A cancel heard while the verdict is open lets no further step have a row and
\* excludes "succeeded", for any number of cancels, retries and failures.
THEOREM CancelHonoured == Spec => []HeardCancelIsHonoured
<1>1. IInv => HeardCancelIsHonoured
  BY DEF IInv, TypeOK, StageInv, RowsInv, FlagInv, HeardCancelIsHonoured
<1>2. QED
  BY <1>1, Invariance, PTL

\* A recorded verdict is borne out by the step rows.
THEOREM VerdictSound == Spec => []VerdictMatchesSteps
<1>1. ASSUME IInv PROVE VerdictMatchesSteps
  <2>1. \A r \in Runs : Len(steps[r]) \in Nat /\ seq[r] \in Nat
    BY <1>1, LenProperties DEF IInv, TypeOK
  <2>2. QED
    BY <1>1, <2>1 DEF IInv, StageInv, RowsInv, OutcomeInv, VerdictMatchesSteps
<1>2. QED
  BY <1>1, Invariance, PTL

\* What a step does to a run that has its result: nothing, but for the status a
\* stale cancel writes.
LEMMA KeepsResultStep ==
  ASSUME IInv, [Next]_vars, NEW q \in Runs
  PROVE  KeepsResult(q)
<1> SUFFICES ASSUME result[q] # "none" PROVE KeepsResult(q)
  BY DEF KeepsResult
<1> USE DEF At, CancelGoto, database, task, locals, requests, KeepsResult
<1>1. pc[q] \notin BeforeLoop \union InLoop \union {"set_final"}
  BY DEF IInv, StageInv
<1>2. ASSUME NEW r \in Runs,
             \/ CommitRun(r) \/ ScheduleRun(r) \/ StartTask(r) \/ CommitRunning(r)
             \/ BeginPlan(r) \/ PublishStarted(r) \/ PublishFailedAndRetry(r)
             \/ PublishFailedForGood(r) \/ PublishRetrying(r) \/ PublishSucceeded(r)
             \/ StepFails(r) \/ StepSucceeds(r) \/ Retry(r) \/ Announce(r)
             \/ RunnerFails(r)
      PROVE  KeepsResult(q)
  <2>1. UNCHANGED <<result, total, steps>>
    BY <1>2 DEF CommitRun, ScheduleRun, StartTask, CommitRunning, BeginPlan,
                PublishStarted, PublishFailedAndRetry, PublishFailedForGood,
                PublishRetrying, PublishSucceeded, StepFails, StepSucceeds, Retry,
                Announce, RunnerFails
  <2>2. status'[q] = status[q]
    BY <1>1, <1>2 DEF CommitRun, ScheduleRun, StartTask, CommitRunning, BeginPlan,
                PublishStarted, PublishFailedAndRetry, PublishFailedForGood,
                PublishRetrying, PublishSucceeded, StepFails, StepSucceeds, Retry,
                Announce, RunnerFails, BeforeLoop, IInv, TypeOK
  <2>3. QED
    BY <2>1, <2>2
<1>3. ASSUME NEW r \in Runs, PersistStep(r) PROVE KeepsResult(q)
  BY <1>1, <1>3 DEF PersistStep, Persist, InLoop, IInv, TypeOK
<1>4. ASSUME NEW r \in Runs, CommitFinal(r) PROVE KeepsResult(q)
  BY <1>1, <1>4 DEF CommitFinal, IInv, TypeOK
<1>5. ASSUME NEW c \in Cancels,
             CancelLoad(c) \/ CancelRefuse(c) \/ CancelSignal(c) \/ CancelFails(c)
      PROVE  KeepsResult(q)
  BY <1>5 DEF CancelLoad, CancelRefuse, CancelSignal, CancelFails
<1>6. ASSUME NEW c \in Cancels, CancelCommit(c) PROVE KeepsResult(q)
  BY <1>6 DEF CancelCommit, IInv, TypeOK, FlagInv
<1>7. ASSUME Restart \/ UNCHANGED vars PROVE KeepsResult(q)
  BY <1>7 DEF Restart, vars
<1>8. QED
  BY StepCases, <1>2, <1>3, <1>4, <1>5, <1>6, <1>7

\* A recorded result, its totals and its steps never change; its status only to
\* "cancelling", by a cancel that had loaded the run before it was over.
THEOREM ResultFinal == Spec => ResultIsFinal
<1>1. IInv /\ [Next]_vars => \A r \in Runs : KeepsResult(r)
  BY KeepsResultStep
<1>2. QED
  BY <1>1, Invariance, PTL DEF Spec, ResultIsFinal

-----------------------------------------------------------------------------
(***************************************************************************)
(* RunLifecycle implements RunContract.                                    *)
(***************************************************************************)
\* A step that leaves the mapped variables alone is a stutter of the contract.
LEMMA ContractStutter ==
  ASSUME UNCHANGED <<seq, outcome, result, crun, heard>>
  PROVE  UNCHANGED Contract!contractVars
BY DEF Contract!contractVars, Asked

\* Where the task looks at its flag, the flag tells whether the run was asked
\* to stop.
LEMMA FlagTellsAsked ==
  ASSUME IInv, NEW r \in Runs, pc[r] \in InLoop \union {"begin"}
  PROVE  flag[r] = "set" <=> Asked[r]
BY DEF IInv, FlagInv, Asked

\* Starting a step opens it in the contract, a verdict settles the run there.
LEMMA AdvanceImplements ==
  ASSUME IInv, NEW r \in Runs, NEW p, NEW k \in Nat, Len(p) \in Nat,
         pc[r] \in InLoop \union {"begin"},
         k = seq[r] + 1, seq[r] = 0 => Len(p) > 0,
         Advance(r, p, k),
         UNCHANGED <<result, crun, heard>>
  PROVE  Contract!Next
<1>1. seq[r] \in Nat /\ outcome[r] = "none" /\ Asked' = Asked
  BY DEF IInv, TypeOK, StageInv, InLoop, BeforeLoop, Asked
<1>2. CASE flag[r] # "set" /\ StartStep(r, k)
  <2>1. ~Asked[r]
    BY <1>2, FlagTellsAsked
  <2>2. Contract!Open(r)
    BY <1>1, <1>2, <2>1 DEF StartStep, Contract!Open
  <2>3. QED
    BY <2>2 DEF Contract!Next
<1>3. CASE flag[r] = "set" /\ Decide(r, "cancelled")
  <2>1. Asked[r]
    BY <1>3, FlagTellsAsked
  <2>2. Contract!Settle(r, "cancelled")
    BY <1>1, <1>3, <2>1 DEF Decide, Contract!Settle
  <2>3. QED
    BY <2>2 DEF Contract!Next, Contract!Verdict
<1>4. CASE flag[r] # "set" /\ k > Len(p) /\ Decide(r, "succeeded")
  <2>1. ~Asked[r]
    BY <1>4, FlagTellsAsked
  <2>2. seq[r] > 0
    BY <1>1, <1>4
  <2>3. Contract!Settle(r, "succeeded")
    BY <1>1, <1>4, <2>1, <2>2 DEF Decide, Contract!Settle
  <2>4. QED
    BY <2>3 DEF Contract!Next, Contract!Verdict
<1>5. QED
  BY <1>2, <1>3, <1>4 DEF Advance

\* Every step of the service is a step of the contract or a stutter.
LEMMA StepImplements ==
  ASSUME IInv, [Next]_vars
  PROVE  [Contract!Next]_(Contract!contractVars)
<1> USE DEF At, CancelGoto, database, task, locals, requests
<1>1. ASSUME NEW r \in Runs,
             \/ CommitRun(r) \/ ScheduleRun(r) \/ StartTask(r) \/ CommitRunning(r)
             \/ PersistStep(r) \/ PublishStarted(r) \/ PublishFailedAndRetry(r)
             \/ PublishRetrying(r) \/ StepFails(r) \/ StepSucceeds(r) \/ Retry(r)
             \/ Announce(r) \/ RunnerFails(r)
      PROVE  UNCHANGED Contract!contractVars
  <2>0. Retry(r) => NextAttempt(r)
    BY RetryGoesOn DEF IInv
  <2>1. UNCHANGED <<seq, outcome, result, crun, heard>>
    BY <1>1, <2>0 DEF CommitRun, ScheduleRun, StartTask, CommitRunning, PersistStep,
                PublishStarted, PublishFailedAndRetry, PublishRetrying, StepFails,
                StepSucceeds, NextAttempt, Announce, RunnerFails
  <2>2. QED
    BY <2>1, ContractStutter
<1>2. ASSUME NEW c \in Cancels,
             CancelLoad(c) \/ CancelRefuse(c) \/ CancelCommit(c) \/ CancelFails(c)
      PROVE  UNCHANGED Contract!contractVars
  <2>1. UNCHANGED <<seq, outcome, result, crun, heard>>
    BY <1>2 DEF CancelLoad, CancelRefuse, CancelCommit, CancelFails
  <2>2. QED
    BY <2>1, ContractStutter
<1>3. ASSUME Restart \/ UNCHANGED vars
      PROVE  UNCHANGED Contract!contractVars
  <2>1. UNCHANGED <<seq, outcome, result, crun, heard>>
    BY <1>3 DEF Restart, vars
  <2>2. QED
    BY <2>1, ContractStutter
<1>4. ASSUME NEW r \in Runs, BeginPlan(r)
      PROVE  Contract!Next
  <2>1. PICK n \in 1..MaxTools, b \in BOOLEAN : Advance(r, PlanOf(n, b), 1)
    BY <1>4 DEF BeginPlan
  <2>2. Len(PlanOf(n, b)) \in Nat \ {0}
    BY PlanOfTyped
  <2>3. seq[r] = 0 /\ pc[r] = "begin" /\ UNCHANGED <<result, crun, heard>>
    BY <1>4 DEF BeginPlan, IInv, StageInv, BeforeLoop
  <2>4. QED
    BY <2>1, <2>2, <2>3, AdvanceImplements
<1>5. ASSUME NEW r \in Runs, PublishSucceeded(r)
      PROVE  Contract!Next
  <2>1. Advance(r, plan[r], seq[r] + 1) /\ UNCHANGED <<result, crun, heard>>
    BY <1>5 DEF PublishSucceeded
  <2>2. pc[r] \in InLoop
    BY <1>5 DEF PublishSucceeded, Publish, InLoop
  <2>3. seq[r] \in Nat \ {0}
    BY <2>2, InLoopTyped DEF IInv
  <2>4. Len(plan[r]) \in Nat
    BY LenProperties DEF IInv, TypeOK
  <2>5. QED
    BY <2>1, <2>2, <2>3, <2>4, AdvanceImplements
<1>6. ASSUME NEW r \in Runs, PublishFailedForGood(r)
      PROVE  Contract!Next
  <2>1. pc[r] \in InLoop
    BY <1>6 DEF PublishFailedForGood, Publish, InLoop
  <2>2. seq[r] \in Nat \ {0} /\ outcome[r] = "none"
    BY <2>1, InLoopTyped DEF IInv
  <2>3. UNCHANGED <<seq, result, crun, heard>> /\ outcome' = [outcome EXCEPT ![r] = "failed"]
    BY <1>6 DEF PublishFailedForGood, Decide
  <2>4. Contract!Settle(r, "failed")
    BY <2>2, <2>3 DEF Contract!Settle, Asked
  <2>5. QED
    BY <2>4 DEF Contract!Next, Contract!Verdict
<1>7. ASSUME NEW r \in Runs, CommitFinal(r)
      PROVE  Contract!Next
  <2>1. outcome[r] # "none" /\ result[r] = "none"
    BY <1>7 DEF CommitFinal, IInv, StageInv, AfterLoop, TerminalStatus
  <2>2. UNCHANGED <<seq, outcome, crun, heard>> /\ result' = [result EXCEPT ![r] = outcome[r]]
    BY <1>7 DEF CommitFinal
  <2>3. Contract!Record(r)
    BY <2>1, <2>2 DEF Contract!Record, Asked
  <2>4. QED
    BY <2>3 DEF Contract!Next
<1>8. ASSUME NEW c \in Cancels, CancelSignal(c)
      PROVE  [Contract!Next]_(Contract!contractVars)
  <2> DEFINE r == crun[c]
  <2>1. UNCHANGED <<seq, outcome, result, crun>> /\ heard[c] = -1 /\ r \in Runs
    BY <1>8 DEF CancelSignal, IInv, FlagInv, TypeOK
  <2>2. CASE flag[r] # "absent" /\ outcome[r] = "none"
    <3>1. heard' = [heard EXCEPT ![c] = seq[r]]
      BY <1>8, <2>2 DEF CancelSignal
    <3>2. Asked' = [Asked EXCEPT ![r] = TRUE]
      <4>1. seq[r] # -1 /\ heard'[c] = seq[r]
        BY <2>1, <3>1 DEF IInv, TypeOK
      <4>2. Asked'[r] = TRUE
        BY <2>1, <4>1 DEF Asked
      <4>3. ASSUME NEW q \in Runs, q # r PROVE Asked'[q] = Asked[q]
        <5>1. \A d \in Cancels : crun[d] = q => heard'[d] = heard[d]
          BY <3>1, <4>3 DEF IInv, TypeOK
        <5>2. QED
          BY <2>1, <5>1 DEF Asked
      <4>4. Asked' = [q \in Runs |-> Asked'[q]] /\ Asked = [q \in Runs |-> Asked[q]]
        BY DEF Asked
      <4>5. QED
        BY <4>2, <4>3, <4>4
    <3>3. Contract!Ask(r)
      BY <2>1, <2>2, <3>2 DEF Contract!Ask
    <3>4. QED
      BY <2>1, <3>3 DEF Contract!Next
  <2>3. CASE ~(flag[r] # "absent" /\ outcome[r] = "none")
    <3>1. heard' = [heard EXCEPT ![c] = -1]
      BY <1>8, <2>3 DEF CancelSignal
    <3>2. heard' = heard
      BY <2>1, <3>1 DEF IInv, TypeOK
    <3>3. QED
      BY <2>1, <3>2, ContractStutter
  <2>4. QED
    BY <2>2, <2>3
<1>9. QED
  BY StepCases, <1>1, <1>2, <1>3, <1>4, <1>5, <1>6, <1>7, <1>8

\* The task, the racing cancels and the failures implement the contract of a
\* run.
THEOREM Refinement == Spec => ImplementsContract
<1>1. Init => Contract!Init
  BY DEF Init, Contract!Init, Asked
<1>2. IInv /\ [Next]_vars => [Contract!Next]_(Contract!contractVars)
  BY StepImplements
<1>3. QED
  BY <1>1, <1>2, Invariance, PTL DEF Spec, Contract!Spec, ImplementsContract
=============================================================================
