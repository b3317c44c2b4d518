---------------------------- MODULE RunLifecycle ----------------------------
(***************************************************************************)
(* The life of a run: the background task that executes it (execute_run,   *)
(* _run_step and _persist_and_publish of the runner), the cancel requests  *)
(* that race with it (RunService.cancel_run), and the failures the service *)
(* is exposed to.                                                          *)
(*                                                                         *)
(* The grain is that of asyncio: what a coroutine does between two         *)
(* suspensions is one action, and so is one database statement or commit.  *)
(* A SELECT, its UPDATE and the COMMIT are one action where nobody else    *)
(* writes what was read (the run's own task and its own step rows), and    *)
(* separate ones where somebody does (a cancel and the status column).     *)
(* Steps are numbered from 1 here and from 0 in the code.                  *)
(***************************************************************************)
EXTENDS RunTypes, Integers

CONSTANTS
  Runs,        \* the runs
  Cancels,     \* the cancel requests
  MaxTools,    \* most tool calls in a plan (3 in the code)
  MaxRetries,  \* retries after a first attempt (runner_max_retries, 2)
  Usage,       \* what one successful step may consume: stands for its
               \* tokens in, its tokens out and its cost
  MaxFaults    \* bound on database failures and restarts together

ASSUME ToolsAssumption   == MaxTools \in Nat \ {0}
ASSUME RetriesAssumption == MaxRetries \in Nat
ASSUME UsageAssumption   == Usage \subseteq Nat
ASSUME FaultsAssumption  == MaxFaults \in Nat

VARIABLES
  \* the runs table: the status column, the output and error columns (which
  \* verdict they show), the total_* columns
  status, result, total,
  \* the steps table: the rows of each run, in the order of seq
  steps,
  \* _cancel_flags: no entry, an event not set, an event set
  flag,
  \* the task of a run: where it is suspended, and its locals plan, seq, step,
  \* the running totals and final_status once the loop is over
  pc, plan, seq, cur, spent, outcome,
  \* the token and cost counters of telemetry, per run
  metered,
  \* everything event_bus.publish was called with, per run
  published,
  \* a cancel request: where it is, its run, and the status it has loaded
  cpc, crun, cloaded,
  \* history: the step under way when the cancel set the flag of a run whose
  \* verdict was open; -1 when it has not
  heard,
  \* failures so far
  faults

database == <<status, result, total, steps>>
locals   == <<plan, seq, cur, spent, outcome>>
task     == <<flag, pc, plan, seq, cur, spent, outcome, metered, published>>
requests == <<cpc, crun, cloaded, heard>>
vars     == <<database, task, requests, faults>>

(***************************************************************************)
(* Types.                                                                  *)
(***************************************************************************)
StepRow == [status: StepStatus, attempt: 1..(MaxRetries + 1), usage: Nat]

\* The local `step` before the first step is built.
NoStep == [status |-> "unbound", attempt |-> 0, usage |-> 0]

TaskPc == {"absent", "inserted", "scheduled", "set_running", "begin", "persist",
           "publish", "working", "backoff", "set_final", "announce", "done",
           "crashed"}

\* Where a task of this process is alive.
Live == TaskPc \ {"absent", "done", "crashed"}

\* Where the task waits for the database.
AtDatabase == {"set_running", "persist", "set_final"}

CancelPc == {"idle", "loaded", "commit", "accepted", "conflict", "not_found",
             "error", "dropped"}

\* A plan: a model call, tool calls, perhaps a sub-agent, a model call.
PlanOf(tools, delegates) ==
  <<"model_call">> \o [i \in 1..tools |-> "tool_call"]
    \o (IF delegates THEN <<"sub_agent">> ELSE <<>>) \o <<"model_call">>

\* A StepRecord as the runner builds it at the start of an attempt.
FreshStep(n) == [status |-> "running", attempt |-> n, usage |-> 0]
-----------------------------------------------------------------------------
Init ==
  /\ status = [r \in Runs |-> "none"]
  /\ result = [r \in Runs |-> "none"]
  /\ total = [r \in Runs |-> 0]
  /\ steps = [r \in Runs |-> <<>>]
  /\ flag = [r \in Runs |-> "absent"]
  /\ pc = [r \in Runs |-> "absent"]
  /\ plan = [r \in Runs |-> <<>>]
  /\ seq = [r \in Runs |-> 0]
  /\ cur = [r \in Runs |-> NoStep]
  /\ spent = [r \in Runs |-> 0]
  /\ outcome = [r \in Runs |-> "none"]
  /\ metered = [r \in Runs |-> 0]
  /\ published = [r \in Runs |-> <<>>]
  /\ cpc = [c \in Cancels |-> "idle"]
  /\ crun \in [Cancels -> Runs]
  /\ cloaded = [c \in Cancels |-> "none"]
  /\ heard = [c \in Cancels |-> -1]
  /\ faults = 0

At(r, here, there) == pc[r] = here /\ pc' = [pc EXCEPT ![r] = there]
-----------------------------------------------------------------------------
(***************************************************************************)
(* The request that creates the run: its row is committed, then its task   *)
(* is created.  The key check of a create is the subject of CreateRun.     *)
(***************************************************************************)
CommitRun(r) ==
  /\ At(r, "absent", "inserted")
  /\ status' = [status EXCEPT ![r] = "queued"]
  /\ UNCHANGED <<result, total, steps, flag, locals, metered, published,
                 requests, faults>>

ScheduleRun(r) ==
  /\ At(r, "inserted", "scheduled")
  /\ UNCHANGED <<database, flag, locals, metered, published, requests, faults>>

(***************************************************************************)
(* The task of a run.                                                      *)
(***************************************************************************)
\* The first slice of the task registers the cancel flag.
StartTask(r) ==
  /\ At(r, "scheduled", "set_running")
  /\ flag' = [flag EXCEPT ![r] = "clear"]
  /\ UNCHANGED <<database, locals, metered, published, requests, faults>>

\* Whatever status the row was loaded with, "running" is written over it.
CommitRunning(r) ==
  /\ At(r, "set_running", "begin")
  /\ status' = [status EXCEPT ![r] = "running"]
  /\ UNCHANGED <<result, total, steps, flag, locals, metered, published,
                 requests, faults>>

\* The verdict is settled: on to the last session.
Decide(r, v) ==
  /\ outcome' = [outcome EXCEPT ![r] = v]
  /\ pc' = [pc EXCEPT ![r] = "set_final"]
  /\ UNCHANGED <<seq, cur>>

StartStep(r, k) ==
  /\ seq' = [seq EXCEPT ![r] = k]
  /\ cur' = [cur EXCEPT ![r] = FreshStep(1)]
  /\ pc' = [pc EXCEPT ![r] = "persist"]
  /\ UNCHANGED outcome

\* Variant: nothing looks at the flag again once the last step is over.
AdvanceWithoutRecheck(r, p, k) ==
  \/ /\ flag[r] = "set"
     /\ k \in 1..Len(p)
     /\ Decide(r, "cancelled")
  \/ /\ flag[r] # "set"
     /\ k \in 1..Len(p)
     /\ StartStep(r, k)
  \/ /\ k > Len(p)
     /\ Decide(r, "succeeded")

\* Variant: the flag is only looked at when the last step is over.
AdvanceChecksAtEnd(r, p, k) ==
  \/ /\ k \in 1..Len(p)
     /\ StartStep(r, k)
  \/ /\ k > Len(p)
     /\ Decide(r, IF flag[r] = "set" THEN "cancelled" ELSE "succeeded")

\* The head of the loop for step k of plan p, and what follows the loop when
\* there is no such step: the flag is looked at in both places.
Advance(r, p, k) ==
  \/ /\ flag[r] = "set"
     /\ Decide(r, "cancelled")
  \/ /\ flag[r] # "set"
     /\ k \in 1..Len(p)
     /\ StartStep(r, k)
  \/ /\ flag[r] # "set"
     /\ k > Len(p)
     /\ Decide(r, "succeeded")

BeginPlan(r) ==
  /\ pc[r] = "begin"
  /\ \E tools \in 1..MaxTools, delegates \in BOOLEAN :
       LET p == PlanOf(tools, delegates) IN
       /\ plan' = [plan EXCEPT ![r] = p]
       /\ Advance(r, p, 1)
  /\ UNCHANGED <<database, flag, spent, metered, published, requests, faults>>

\* Variants: a column is missing from the list of those copied to a row.
PersistWithoutStatus(r) ==
  steps' = [steps EXCEPT ![r] = IF seq[r] > Len(@)
                                THEN Append(@, cur[r])
                                ELSE [@ EXCEPT ![seq[r]].attempt = cur[r].attempt,
                                               ![seq[r]].usage = cur[r].usage]]

PersistWithoutUsage(r) ==
  steps' = [steps EXCEPT ![r] = IF seq[r] > Len(@)
                                THEN Append(@, cur[r])
                                ELSE [@ EXCEPT ![seq[r]].attempt = cur[r].attempt,
                                               ![seq[r]].status = cur[r].status]]

\* _persist_and_publish, its session: a new row, or the columns of the
\* existing one.
Persist(r) ==
  steps' = [steps EXCEPT ![r] = IF seq[r] > Len(@)
                                THEN Append(@, cur[r])
                                ELSE [@ EXCEPT ![seq[r]] = cur[r]]]

PersistStep(r) ==
  /\ At(r, "persist", "publish")
  /\ Persist(r)
  /\ UNCHANGED <<status, result, total, flag, locals, metered, published,
                 requests, faults>>

\* _persist_and_publish, the publication of a step saved with status s; the
\* rest of each action below is what the runner does until it next suspends.
Publish(r, s) ==
  /\ pc[r] = "publish"
  /\ cur[r].status = s
  /\ published' = [published EXCEPT ![r] = Append(@, StepEvent(seq[r], cur[r]))]

PublishStarted(r) ==
  /\ Publish(r, "running")
  /\ pc' = [pc EXCEPT ![r] = "working"]
  /\ UNCHANGED <<database, flag, locals, metered, requests, faults>>

\* Variant: one retry too many.
PublishFailedAndRetryOnceMore(r) ==
  /\ Publish(r, "failed")
  /\ cur[r].attempt <= MaxRetries + 1
  /\ cur' = [cur EXCEPT ![r].status = "retrying"]
  /\ pc' = [pc EXCEPT ![r] = "persist"]
  /\ UNCHANGED <<database, flag, plan, seq, spent, outcome, metered, requests,
                 faults>>

\* A retry is announced if one is left.
PublishFailedAndRetry(r) ==
  /\ Publish(r, "failed")
  /\ cur[r].attempt <= MaxRetries
  /\ cur' = [cur EXCEPT ![r].status = "retrying"]
  /\ pc' = [pc EXCEPT ![r] = "persist"]
  /\ UNCHANGED <<database, flag, plan, seq, spent, outcome, metered, requests,
                 faults>>

\* Variant: the loop is not left.
PublishFailedAndGoOn(r) ==
  /\ Publish(r, "failed")
  /\ cur[r].attempt > MaxRetries
  /\ spent' = [spent EXCEPT ![r] = @ + cur[r].usage]
  /\ Advance(r, plan[r], seq[r] + 1)
  /\ UNCHANGED <<database, flag, plan, metered, requests, faults>>

\* Otherwise the step, and with it the run, has failed.
PublishFailedForGood(r) ==
  /\ Publish(r, "failed")
  /\ cur[r].attempt > MaxRetries
  /\ spent' = [spent EXCEPT ![r] = @ + cur[r].usage]
  /\ Decide(r, "failed")
  /\ UNCHANGED <<database, flag, plan, metered, requests, faults>>

PublishRetrying(r) ==
  /\ Publish(r, "retrying")
  /\ pc' = [pc EXCEPT ![r] = "backoff"]
  /\ UNCHANGED <<database, flag, locals, metered, requests, faults>>

PublishSucceeded(r) ==
  /\ Publish(r, "succeeded")
  /\ spent' = [spent EXCEPT ![r] = @ + cur[r].usage]
  /\ Advance(r, plan[r], seq[r] + 1)
  /\ UNCHANGED <<database, flag, plan, metered, requests, faults>>

\* The simulated work ends in a failure.
StepFails(r) ==
  /\ At(r, "working", "persist")
  /\ plan[r][seq[r]] \in Fallible
  /\ cur' = [cur EXCEPT ![r].status = "failed"]
  /\ UNCHANGED <<database, flag, plan, seq, spent, outcome, metered, published,
                 requests, faults>>

\* It ends well: the counters are incremented before the row is saved.
StepSucceeds(r) ==
  /\ At(r, "working", "persist")
  /\ \E u \in Usage :
       /\ cur' = [cur EXCEPT ![r].status = "succeeded", ![r].usage = u]
       /\ metered' = [metered EXCEPT ![r] = @ + u]
  /\ UNCHANGED <<database, flag, plan, seq, spent, outcome, published, requests,
                 faults>>

\* Variant: the loop over the attempts is one round too short.
AttemptsWithoutLast == 1..MaxRetries

\* The range of the loop over the attempts.
Attempts == 1..(MaxRetries + 1)

\* After the backoff the next round builds a new StepRecord with the same id.  Were
\* there none, the step would be returned as it is, and the plan go on.
Retry(r) ==
  /\ pc[r] = "backoff"
  /\ IF cur[r].attempt + 1 \in Attempts
     THEN /\ pc' = [pc EXCEPT ![r] = "persist"]
          /\ cur' = [cur EXCEPT ![r] = FreshStep(@.attempt + 1)]
          /\ UNCHANGED <<seq, spent, outcome>>
     ELSE /\ spent' = [spent EXCEPT ![r] = @ + cur[r].usage]
          /\ Advance(r, plan[r], seq[r] + 1)
  /\ UNCHANGED <<database, flag, plan, metered, published, requests, faults>>

\* The last session: whatever status the row was loaded with, the verdict is
\* written over it.
CommitFinal(r) ==
  /\ At(r, "set_final", "announce")
  /\ status' = [status EXCEPT ![r] = outcome[r]]
  /\ result' = [result EXCEPT ![r] = outcome[r]]
  /\ total' = [total EXCEPT ![r] = spent[r]]
  /\ UNCHANGED <<steps, flag, locals, metered, published, requests, faults>>

\* Variant: run.completed is left out for a cancelled run.
AnnounceUnlessCancelled(r) ==
  /\ At(r, "announce", "done")
  /\ published' = IF outcome[r] = "cancelled" THEN published
                  ELSE [published EXCEPT ![r] = Append(@, CompletedEvent(outcome[r]))]
  /\ flag' = [flag EXCEPT ![r] = "absent"]
  /\ UNCHANGED <<database, locals, metered, requests, faults>>

\* run.completed is published and the cancel flag forgotten.
Announce(r) ==
  /\ At(r, "announce", "done")
  /\ published' = [published EXCEPT ![r] = Append(@, CompletedEvent(outcome[r]))]
  /\ flag' = [flag EXCEPT ![r] = "absent"]
  /\ UNCHANGED <<database, locals, metered, requests, faults>>

TaskStep(r) ==
  \/ CommitRun(r) \/ ScheduleRun(r) \/ StartTask(r) \/ CommitRunning(r)
  \/ BeginPlan(r) \/ PersistStep(r) \/ PublishStarted(r)
  \/ PublishFailedAndRetry(r) \/ PublishFailedForGood(r) \/ PublishRetrying(r)
  \/ PublishSucceeded(r) \/ StepFails(r) \/ StepSucceeds(r) \/ Retry(r)
  \/ CommitFinal(r) \/ Announce(r)
-----------------------------------------------------------------------------
(***************************************************************************)
(* A cancel request: RunService.cancel_run.                                *)
(***************************************************************************)
CancelGoto(c, there) == cpc' = [cpc EXCEPT ![c] = there]

\* The SELECT of the run, or 404.
CancelLoad(c) ==
  /\ cpc[c] = "idle"
  /\ cloaded' = [cloaded EXCEPT ![c] = status[crun[c]]]
  /\ CancelGoto(c, IF status[crun[c]] = "none" THEN "not_found" ELSE "loaded")
  /\ UNCHANGED <<database, task, crun, heard, faults>>

\* 409 when the run, as loaded, is over.
CancelRefuse(c) ==
  /\ cpc[c] = "loaded"
  /\ cloaded[c] \in TerminalStatus
  /\ CancelGoto(c, "conflict")
  /\ UNCHANGED <<database, task, crun, cloaded, heard, faults>>

\* request_cancel sets the flag, if the task has registered one.
CancelSignal(c) ==
  LET r == crun[c] IN
  /\ cpc[c] = "loaded"
  /\ cloaded[c] \notin TerminalStatus
  /\ flag' = [flag EXCEPT ![r] = IF @ = "absent" THEN "absent" ELSE "set"]
  /\ heard' = [heard EXCEPT ![c] = IF flag[r] # "absent" /\ outcome[r] = "none"
                                   THEN seq[r] ELSE -1]
  /\ CancelGoto(c, "commit")
  /\ UNCHANGED <<database, pc, locals, metered, published, crun, cloaded, faults>>

\* Variants: the cancel writes the verdict itself; it writes back the whole row
\* it has loaded.
CancelCommitsVerdict(c) ==
  /\ cpc[c] = "commit"
  /\ status' = [status EXCEPT ![crun[c]] = "cancelled"]
  /\ CancelGoto(c, "accepted")
  /\ UNCHANGED <<result, total, steps, task, crun, cloaded, heard, faults>>

CancelWritesWholeRow(c) ==
  /\ cpc[c] = "commit"
  /\ status' = [status EXCEPT ![crun[c]] = "cancelling"]
  /\ result' = [result EXCEPT ![crun[c]] = "none"]
  /\ total' = [total EXCEPT ![crun[c]] = 0]
  /\ CancelGoto(c, "accepted")
  /\ UNCHANGED <<steps, task, crun, cloaded, heard, faults>>

\* The commit.  The ORM writes the column only if it differs from the value
\* loaded; the row may be another one by now.
CancelCommit(c) ==
  /\ cpc[c] = "commit"
  /\ status' = IF cloaded[c] = "cancelling" THEN status
               ELSE [status EXCEPT ![crun[c]] = "cancelling"]
  /\ CancelGoto(c, "accepted")
  /\ UNCHANGED <<result, total, steps, task, crun, cloaded, heard, faults>>

CancelStep(c) == CancelLoad(c) \/ CancelRefuse(c) \/ CancelSignal(c) \/ CancelCommit(c)
-----------------------------------------------------------------------------
(***************************************************************************)
(* Failures.                                                               *)
(***************************************************************************)
\* A database statement of the task raises: nothing catches it, the task ends
\* with its session rolled back, and its cancel flag stays behind.
RunnerFails(r) ==
  /\ faults < MaxFaults
  /\ pc[r] \in AtDatabase
  /\ pc' = [pc EXCEPT ![r] = "crashed"]
  /\ faults' = faults + 1
  /\ UNCHANGED <<database, flag, locals, metered, published, requests>>

\* The commit of a cancel raises: 500, although the flag may be set.
CancelFails(c) ==
  /\ faults < MaxFaults
  /\ cpc[c] = "commit"
  /\ CancelGoto(c, "error")
  /\ faults' = faults + 1
  /\ UNCHANGED <<database, task, crun, cloaded, heard>>

\* The process restarts: tasks, flags and requests in flight are gone, and
\* nothing looks for the runs they leave behind.
Restart ==
  /\ faults < MaxFaults
  /\ pc' = [r \in Runs |-> IF pc[r] \in Live THEN "crashed" ELSE pc[r]]
  /\ flag' = [r \in Runs |-> "absent"]
  /\ cpc' = [c \in Cancels |-> IF cpc[c] \in {"loaded", "commit"} THEN "dropped"
                               ELSE cpc[c]]
  /\ faults' = faults + 1
  /\ UNCHANGED <<database, locals, metered, published, crun, cloaded, heard>>

\* Everything has run its course: the process idles.
Quiescent ==
  /\ \A r \in Runs : pc[r] \in {"done", "crashed"}
  /\ \A c \in Cancels : cpc[c] \notin {"idle", "loaded", "commit"}
  /\ UNCHANGED vars

Next ==
  \/ \E r \in Runs : TaskStep(r) \/ RunnerFails(r)
  \/ \E c \in Cancels : CancelStep(c) \/ CancelFails(c)
  \/ Restart
  \/ Quiescent

Spec == Init /\ [][Next]_vars

\* asyncio runs every ready task; a request, once made, is a task too, but
\* nobody has to make one.
Fairness ==
  /\ \A r \in Runs : WF_vars(TaskStep(r) /\ pc[r] # "absent")
  /\ \A c \in Cancels : WF_vars(CancelRefuse(c) \/ CancelSignal(c) \/ CancelCommit(c))

FairSpec == Spec /\ Fairness
=============================================================================
