------------------------ MODULE RunLifecycleProperties ------------------------
(***************************************************************************)
(* What is expected of a run: the properties TLC checks, the inductive     *)
(* invariant behind the proofs, and the contract RunLifecycle implements.  *)
(***************************************************************************)
EXTENDS RunLifecycle

\* Every variable keeps its type; in a row the attempt stays within 1 + MaxRetries.
TypeOK ==
  /\ status \in [Runs -> RunStatus \union {"none"}]
  /\ result \in [Runs -> TerminalStatus \union {"none"}]
  /\ total \in [Runs -> Nat]
  /\ steps \in [Runs -> Seq(StepRow)]
  /\ flag \in [Runs -> {"absent", "clear", "set"}]
  /\ pc \in [Runs -> TaskPc]
  /\ plan \in [Runs -> Seq(StepType)]
  /\ seq \in [Runs -> Nat]
  /\ cur \in [Runs -> StepRow \union {NoStep}]
  /\ spent \in [Runs -> Nat]
  /\ outcome \in [Runs -> TerminalStatus \union {"none"}]
  /\ metered \in [Runs -> Nat]
  /\ published \in [Runs -> Seq(Event)]
  /\ cpc \in [Cancels -> CancelPc]
  /\ crun \in [Cancels -> Runs]
  /\ cloaded \in [Cancels -> RunStatus \union {"none"}]
  /\ heard \in [Cancels -> Int]
  /\ faults \in 0..MaxFaults

\* The columns a verdict is written to never contradict each other: a terminal
\* status is shown with its own output or error, and a recorded output or error
\* only with that status or with "cancelling".  (A cancel that loaded the row
\* before the final commit writes the status column alone.)
StatusAgreesWithResult ==
  \A r \in Runs :
    /\ status[r] \in TerminalStatus => result[r] = status[r]
    /\ result[r] # "none" => status[r] \in {result[r], "cancelling"}

\* The verdict is the one the persisted steps bear out, whatever retries,
\* cancels and failures came between: every step before the last succeeded;
\* "succeeded" means that the whole plan did; "failed" that the last step
\* failed with no retry left; "cancelled" that no step was cut short.
VerdictMatchesSteps ==
  \A r \in Runs :
    LET n == Len(steps[r]) IN
    /\ \A i \in 1..(n - 1) : steps[r][i].status = "succeeded"
    /\ result[r] = "succeeded" =>
         n = Len(plan[r]) /\ steps[r][n].status = "succeeded"
    /\ result[r] = "failed" =>
         n > 0 /\ steps[r][n].status = "failed"
               /\ steps[r][n].attempt = MaxRetries + 1
    /\ result[r] = "cancelled" /\ n > 0 => steps[r][n].status = "succeeded"

\* A cancel that reaches the task while its verdict is open is honoured: no
\* step after the one under way ever gets a row, and the run is never reported
\* as succeeded, not even if it was in its last step.
HeardCancelIsHonoured ==
  \A c \in Cancels : heard[c] # -1 =>
    /\ Len(steps[crun[c]]) <= heard[c]
    /\ result[crun[c]] # "succeeded"

\* One source of truth for usage: the totals of a finished run, its step rows
\* and the exported counters agree, retries and failures included.
UsageAgrees ==
  \A r \in Runs : result[r] # "none" =>
    total[r] = UsageOf(steps[r]) /\ metered[r] = UsageOf(steps[r])

\* How far a step has come: its attempt, then its status within the attempt.
Rank == [running |-> 0, failed |-> 1, retrying |-> 2, succeeded |-> 3]

\* The event that announced a status (or a later one of the same step) is never
\* ahead of the table: whoever reads the steps after an event was published
\* finds the row at least as far as the event says, and whoever reads the run
\* after run.completed finds its result.
EventsAreBackedByRows ==
  \A r \in Runs : \A i \in 1..Len(published[r]) :
    LET e == published[r][i] IN
    IF e.event = "run.completed" THEN result[r] = e.verdict
    ELSE /\ e.seq <= Len(steps[r])
         /\ LET row == steps[r][e.seq] IN
            \/ row.attempt > e.attempt
            \/ /\ row.attempt = e.attempt
               /\ \E s \in StepStatus : EventOf[s] = e.event /\ Rank[s] <= Rank[row.status]

\* The events of a run tell its steps in order: a first event starts step 1, an
\* event starts an attempt exactly after a retry was announced, starts a step
\* exactly after the step before succeeded, and nothing follows run.completed.
Follows(d, e) ==
  \/ /\ d.event = "step.started"
     /\ e.event \in {"step.succeeded", "step.failed"}
     /\ e.seq = d.seq /\ e.attempt = d.attempt
  \/ /\ d.event = "step.failed"
     /\ \/ e.event = "step.retrying" /\ e.seq = d.seq /\ e.attempt = d.attempt
        \/ e = CompletedEvent("failed") /\ d.attempt = MaxRetries + 1
  \/ /\ d.event = "step.retrying"
     /\ e.event = "step.started" /\ e.seq = d.seq /\ e.attempt = d.attempt + 1
  \/ /\ d.event = "step.succeeded"
     /\ \/ e.event = "step.started" /\ e.seq = d.seq + 1 /\ e.attempt = 1
        \/ e = CompletedEvent("succeeded")
        \/ e = CompletedEvent("cancelled")

EventsTellTheStory ==
  \A r \in Runs :
    LET log == published[r] IN
    /\ log # <<>> => \/ log[1] = [event |-> "step.started", seq |-> 1, attempt |-> 1]
                     \/ log[1] = CompletedEvent("cancelled")
    /\ \A i \in 1..(Len(log) - 1) : Follows(log[i], log[i + 1])

\* A step that keeps the result of r, and overwrites its status only for a
\* cancel that had loaded it before.
KeepsResult(r) ==
  result[r] # "none" =>
    /\ result'[r] = result[r]
    /\ total'[r] = total[r]
    /\ steps'[r] = steps[r]
    /\ status'[r] # status[r] =>
         \E c \in Cancels : /\ cpc[c] = "commit"
                            /\ crun[c] = r
                            /\ cloaded[c] \notin TerminalStatus
                            /\ status'[r] = "cancelling"

\* Once a result is recorded the run is settled: its result, its totals and its
\* step rows never change again, and its status changes at most to
\* "cancelling", by a cancel that had loaded the run before it was over.
ResultIsFinal == [][\A r \in Runs : KeepsResult(r)]_vars

\* No commit fails and the process does not restart.
NothingFails == [](faults = 0)

\* Without failures every run that has been accepted ends, and is announced.
RunCompletes ==
  NothingFails =>
    \A r \in Runs : status[r] # "none" ~>
      /\ result[r] # "none"
      /\ published[r] # <<>>
      /\ Last(published[r]) = CompletedEvent(result[r])

\* Without failures a cancel that reaches the task takes effect: the run ends
\* cancelled, or failed if its last step failed first.
HeardCancelTakesEffect ==
  NothingFails =>
    \A c \in Cancels : heard[c] # -1 ~> result[crun[c]] \in {"cancelled", "failed"}

\* What the cancel route promises: once a run has shown a terminal status, it
\* keeps it.
TerminalIsFinal ==
  [][\A r \in Runs : status[r] \in TerminalStatus => status'[r] = status[r]]_vars
-----------------------------------------------------------------------------
(***************************************************************************)
(* The inductive invariant behind the safety properties.                   *)
(***************************************************************************)
BeforeLoop == {"absent", "inserted", "scheduled", "set_running", "begin"}
InLoop == {"persist", "publish", "working", "backoff"}
AfterLoop == {"set_final", "announce", "done"}

\* Where the task is tells what it has written: nothing before the loop, in the
\* loop the rows up to the step under way, after it a verdict; the result is
\* recorded last.  A cancel only proceeds on a run that has a row.
StageInv ==
  /\ \A r \in Runs :
       /\ pc[r] \in BeforeLoop => seq[r] = 0 /\ steps[r] = <<>>
       /\ pc[r] \in InLoop => cur[r] \in StepRow /\ seq[r] > 0
       /\ pc[r] \in BeforeLoop \union InLoop => outcome[r] = "none"
       /\ pc[r] \in AfterLoop => outcome[r] \in TerminalStatus
       /\ pc[r] \in BeforeLoop \union InLoop \union {"set_final"} => result[r] = "none"
       /\ pc[r] = "absent" => status[r] = "none"
       /\ result[r] # "none" => result[r] = outcome[r]
  /\ \A c \in Cancels : cpc[c] \in {"loaded", "commit"} => pc[crun[c]] # "absent"

\* The rows are those of the steps started, and the local step and its row are
\* kept together: a retry is only announced if there is an attempt left, and a
\* step is the next one only after the one before succeeded.
RowsInv ==
  \A r \in Runs :
    LET n == Len(steps[r]) IN
    /\ n <= seq[r] /\ seq[r] <= n + 1 /\ seq[r] <= Len(plan[r])
    /\ \A i \in 1..n : i < seq[r] => steps[r][i].status = "succeeded"
    /\ pc[r] \in {"publish", "working", "backoff"} => n = seq[r]
    /\ pc[r] = "publish" => steps[r][n] = cur[r]
    /\ pc[r] \in InLoop /\ cur[r].status = "retrying" => cur[r].attempt <= MaxRetries
    /\ pc[r] = "backoff" => cur[r].status = "retrying"
    /\ outcome[r] # "none" => n = seq[r]

\* What an open verdict leaves behind once it is settled.
OutcomeInv ==
  \A r \in Runs :
    LET n == Len(steps[r]) IN
    /\ outcome[r] = "succeeded" => /\ n > 0 /\ n = Len(plan[r])
                                   /\ steps[r][n].status = "succeeded"
    /\ outcome[r] = "failed" => /\ n > 0
                                /\ steps[r][n].status = "failed"
                                /\ steps[r][n].attempt = MaxRetries + 1
    /\ outcome[r] = "cancelled" /\ n > 0 => steps[r][n].status = "succeeded"

\* A run was asked to stop when a cancel was heard.
Asked == [r \in Runs |-> \E c \in Cancels : crun[c] = r /\ heard[c] # -1]

\* A flag is registered while the task runs; as long as the task can look at it
\* the flag is set exactly if a cancel was heard.
FlagInv ==
  /\ \A r \in Runs :
       /\ pc[r] \in {"absent", "inserted", "scheduled"} => flag[r] = "absent"
       /\ pc[r] \in InLoop \union {"set_running", "begin"} =>
            flag[r] # "absent" /\ (flag[r] = "set" => Asked[r])
  /\ \A c \in Cancels :
       /\ cpc[c] \in {"idle", "loaded"} => heard[c] = -1
       /\ cpc[c] = "commit" => cloaded[c] \notin TerminalStatus
       /\ heard[c] # -1 =>
            /\ heard[c] = seq[crun[c]]
            /\ pc[crun[c]] \notin {"absent", "inserted", "scheduled"}
            /\ pc[crun[c]] \in InLoop \union {"set_running", "begin"} =>
                 flag[crun[c]] = "set"
            /\ outcome[crun[c]] # "succeeded"

\* The inductive invariant: where the task is suspended, what it has written, what
\* it still holds in its locals, and which cancels it has heard, fit together.
IInv == TypeOK /\ StageInv /\ RowsInv /\ OutcomeInv /\ FlagInv /\ StatusAgreesWithResult
-----------------------------------------------------------------------------
(***************************************************************************)
(* The contract that the task and the cancel requests implement together.  *)
(***************************************************************************)
Contract == INSTANCE RunContract WITH opened <- seq, asked <- Asked,
                                      verdict <- outcome, recorded <- result

\* The task, the racing cancels and the failures implement the contract of a
\* run: a cancel heard in time opens no further step and excludes "succeeded",
\* "cancelled" is only reported when somebody asked, one verdict, recorded as
\* it was reached.
ImplementsContract == Contract!Spec

\* A row of the steps table as a reader sees it: with the type of its step.
ReadableRow(r, k) == [type   |-> plan[r][k],
                      status |-> steps[r][k].status,
                      usage  |-> steps[r][k].usage]

Table == INSTANCE RunTable
           WITH MaxSteps <- MaxTools + 3, Times <- {0},
                created <- [r \in Runs |-> 0],
                steps <- [r \in Runs |-> [k \in 1..Len(steps[r]) |-> ReadableRow(r, k)]]

\* Whatever retries, cancels and failures come between, the task and the cancels
\* write to the tables no more than a reader may rely on: rows grow one step at a
\* time, usage appears once, and the result comes last and all at once, with the
\* totals of the rows.
ImplementsRunTable == Table!TableSpec
=============================================================================
