------------------------------ MODULE RunTable ------------------------------
(***************************************************************************)
(* The tables of runs and steps as their readers see them: which changes,  *)
(* one commit each, the writers of the service may make.  The runner and   *)
(* the cancels of RunLifecycle implement it; the list, the analytics and   *)
(* the other reads are checked beside it.                                  *)
(***************************************************************************)
EXTENDS RunTypes

CONSTANTS
  Runs,      \* the runs
  MaxSteps,  \* bound on the steps of a run
  Usage,     \* what a successful step may consume
  Times      \* the values of created_at

ASSUME TableAssumption == Usage \subseteq Nat /\ Times \subseteq Nat

VARIABLES
  status, result, total,  \* as in RunLifecycle
  steps,                  \* the rows of a run, in the order of seq
  created                 \* the created_at column

tables == <<status, result, total, steps, created>>

ReadableStep == [type: StepType, status: StepStatus, usage: Nat]

TableInit ==
  /\ status = [r \in Runs |-> "none"]
  /\ result = [r \in Runs |-> "none"]
  /\ total = [r \in Runs |-> 0]
  /\ steps = [r \in Runs |-> <<>>]
  /\ created = [r \in Runs |-> 0]

Existing == { r \in Runs : status[r] # "none" }

\* The commit of a new run.  Its time was taken before it waited for the lock, and
\* the clock may be coarse or set back: it may be any.
InsertRun(r) ==
  /\ status[r] = "none"
  /\ status' = [status EXCEPT ![r] = "queued"]
  /\ \E t \in Times : created' = [created EXCEPT ![r] = t]
  /\ UNCHANGED <<result, total, steps>>

\* The task writes "running" once it starts, a cancel "cancelling" at any time.
SetStatus(r) ==
  /\ r \in Existing
  /\ \/ status' = [status EXCEPT ![r] = "cancelling"]
     \/ /\ result[r] = "none"
        /\ status' = [status EXCEPT ![r] = "running"]
  /\ UNCHANGED <<result, total, steps, created>>

\* Steps are only run once "running" was written, and the first calls a model.
AddStep(r) ==
  /\ r \in Existing
  /\ status[r] # "queued"
  /\ result[r] = "none"
  /\ Len(steps[r]) < MaxSteps
  /\ \A k \in 1..Len(steps[r]) : steps[r][k].status = "succeeded"
  /\ \E t \in IF steps[r] = <<>> THEN {"model_call"} ELSE StepType :
       steps' = [steps EXCEPT ![r] = Append(@, [type |-> t, status |-> "running", usage |-> 0])]
  /\ UNCHANGED <<status, result, total, created>>

\* From one saved status of a fallible step to the next.
StepMoves == {<<"running", "failed">>, <<"failed", "retrying">>, <<"retrying", "running">>}

\* The last step moves on; a success comes with its usage.
ChangeStep(r) ==
  LET n == Len(steps[r]) IN
  /\ result[r] = "none"
  /\ n > 0
  /\ \/ \E move \in StepMoves :
          /\ steps[r][n].type \in Fallible
          /\ steps[r][n].status = move[1]
          /\ steps' = [steps EXCEPT ![r][n].status = move[2]]
     \/ /\ steps[r][n].status = "running"
        /\ \E u \in Usage :
             steps' = [steps EXCEPT ![r][n].status = "succeeded", ![r][n].usage = u]
  /\ UNCHANGED <<status, result, total, created>>

\* The verdicts the rows of a run allow.
Verdicts(rows) ==
  IF rows # <<>> /\ Last(rows).status = "failed" THEN {"failed"}
  ELSE IF rows = <<>> THEN {"cancelled"}
  ELSE IF Last(rows).status = "succeeded" THEN {"succeeded", "cancelled"}
  ELSE {}

\* The last commit of the task: verdict, status and totals together.
FinishRun(r) ==
  /\ r \in Existing
  /\ status[r] # "queued"
  /\ result[r] = "none"
  /\ \E v \in Verdicts(steps[r]) :
       /\ result' = [result EXCEPT ![r] = v]
       /\ status' = [status EXCEPT ![r] = v]
  /\ total' = [total EXCEPT ![r] = UsageOf(steps[r])]
  /\ UNCHANGED <<steps, created>>

WriteRun(r) == InsertRun(r) \/ SetStatus(r) \/ AddStep(r) \/ ChangeStep(r) \/ FinishRun(r)

TableNext == \E r \in Runs : WriteRun(r)

TableSpec == TableInit /\ [][TableNext]_tables
=============================================================================
