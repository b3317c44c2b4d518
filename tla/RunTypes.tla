------------------------------ MODULE RunTypes ------------------------------
(***************************************************************************)
(* The vocabulary of the service: the statuses of a run and of a step, the *)
(* kinds of step, the events of the bus.  It has no state.                 *)
(***************************************************************************)
EXTENDS Naturals, SequencesExt

\* The statuses after which a run is over (the tuple tested by the cancel
\* and the events handlers).
TerminalStatus == {"succeeded", "failed", "cancelled"}

RunStatus == {"queued", "running", "cancelling"} \union TerminalStatus

StepStatus == {"running", "succeeded", "failed", "retrying"}

StepType == {"model_call", "tool_call", "sub_agent"}

\* In the simulation only tools and sub-agents fail.
Fallible == {"tool_call", "sub_agent"}

\* The name under which the runner publishes a step it has just saved with
\* status s: the third argument of each _persist_and_publish call.
EventOf == [running   |-> "step.started",  succeeded |-> "step.succeeded",
            failed    |-> "step.failed",   retrying  |-> "step.retrying"]

EventName == {"step.started", "step.succeeded", "step.failed",
              "step.retrying", "run.completed"}

\* A message of the bus about step number k, whose record is s; and the last
\* message of a run, which carries its verdict.
StepEvent(k, s) == [event |-> EventOf[s.status], seq |-> k, attempt |-> s.attempt]

CompletedEvent(verdict) == [event |-> "run.completed", verdict |-> verdict]

Event == [event: EventName \ {"run.completed"}, seq: Nat, attempt: Nat]
           \union [event: {"run.completed"}, verdict: TerminalStatus]

\* What the step rows of a run have consumed.
UsageOf(rows) ==
  LET upTo[n \in 0..Len(rows)] == IF n = 0 THEN 0 ELSE upTo[n - 1] + rows[n].usage
  IN  upTo[Len(rows)]
=============================================================================
