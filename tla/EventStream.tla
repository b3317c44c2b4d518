---------------------------- MODULE EventStream ----------------------------
(***************************************************************************)
(* GET /runs/{id}/events beside the runs it follows: stream_run_events,    *)
(* its generator, and the in-process bus (RunEventBus).                    *)
(*                                                                         *)
(* The runner's and the cancels' steps are those of RunLifecycle; a step   *)
(* that publishes also puts the event into the queue of every subscriber,  *)
(* in the same slice: the queues are unbounded, so put never suspends.     *)
(* A stream reads the run, then its steps, in statements of their own;     *)
(* then it sends, and each message sent is a suspension.                   *)
(***************************************************************************)
EXTENDS RunLifecycleProperties

CONSTANT Streams   \* the requests for a stream

VARIABLES
  smode,        \* where the request is
  srun,         \* its run
  sloaded,      \* the status of the run, as loaded: is_terminal
  backlog,      \* backlog_steps
  sent,         \* what the client was sent, keep-alives left out
  subscribers,  \* _subscribers: the streams whose queue is on the list of a run
  queue,        \* the queue of a stream
  \* history: how much had been published when the steps were read, and when
  \* the stream subscribed (or found that it need not)
  before, since

bus        == <<subscribers, queue>>
streamVars == <<smode, srun, sloaded, backlog, sent, bus, before, since>>
allVars    == <<vars, streamVars>>

StreamMode == {"idle", "loaded", "replay", "tail", "closed", "gone", "not_found"}

\* A persisted step is sent under the name of its status.
ReplayName == [running   |-> "step.running",  succeeded |-> "step.succeeded",
               failed    |-> "step.failed",   retrying  |-> "step.retrying"]

ReplayOf(k, row) == [event |-> ReplayName[row.status], seq |-> k, attempt |-> row.attempt]

StreamInit ==
  /\ Init
  /\ smode = [s \in Streams |-> "idle"]
  /\ srun \in [Streams -> Runs]
  /\ sloaded = [s \in Streams |-> "none"]
  /\ backlog = [s \in Streams |-> <<>>]
  /\ sent = [s \in Streams |-> <<>>]
  /\ subscribers = [r \in Runs |-> {}]
  /\ queue = [s \in Streams |-> <<>>]
  /\ before = [s \in Streams |-> 0]
  /\ since = [s \in Streams |-> 0]

Goto(s, there) == smode' = [smode EXCEPT ![s] = there]

Send(s, e) == sent' = [sent EXCEPT ![s] = Append(@, e)]
-----------------------------------------------------------------------------
(***************************************************************************)
(* The bus.                                                                *)
(***************************************************************************)
\* What the current step publishes about r.
News(r) == SubSeq(published'[r], Len(published[r]) + 1, Len(published'[r]))

\* event_bus.publish: to every queue on the list of the run.
FanOut ==
  /\ queue' = [s \in Streams |-> IF s \in subscribers[srun[s]]
                                 THEN queue[s] \o News(srun[s]) ELSE queue[s]]
  /\ UNCHANGED <<smode, srun, sloaded, backlog, sent, subscribers, before, since>>

\* Variants: the run's whole entry is dropped; the queue stays on the list.
UnsubscribeAll(s) ==
  /\ subscribers' = [subscribers EXCEPT ![srun[s]] = {}]
  /\ queue' = [queue EXCEPT ![s] = <<>>]

UnsubscribeNobody(s) == UNCHANGED bus

\* unsubscribe takes this queue off the list of its run.
Unsubscribe(s) ==
  /\ subscribers' = [subscribers EXCEPT ![srun[s]] = @ \ {s}]
  /\ queue' = [queue EXCEPT ![s] = <<>>]
-----------------------------------------------------------------------------
(***************************************************************************)
(* A stream.                                                               *)
(***************************************************************************)
\* The SELECT of the run, or 404.
OpenStream(s) ==
  /\ smode[s] = "idle"
  /\ sloaded' = [sloaded EXCEPT ![s] = status[srun[s]]]
  /\ Goto(s, IF status[srun[s]] = "none" THEN "not_found" ELSE "loaded")
  /\ UNCHANGED <<vars, srun, backlog, sent, bus, before, since>>

\* Variant: only the steps that have ended.
LoadEndedSteps(s) ==
  /\ smode[s] = "loaded"
  /\ Goto(s, "replay")
  /\ backlog' = [backlog EXCEPT ![s] = SelectSeq(steps[srun[s]],
                                        LAMBDA row : row.status \in {"succeeded", "failed"})]
  /\ before' = [before EXCEPT ![s] = Len(published[srun[s]])]
  /\ since' = [since EXCEPT ![s] = Len(published[srun[s]])]
  /\ UNCHANGED <<vars, srun, sloaded, sent, bus>>

\* The SELECT of its steps.
LoadBacklog(s) ==
  /\ smode[s] = "loaded"
  /\ Goto(s, "replay")
  /\ backlog' = [backlog EXCEPT ![s] = steps[srun[s]]]
  /\ before' = [before EXCEPT ![s] = Len(published[srun[s]])]
  /\ since' = [since EXCEPT ![s] = Len(published[srun[s]])]
  /\ UNCHANGED <<vars, srun, sloaded, sent, bus>>

\* The loop over the backlog: one message per step.
ReplayNext(s) ==
  /\ smode[s] = "replay"
  /\ Len(sent[s]) < Len(backlog[s])
  /\ LET k == Len(sent[s]) + 1 IN Send(s, ReplayOf(k, backlog[s][k]))
  /\ UNCHANGED <<vars, smode, srun, sloaded, backlog, bus, before, since>>

ReplayIsOver(s) == smode[s] = "replay" /\ Len(sent[s]) = Len(backlog[s])

IsTerminal(s) == sloaded[s] \in TerminalStatus

\* The run was over when it was loaded: the stream ends by itself.
EndAfterReplay(s) ==
  /\ ReplayIsOver(s)
  /\ IsTerminal(s)
  /\ Send(s, CompletedEvent(sloaded[s]))
  /\ Goto(s, "closed")
  /\ UNCHANGED <<vars, srun, sloaded, backlog, bus, before, since>>

\* subscribe puts a new queue on the list of the run.
Subscribe(s) ==
  /\ ReplayIsOver(s)
  /\ ~IsTerminal(s)
  /\ subscribers' = [subscribers EXCEPT ![srun[s]] = @ \union {s}]
  /\ since' = [since EXCEPT ![s] = Len(published[srun[s]])]
  /\ Goto(s, "tail")
  /\ UNCHANGED <<vars, srun, sloaded, backlog, sent, queue, before>>

\* Variant: a failed step ends the stream.
EndsOnFailure(e) == e.event \in {"run.completed", "step.failed"}

\* The event after which the generator leaves its loop.
Ends(e) == e.event = "run.completed"

\* The head of the queue is sent; on a timeout a keep-alive comment would be.
Deliver(s) ==
  /\ smode[s] = "tail"
  /\ queue[s] # <<>>
  /\ Send(s, Head(queue[s]))
  /\ \/ /\ ~Ends(Head(queue[s]))
        /\ queue' = [queue EXCEPT ![s] = Tail(@)]
        /\ UNCHANGED <<smode, subscribers>>
     \/ /\ Ends(Head(queue[s]))
        /\ Unsubscribe(s)
        /\ Goto(s, "closed")
  /\ UNCHANGED <<vars, srun, sloaded, backlog, before, since>>

\* The locals of the streams in gone, what their clients were sent and the history
\* of both are forgotten.
Forget(gone) ==
  /\ smode' = [s \in Streams |-> IF s \in gone THEN "gone" ELSE smode[s]]
  /\ sloaded' = [s \in Streams |-> IF s \in gone THEN "none" ELSE sloaded[s]]
  /\ backlog' = [s \in Streams |-> IF s \in gone THEN <<>> ELSE backlog[s]]
  /\ sent' = [s \in Streams |-> IF s \in gone THEN <<>> ELSE sent[s]]
  /\ before' = [s \in Streams |-> IF s \in gone THEN 0 ELSE before[s]]
  /\ since' = [s \in Streams |-> IF s \in gone THEN 0 ELSE since[s]]
  /\ UNCHANGED srun

Open == { s \in Streams : smode[s] \in {"loaded", "replay", "tail"} }

\* The client goes away, or the SELECT of the steps raises; a generator that has
\* subscribed unsubscribes on its way out.
Leave(s) ==
  /\ s \in Open
  /\ IF smode[s] = "tail" THEN Unsubscribe(s) ELSE UNCHANGED bus
  /\ Forget({s})
  /\ UNCHANGED vars

\* What a stream does by itself once it is open.
StreamStep(s) ==
  LoadBacklog(s) \/ ReplayNext(s) \/ EndAfterReplay(s) \/ Subscribe(s) \/ Deliver(s)
-----------------------------------------------------------------------------
\* A step of a run's task, or of a cancel, with its publication.
RunStep(r) == TaskStep(r) /\ FanOut

Work ==
  \/ \E r \in Runs : TaskStep(r) \/ RunnerFails(r)
  \/ \E c \in Cancels : CancelStep(c) \/ CancelFails(c)

\* A restart also ends the streams, and the bus with its queues.
RestartAll ==
  /\ Restart
  /\ Forget(Open)
  /\ subscribers' = [r \in Runs |-> {}]
  /\ queue' = [s \in Streams |-> <<>>]

Idle ==
  /\ Quiescent
  /\ \A s \in Streams : smode[s] \in {"closed", "gone", "not_found"}
  /\ UNCHANGED streamVars

StreamNext ==
  \/ Work /\ FanOut
  \/ \E s \in Streams : OpenStream(s) \/ StreamStep(s) \/ Leave(s)
  \/ RestartAll
  \/ Idle

StreamSpec == StreamInit /\ [][StreamNext]_allVars

\* As in RunLifecycle; and a client that is still there reads what it is sent.
FairStreamSpec ==
  /\ StreamSpec
  /\ \A r \in Runs : WF_allVars(RunStep(r) /\ pc[r] # "absent")
  /\ \A c \in Cancels :
       WF_allVars((CancelRefuse(c) \/ CancelSignal(c) \/ CancelCommit(c)) /\ FanOut)
  /\ \A s \in Streams : WF_allVars(StreamStep(s))
-----------------------------------------------------------------------------
(***************************************************************************)
(* Properties.                                                             *)
(***************************************************************************)
\* The live part of a stream is gapless: what it was sent after the replay, and
\* what waits in its queue, is what was published since it subscribed, whatever
\* other streams of the run come and go.
LiveTailIsGapless ==
  \A s \in Streams : smode[s] = "tail" =>
    LET log == published[srun[s]] IN
    SubSeq(sent[s], Len(backlog[s]) + 1, Len(sent[s])) \o queue[s]
      = SubSeq(log, since[s] + 1, Len(log))

\* Message m tells what event e tells, or something later about the same step.
Tells(m, e) ==
  IF "run.completed" \in {m.event, e.event} THEN m = e
  ELSE /\ m.seq = e.seq
       /\ \/ m.attempt > e.attempt
          \/ /\ m.attempt = e.attempt
             /\ \E x, y \in StepStatus :
                  /\ m.event \in {EventOf[x], ReplayName[x]}
                  /\ e.event = EventOf[y]
                  /\ Rank[y] <= Rank[x]

\* A late subscriber misses no step event but those published while it replays:
\* what was published before its steps were read is in the replay (rows are saved
\* before they are announced), and what was published since it subscribed, also
\* run.completed, it is told or has in its queue.  There is no gap at all if the
\* run was over when it was loaded.
MissesOnlyTheGap ==
  \A s \in Streams : smode[s] \in {"tail", "closed"} \/ ReplayIsOver(s) =>
    LET log  == published[srun[s]]
        told == Range(sent[s] \o queue[s])
    IN  \A i \in 1..Len(log) :
          \/ i <= before[s] /\ log[i].event # "run.completed"
          \/ i > since[s] /\ smode[s] # "replay"
          => \E m \in told : Tells(m, log[i])

\* A stream is closed by the service exactly when the client was told the result
\* of the run, the one the run resource shows, as the last message.
EndsWithTheResult ==
  \A s \in Streams :
    /\ smode[s] = "closed" =>
         /\ sent[s] # <<>>
         /\ Last(sent[s]) = CompletedEvent(result[srun[s]])
    /\ smode[s] # "closed" => \A m \in Range(sent[s]) : m.event # "run.completed"

\* No queue stays on the bus, filled and never read, once its client is gone.
OnlyListenersAreSubscribed ==
  \A r \in Runs : subscribers[r] = { s \in Streams : smode[s] = "tail" /\ srun[s] = r }

\* What the route promises: a stream tails live and closes once the run reaches a
\* terminal state.
StreamCloses ==
  \A s \in Streams : smode[s] = "loaded" ~> smode[s] \in {"closed", "gone"}
=============================================================================
