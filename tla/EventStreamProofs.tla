------------------------- MODULE EventStreamProofs -------------------------
(***************************************************************************)
(* Proofs about EventStream, for any number of runs, cancels and streams:  *)
(* the bus keeps no queue whose client is gone, and a client is told all   *)
(* of its run but what is announced while it replays, also when the pool   *)
(* of connections is exhausted.                                            *)
(*                                                                         *)
(* The last rests on what is proved of events: a run that has its result   *)
(* publishes run.completed only, nothing follows it, and saved steps cover *)
(* what was announced before they were read.                               *)
(***************************************************************************)
EXTENDS ConnectionPool, RunRecordsProofs

\* A step of the composition is a step of the service, or one of a stream that
\* leaves the service alone.
LEMMA ServiceStep ==
  ASSUME [StreamNext]_allVars
  PROVE  [Next]_vars
<1>1. ASSUME Work PROVE Next
  BY <1>1 DEF Work, Next
<1>2. ASSUME NEW s \in Streams, OpenStream(s) \/ StreamStep(s) \/ Leave(s)
      PROVE  UNCHANGED vars
  BY <1>2 DEF OpenStream, StreamStep, LoadBacklog, ReplayNext, EndAfterReplay, Subscribe,
              Deliver, Leave
<1>3. ASSUME RestartAll PROVE Next
  BY <1>3 DEF RestartAll, Next
<1>4. ASSUME Idle PROVE Next
  BY <1>4 DEF Idle, Next
<1>5. ASSUME UNCHANGED allVars PROVE UNCHANGED vars
  BY <1>5 DEF allVars
<1>6. QED
  BY <1>1, <1>2, <1>3, <1>4, <1>5 DEF StreamNext

\* So what is proved of RunLifecycle may be used beside streams: publish never
\* suspends, and a stream writes nothing that a task or a cancel reads.
LEMMA StreamsDoNotDisturb == StreamSpec => Spec
<1>1. StreamInit => Init
  BY DEF StreamInit
<1>2. [StreamNext]_allVars => [Next]_vars
  BY ServiceStep
<1>3. QED
  BY <1>1, <1>2, PTL DEF StreamSpec, Spec

\* The types a queue's place on the bus depends on.
BusTypeOK ==
  /\ smode \in [Streams -> StreamMode]
  /\ srun \in [Streams -> Runs]
  /\ subscribers \in [Runs -> SUBSET Streams]

BusInv == BusTypeOK /\ OnlyListenersAreSubscribed

\* Subscribing and unsubscribing, by a stream that ends, leaves or is cut off, keep
\* the list of a run's queues that of its listeners.
LEMMA BusStep ==
  ASSUME BusInv, [StreamNext]_allVars
  PROVE  BusInv'
<1> USE DEF BusInv, BusTypeOK, OnlyListenersAreSubscribed, StreamMode, bus
<1>1. ASSUME Work, FanOut PROVE BusInv'
  BY <1>1 DEF FanOut
<1>2. ASSUME NEW s \in Streams, OpenStream(s) PROVE BusInv'
  BY <1>2 DEF OpenStream, Goto
<1>3. ASSUME NEW s \in Streams, LoadBacklog(s) PROVE BusInv'
  BY <1>3 DEF LoadBacklog, Goto
<1>4. ASSUME NEW s \in Streams, ReplayNext(s) PROVE BusInv'
  BY <1>4 DEF ReplayNext
<1>5. ASSUME NEW s \in Streams, EndAfterReplay(s) PROVE BusInv'
  BY <1>5 DEF EndAfterReplay, ReplayIsOver, Goto
<1>6. ASSUME NEW s \in Streams, Subscribe(s) PROVE BusInv'
  BY <1>6 DEF Subscribe, ReplayIsOver, Goto
<1>7. ASSUME NEW s \in Streams, Deliver(s) PROVE BusInv'
  BY <1>7 DEF Deliver, Unsubscribe, Goto
<1>8. ASSUME NEW s \in Streams, Leave(s) PROVE BusInv'
  BY <1>8 DEF Leave, Unsubscribe, Forget, Open
<1>9. ASSUME RestartAll PROVE BusInv'
  BY <1>9 DEF RestartAll, Forget, Open
<1>10. ASSUME Idle \/ UNCHANGED allVars PROVE BusInv'
  BY <1>10 DEF Idle, streamVars, allVars
<1>11. QED
  BY <1>1, <1>2, <1>3, <1>4, <1>5, <1>6, <1>7, <1>8, <1>9, <1>10
  DEF StreamNext, StreamStep

\* No queue stays on the bus once its client is gone, whether its stream ended,
\* its client left or it never listened (runs.py:151-163, pubsub.py:22-32).
THEOREM NoQueueLeaks == StreamSpec => []OnlyListenersAreSubscribed
<1>1. StreamInit => BusInv
  BY DEF StreamInit, BusInv, BusTypeOK, OnlyListenersAreSubscribed, StreamMode
<1>2. BusInv /\ [StreamNext]_allVars => BusInv'
  BY BusStep
<1>3. BusInv => OnlyListenersAreSubscribed
  BY DEF BusInv
<1>4. QED
  BY <1>1, <1>2, <1>3, PTL DEF StreamSpec
-----------------------------------------------------------------------------
(***************************************************************************)
(* What a client is told.                                                  *)
(***************************************************************************)
\* What a client may be sent.
Message == Event \union [event: {"step.running"}, seq: Nat, attempt: Nat]

StreamsTyped ==
  /\ BusTypeOK
  /\ sloaded \in [Streams -> RunStatus \union {"none"}]
  /\ backlog \in [Streams -> Seq(StepRow)]
  /\ sent \in [Streams -> Seq(Message)]
  /\ queue \in [Streams -> Seq(Event)]
  /\ before \in [Streams -> Nat]
  /\ since \in [Streams -> Nat]

\* Nothing is sent before the replay, and only a listener has a queue.
QuietOK(s) ==
  /\ smode[s] \in {"idle", "loaded", "not_found", "gone"} => sent[s] = <<>>
  /\ smode[s] # "tail" => queue[s] = <<>>

\* The replay tells the rows read, and they cover what was announced before.
ReplayOK(s) ==
  LET log == published[srun[s]]
      n   == Len(backlog[s])
  IN  smode[s] \in {"replay", "tail", "closed"} =>
        /\ smode[s] = "replay" => Len(sent[s]) <= n
        /\ smode[s] # "replay" => n <= Len(sent[s])
        /\ \A k \in 1..Len(sent[s]) : k <= n => sent[s][k] = ReplayOf(k, backlog[s][k])
        /\ before[s] <= Len(log)
        /\ \A i \in 1..before[s] :
             ~Ends(log[i]) => log[i].seq > 0 /\ Backed(log[i], backlog[s], "none")

\* A run that was over when it was loaded announces nothing but its result.
OverOK(s) ==
  LET log == published[srun[s]]
      n   == Len(backlog[s])
  IN  smode[s] \in {"loaded", "replay", "closed"} /\ IsTerminal(s) =>
        /\ result[srun[s]] = sloaded[s]
        /\ smode[s] # "loaded" =>
             \A i \in (since[s] + 1)..Len(log) : log[i] = CompletedEvent(sloaded[s])
        /\ smode[s] = "closed" =>
             Len(sent[s]) = n + 1 /\ sent[s][n + 1] = CompletedEvent(sloaded[s])

\* What was said after the first n messages, and then what waits, is the log from a
\* point on.
Gapless(said, n, waiting, log, from) ==
  LET told == Len(said) - n IN
  /\ told \in Nat
  /\ told + Len(waiting) = Len(log) - from
  /\ \A i \in 1..told : said[n + i] = log[from + i]
  /\ \A j \in 1..Len(waiting) : waiting[j] = log[from + told + j]

\* A listener misses nothing, and stops at run.completed, after which nothing is.
TailOK(s) ==
  LET n == Len(backlog[s]) IN
  /\ smode[s] = "tail" => /\ ~IsTerminal(s)
                          /\ \A k \in (n + 1)..Len(sent[s]) : ~Ends(sent[s][k])
  /\ smode[s] \in {"tail", "closed"} /\ ~IsTerminal(s) =>
       Gapless(sent[s], n, queue[s], published[srun[s]], since[s])
  /\ smode[s] = "closed" /\ ~IsTerminal(s) =>
       Len(sent[s]) > n /\ Ends(sent[s][Len(sent[s])])

StreamOK(s) == QuietOK(s) /\ ReplayOK(s) /\ OverOK(s) /\ TailOK(s)

StreamsInv == StreamsTyped /\ \A s \in Streams : StreamOK(s)

\* What the proofs below rest on.
Grounds == IInv /\ EventsInv /\ BusInv /\ StreamsTyped

\* A message replayed does not tell that the run is over.
LEMMA ReplayTyped ==
  ASSUME NEW k \in Nat, NEW row \in StepRow
  PROVE  ReplayOf(k, row) \in Message /\ ~Ends(ReplayOf(k, row))
BY RetriesAssumption
DEF ReplayOf, ReplayName, StepRow, StepStatus, Message, Event, EventName, Ends

\* A step of the service announces one event of a run at most, and of a run that has
\* its result only that.
LEMMA OneAtATime ==
  ASSUME IInv, NEW r \in Runs, [Next]_vars
  PROVE  \/ published'[r] = published[r]
         \/ \E e \in Event : /\ published'[r] = Append(published[r], e)
                             /\ result[r] # "none" => e = CompletedEvent(result[r])
<1> DEFINE Silent == published'[r] = published[r]
           Speaks == \E e \in Event : /\ published'[r] = Append(published[r], e)
                                      /\ result[r] # "none" => e = CompletedEvent(result[r])
<1> HIDE DEF Silent, Speaks
<1>1. TypeOK /\ StageInv
  BY DEF IInv
<1>2. ASSUME NEW q \in Runs \ {r}, TaskStep(q) \/ RunnerFails(q) PROVE Silent
  BY <1>1, <1>2, OthersRest DEF Rests, Silent
<1>3. ASSUME NEW s \in StepStatus, Publish(r, s) PROVE Speaks
  <2>1. pc[r] = "publish" /\ published'[r] = Append(published[r], StepEvent(seq[r], cur[r]))
    BY <1>1, <1>3 DEF Publish, TypeOK
  <2>2. cur[r] \in StepRow /\ seq[r] \in Nat \ {0} /\ result[r] = "none"
    BY <2>1, InTheLoop DEF InLoop
  <2>3. StepEvent(seq[r], cur[r]) \in Event
    BY <2>2, StepEventTyped
  <2>4. QED
    BY <2>1, <2>2, <2>3 DEF Speaks
<1>4. ASSUME Announce(r) PROVE Speaks
  <2>1. /\ published'[r] = Append(published[r], CompletedEvent(outcome[r]))
        /\ outcome[r] \in TerminalStatus
        /\ result[r] # "none" => result[r] = outcome[r]
    BY <1>1, <1>4 DEF Announce, At, TypeOK, StageInv, AfterLoop
  <2>2. QED
    BY <2>1, CompletedEventTyped DEF Speaks
<1>5. ASSUME \/ CommitRun(r) \/ ScheduleRun(r) \/ StartTask(r) \/ CommitRunning(r)
             \/ BeginPlan(r) \/ PersistStep(r) \/ StepFails(r) \/ StepSucceeds(r)
             \/ Retry(r) \/ CommitFinal(r) \/ RunnerFails(r)
      PROVE  Silent
  BY <1>5 DEF CommitRun, ScheduleRun, StartTask, CommitRunning, BeginPlan, PersistStep,
              StepFails, StepSucceeds, Retry, CommitFinal, RunnerFails, Silent
<1>6. ASSUME \/ PublishStarted(r) \/ PublishFailedAndRetry(r) \/ PublishFailedForGood(r)
             \/ PublishRetrying(r) \/ PublishSucceeded(r)
      PROVE  Speaks
  <2>1. \E s \in StepStatus : Publish(r, s)
    BY <1>6 DEF PublishStarted, PublishFailedAndRetry, PublishFailedForGood,
                PublishRetrying, PublishSucceeded, StepStatus
  <2>2. QED
    BY <1>3, <2>1
<1>7. ASSUME NEW c \in Cancels, CancelStep(c) \/ CancelFails(c) PROVE Silent
  BY <1>7 DEF CancelStep, CancelLoad, CancelRefuse, CancelSignal, CancelCommit,
              CancelFails, task, Silent
<1>8. ASSUME UNCHANGED vars PROVE Silent
  BY <1>8 DEF vars, task, Silent
<1>9. ASSUME TaskStep(r) PROVE Silent \/ Speaks
  <2>1. CASE Announce(r)
    BY <1>4, <2>1
  <2>2. CASE ~Announce(r)
    BY <1>5, <1>6, <1>9, <2>2 DEF TaskStep
  <2>3. QED
    BY <2>1, <2>2
<1>10. ASSUME NEW q \in Runs, TaskStep(q) \/ RunnerFails(q) PROVE Silent \/ Speaks
  <2>1. CASE q = r
    BY <1>5, <1>9, <1>10, <2>1
  <2>2. CASE q # r
    BY <1>2, <1>10, <2>2
  <2>3. QED
    BY <2>1, <2>2
<1>11. ASSUME Restart PROVE Silent
  BY <1>11 DEF Restart, Silent
<1>12. Silent \/ Speaks
  BY <1>7, <1>8, <1>10, <1>11 DEF Next, Quiescent
<1>13. QED
  BY <1>12 DEF Silent, Speaks

\* The news of a step is the event it announces, if any.
LEMMA NewsAreTheEvent ==
  ASSUME NEW r \in Runs, published[r] \in Seq(Event)
  PROVE  /\ published'[r] = published[r] => News(r) = <<>>
         /\ \A e \in Event : published'[r] = Append(published[r], e) => News(r) = <<e>>
<1> DEFINE n == Len(published[r])
<1>1. n \in Nat
  BY LenProperties
<1>2. ASSUME published'[r] = published[r] PROVE News(r) = <<>>
  BY <1>1, <1>2, SubSeqEmpty DEF News
<1>3. ASSUME NEW e \in Event, published'[r] = Append(published[r], e) PROVE News(r) = <<e>>
  <2> DEFINE log == published'[r]
  <2>1. Len(log) = n + 1 /\ log[n + 1] = e
    BY <1>3, AppendProperties
  <2>2. News(r) = SubSeq(log, n + 1, n + 1)
    BY <2>1 DEF News
  <2>3. SubSeq(log, n + 1, n + 1) = SubSeq(log, n + 1, n) \o <<log[n + 1]>>
    <3>1. n + 1 \in 1..Len(log) /\ n + 1 \in (n + 1)..Len(log) /\ log \in Seq(Event)
          /\ (n + 1) - 1 = n
      BY <1>1, <1>3, <2>1, AppendProperties
    <3>2. QED
      BY <3>1, SubSeqRecursiveSecond
  <2>4. SubSeq(log, n + 1, n) = <<>> /\ <<>> \o <<e>> = <<e>>
    <3>1. <<e>> \in Seq(Event)
      OBVIOUS
    <3>2. QED
      BY <1>1, <3>1, SubSeqEmpty, ConcatEmptySeq
  <2>5. QED
    BY <2>1, <2>2, <2>3, <2>4
<1>4. QED
  BY <1>2, <1>3

-----------------------------------------------------------------------------
(***************************************************************************)
(* Lemmas about what was said and what waits.                              *)
(***************************************************************************)
\* It begins with nothing said, nothing waiting and the log as it is.
LEMMA GaplessBegins ==
  ASSUME NEW said \in Seq(Message), NEW log \in Seq(Event)
  PROVE  Gapless(said, Len(said), <<>>, log, Len(log))
BY LenProperties, EmptySeq DEF Gapless

\* An event joins the log and the queue.
LEMMA GaplessGrows ==
  ASSUME NEW said \in Seq(Message), NEW n \in Nat, NEW waiting \in Seq(Event),
         NEW log \in Seq(Event), NEW from \in Nat, NEW e \in Event,
         Gapless(said, n, waiting, log, from)
  PROVE  Gapless(said, n, Append(waiting, e), Append(log, e), from)
<1> DEFINE more == Append(waiting, e)
           later == Append(log, e)
<1>1. /\ Len(more) = Len(waiting) + 1 /\ more[Len(waiting) + 1] = e
      /\ \A j \in 1..Len(waiting) : more[j] = waiting[j]
      /\ Len(later) = Len(log) + 1 /\ later[Len(log) + 1] = e
      /\ \A i \in 1..Len(log) : later[i] = log[i]
  BY AppendProperties
<1>2. Len(said) \in Nat /\ Len(waiting) \in Nat /\ Len(log) \in Nat
  BY LenProperties
<1> DEFINE told == Len(said) - n
<1>3. /\ told \in Nat /\ told + Len(waiting) = Len(log) - from
      /\ \A i \in 1..told : said[n + i] = log[from + i]
      /\ \A j \in 1..Len(waiting) : waiting[j] = log[from + told + j]
  BY DEF Gapless
<1> HIDE DEF more, later, told
<1>4. told + Len(more) = Len(later) - from
  BY <1>1, <1>2, <1>3
<1>5. \A i \in 1..told : said[n + i] = later[from + i]
  <2> SUFFICES ASSUME NEW i \in 1..told PROVE said[n + i] = later[from + i]
    OBVIOUS
  <2>1. from + i \in 1..Len(log)
    BY <1>2, <1>3
  <2>2. QED
    BY <1>1, <1>3, <2>1
<1>6. \A j \in 1..Len(more) : more[j] = later[from + told + j]
  <2> SUFFICES ASSUME NEW j \in 1..Len(more) PROVE more[j] = later[from + told + j]
    OBVIOUS
  <2>1. CASE j <= Len(waiting)
    <3>1. from + told + j \in 1..Len(log) /\ j \in 1..Len(waiting)
      BY <1>2, <1>3, <2>1
    <3>2. QED
      BY <1>1, <1>3, <3>1
  <2>2. CASE j = Len(waiting) + 1
    <3>1. Len(log) = from + told + Len(waiting)
      BY <1>2, <1>3
    <3>2. from + told + (Len(waiting) + 1) = Len(log) + 1
      BY <1>2, <1>3, <3>1
    <3>3. QED
      BY <1>1, <2>2, <3>2
  <2>3. QED
    BY <1>1, <1>2, <2>1, <2>2
<1>7. QED
  BY <1>3, <1>4, <1>5, <1>6 DEF Gapless, more, later, told

\* The head of the queue is said.
LEMMA GaplessMoves ==
  ASSUME NEW said \in Seq(Message), NEW n \in Nat, NEW waiting \in Seq(Event),
         NEW log \in Seq(Event), NEW from \in Nat, waiting # <<>>,
         Gapless(said, n, waiting, log, from)
  PROVE  Gapless(Append(said, Head(waiting)), n, Tail(waiting), log, from)
<1> DEFINE e == Head(waiting)
           rest == Tail(waiting)
           more == Append(said, e)
<1>1. /\ e \in Event /\ e = waiting[1] /\ Len(rest) = Len(waiting) - 1
      /\ \A j \in 1..Len(rest) : rest[j] = waiting[j + 1]
      /\ Len(waiting) > 0
  BY HeadTailProperties, EmptySeq
<1>2. Len(said) \in Nat /\ Len(waiting) \in Nat /\ Len(log) \in Nat
  BY LenProperties
<1>3. /\ Len(more) = Len(said) + 1 /\ more[Len(said) + 1] = e
      /\ \A j \in 1..Len(said) : more[j] = said[j]
  BY <1>1, AppendProperties DEF Message
<1> DEFINE told == Len(said) - n
<1>4. /\ told \in Nat /\ told + Len(waiting) = Len(log) - from
      /\ \A i \in 1..told : said[n + i] = log[from + i]
      /\ \A j \in 1..Len(waiting) : waiting[j] = log[from + told + j]
      /\ Len(said) = n + told
  BY <1>2 DEF Gapless
<1>5. told + 1 = Len(more) - n
  BY <1>2, <1>3
<1> HIDE DEF e, rest, more, told
<1>6. (told + 1) + Len(rest) = Len(log) - from
  BY <1>1, <1>2, <1>4
<1>7. \A i \in 1..(told + 1) : more[n + i] = log[from + i]
  <2> SUFFICES ASSUME NEW i \in 1..(told + 1) PROVE more[n + i] = log[from + i]
    OBVIOUS
  <2>1. CASE i <= told
    <3>1. n + i \in 1..Len(said) /\ i \in 1..told
      BY <1>4, <2>1
    <3>2. QED
      BY <1>3, <1>4, <3>1
  <2>2. CASE i = told + 1
    <3>1. n + i = Len(said) + 1 /\ from + i = from + told + 1
      BY <1>2, <1>4, <2>2
    <3>2. e = log[from + told + 1]
      <4>1. 1 \in 1..Len(waiting)
        BY <1>1, <1>2
      <4>2. QED
        BY <1>1, <1>4, <4>1
    <3>3. QED
      BY <1>3, <3>1, <3>2
  <2>3. QED
    BY <1>4, <2>1, <2>2
<1>8. \A j \in 1..Len(rest) : rest[j] = log[from + (told + 1) + j]
  <2> SUFFICES ASSUME NEW j \in 1..Len(rest) PROVE rest[j] = log[from + (told + 1) + j]
    OBVIOUS
  <2>1. j + 1 \in 1..Len(waiting) /\ from + (told + 1) + j = from + told + (j + 1)
    BY <1>1, <1>2, <1>4
  <2>2. waiting[j + 1] = log[from + told + (j + 1)]
    BY <1>4, <2>1
  <2>3. QED
    BY <1>1, <2>1, <2>2
<1>9. Gapless(more, n, rest, log, from)
  <2>1. told + 1 \in Nat
    BY <1>4
  <2> DEFINE now == Len(more) - n
  <2> HIDE DEF now
  <2>2. now = told + 1
    BY <1>5 DEF now
  <2>3. /\ now \in Nat /\ now + Len(rest) = Len(log) - from
        /\ \A i \in 1..now : more[n + i] = log[from + i]
        /\ \A j \in 1..Len(rest) : rest[j] = log[from + now + j]
    BY <1>6, <1>7, <1>8, <2>1, <2>2
  <2>4. QED
    BY <2>3 DEF Gapless, now
<1>10. QED
  BY <1>9 DEF e, rest, more

\* With nothing left waiting, what was said last is what the log ends with.
LEMMA GaplessEnds ==
  ASSUME NEW said \in Seq(Message), NEW n \in Nat, NEW log \in Seq(Event),
         NEW from \in Nat, Gapless(said, n, <<>>, log, from), Len(said) > n
  PROVE  log # <<>> /\ log[Len(log)] = said[Len(said)]
<1> DEFINE told == Len(said) - n
<1>1. Len(said) \in Nat /\ Len(log) \in Nat
  BY LenProperties
<1>2. /\ told \in Nat /\ told + Len(<<>>) = Len(log) - from
      /\ \A i \in 1..told : said[n + i] = log[from + i]
  BY DEF Gapless
<1>3. n + told = Len(said) /\ told > 0
  BY <1>1
<1> HIDE DEF told
<1>4. from + told = Len(log)
  BY <1>1, <1>2, EmptySeq
<1>5. told \in 1..told
  BY <1>2, <1>3
<1>6. said[n + told] = log[from + told]
  BY <1>2, <1>5
<1>7. Len(log) > 0
  BY <1>2, <1>3, <1>4
<1>8. QED
  BY <1>3, <1>4, <1>6, <1>7, EmptySeq

\* Each event of that piece was said or waits.
LEMMA GaplessTells ==
  ASSUME NEW said \in Seq(Message), NEW n \in Nat, NEW waiting \in Seq(Event),
         NEW log \in Seq(Event), NEW from \in Nat, NEW i \in (from + 1)..Len(log),
         Gapless(said, n, waiting, log, from)
  PROVE  \/ \E k \in 1..Len(said) : said[k] = log[i]
         \/ \E k \in 1..Len(waiting) : waiting[k] = log[i]
<1> DEFINE told == Len(said) - n
<1>1. Len(said) \in Nat /\ Len(waiting) \in Nat /\ Len(log) \in Nat
  BY LenProperties
<1>2. /\ told \in Nat /\ told + Len(waiting) = Len(log) - from
      /\ \A j \in 1..told : said[n + j] = log[from + j]
      /\ \A j \in 1..Len(waiting) : waiting[j] = log[from + told + j]
      /\ n + told = Len(said)
  BY <1>1 DEF Gapless
<1> HIDE DEF told
<1>3. CASE i - from <= told
  <2>1. i - from \in 1..told /\ from + (i - from) = i /\ n + (i - from) \in 1..Len(said)
    BY <1>1, <1>2, <1>3
  <2>2. said[n + (i - from)] = log[i]
    BY <1>2, <2>1
  <2>3. QED
    BY <2>1, <2>2
<1>4. CASE i - from > told
  <2>1. i \in Nat /\ Len(log) = from + told + Len(waiting)
    BY <1>1, <1>2
  <2>2. i - (from + told) \in 1..Len(waiting) /\ from + told + (i - (from + told)) = i
    BY <1>1, <1>2, <1>4, <2>1
  <2>3. waiting[i - (from + told)] = log[i]
    BY <1>2, <2>2
  <2>4. QED
    BY <2>2, <2>3
<1>5. QED
  BY <1>1, <1>2, <1>3, <1>4

\* What was said and what waits is all there is of both.
LEMMA RangeOfBoth ==
  ASSUME NEW said \in Seq(Message), NEW waiting \in Seq(Event)
  PROVE  /\ \A k \in 1..Len(said) : said[k] \in Range(said \o waiting)
         /\ \A k \in 1..Len(waiting) : waiting[k] \in Range(said \o waiting)
<1> DEFINE all == said \o waiting
<1>1. waiting \in Seq(Message) /\ Len(said) \in Nat /\ Len(waiting) \in Nat
  BY SeqMonotonic, LenProperties DEF Message
<1>2. /\ all \in Seq(Message) /\ Len(all) = Len(said) + Len(waiting)
      /\ \A k \in 1..(Len(said) + Len(waiting)) :
           all[k] = IF k <= Len(said) THEN said[k] ELSE waiting[k - Len(said)]
  BY <1>1, ConcatProperties
<1>3. DOMAIN all = 1..(Len(said) + Len(waiting))
  BY <1>2, LenProperties
<1> HIDE DEF all
<1>4. ASSUME NEW k \in 1..Len(said) PROVE said[k] \in Range(all)
  <2>1. k \in 1..(Len(said) + Len(waiting)) /\ k <= Len(said)
    BY <1>1
  <2>2. all[k] = said[k]
    BY <1>2, <2>1
  <2>3. QED
    BY <1>3, <2>1, <2>2 DEF Range
<1>5. ASSUME NEW k \in 1..Len(waiting) PROVE waiting[k] \in Range(all)
  <2> DEFINE j == Len(said) + k
  <2>1. j \in 1..(Len(said) + Len(waiting)) /\ ~(j <= Len(said)) /\ j - Len(said) = k
    BY <1>1
  <2> HIDE DEF j
  <2>2. all[j] = waiting[k]
    BY <1>2, <2>1
  <2>3. QED
    BY <1>3, <2>1, <2>2 DEF Range
<1>6. QED
  BY <1>4, <1>5 DEF all

\* Nothing waits behind run.completed.
LEMMA NothingWaitsBehindTheEnd ==
  ASSUME NEW said \in Seq(Message), NEW n \in Nat, NEW waiting \in Seq(Event),
         NEW log \in Seq(Event), NEW from \in Nat, waiting # <<>>,
         Gapless(said, n, waiting, log, from), Ends(Head(waiting)), Story(log)
  PROVE  Tail(waiting) = <<>>
<1> SUFFICES ASSUME Tail(waiting) # <<>> PROVE FALSE
  OBVIOUS
<1> DEFINE told == Len(said) - n
<1>1. Len(said) \in Nat /\ Len(waiting) \in Nat /\ Len(log) \in Nat
  BY LenProperties
<1>2. Len(waiting) >= 2 /\ Head(waiting) = waiting[1]
  BY <1>1, HeadTailProperties, EmptySeq
<1>3. /\ told \in Nat /\ told + Len(waiting) = Len(log) - from
      /\ \A j \in 1..Len(waiting) : waiting[j] = log[from + told + j]
  BY DEF Gapless
<1> HIDE DEF told
<1>4. from + told + 1 \in 1..(Len(log) - 1)
  BY <1>1, <1>2, <1>3
<1>5. Follows(log[from + told + 1], log[from + told + 1 + 1])
  BY <1>4 DEF Story
<1>6. log[from + told + 1] = waiting[1]
  BY <1>1, <1>2, <1>3
<1>7. QED
  BY <1>2, <1>5, <1>6 DEF Follows, Ends

\* So the live part of a stream is a piece of the log.
LEMMA GaplessIsGapless ==
  ASSUME NEW said \in Seq(Message), NEW n \in Nat, NEW waiting \in Seq(Event),
         NEW log \in Seq(Event), NEW from \in Nat,
         Gapless(said, n, waiting, log, from)
  PROVE  SubSeq(said, n + 1, Len(said)) \o waiting = SubSeq(log, from + 1, Len(log))
<1> DEFINE live  == SubSeq(said, n + 1, Len(said))
           piece == SubSeq(log, from + 1, Len(log))
           told  == Len(said) - n
<1>1. Len(said) \in Nat /\ Len(waiting) \in Nat /\ Len(log) \in Nat /\ told \in Nat
      /\ told + Len(waiting) = Len(log) - from
  BY LenProperties DEF Gapless
<1>2. /\ live \in Seq(Message) /\ Len(live) = told
      /\ \A i \in 1..told : live[i] = said[n + i]
  <2>1. \A i \in (n + 1)..Len(said) : said[i] \in Message
    BY <1>1, ElementOfSeq
  <2>2. QED
    BY <1>1, <2>1, SubSeqProperties
<1>3. /\ piece \in Seq(Message) /\ Len(piece) = Len(log) - from
      /\ \A i \in 1..(Len(log) - from) : piece[i] = log[from + i]
  <2>1. \A i \in (from + 1)..Len(log) : log[i] \in Message
    BY <1>1, ElementOfSeq DEF Message
  <2>2. QED
    BY <1>1, <2>1, SubSeqProperties
<1>4. waiting \in Seq(Message)
  BY SeqMonotonic DEF Message
<1> DEFINE all == live \o waiting
<1> HIDE DEF live, piece, told
<1>5. /\ all \in Seq(Message) /\ Len(all) = told + Len(waiting)
      /\ \A i \in 1..(told + Len(waiting)) :
           all[i] = IF i <= told THEN live[i] ELSE waiting[i - told]
  <2>1. /\ Len(all) = Len(live) + Len(waiting) /\ all \in Seq(Message)
        /\ \A i \in 1..(Len(live) + Len(waiting)) :
             all[i] = IF i <= Len(live) THEN live[i] ELSE waiting[i - Len(live)]
    BY <1>2, <1>4, ConcatProperties
  <2>2. QED
    BY <1>2, <2>1
<1> HIDE DEF all
<1>6. ASSUME NEW i \in 1..Len(all) PROVE all[i] = piece[i]
  <2>1. i \in 1..(Len(log) - from) /\ i \in 1..(told + Len(waiting))
    BY <1>1, <1>5, <1>6
  <2>2. CASE i <= told
    <3>1. i \in 1..told
      BY <2>1, <2>2
    <3>2. said[n + i] = log[from + i]
      BY <3>1 DEF Gapless, told
    <3>3. QED
      BY <1>2, <1>3, <1>5, <2>1, <2>2, <3>1, <3>2
  <2>3. CASE i > told
    <3>1. i - told \in 1..Len(waiting) /\ from + told + (i - told) = from + i
      BY <1>1, <2>1, <2>3
    <3>2. waiting[i - told] = log[from + told + (i - told)]
      BY <3>1 DEF Gapless, told
    <3>3. ~(i <= told)
      BY <1>1, <2>3
    <3>4. QED
      BY <1>3, <1>5, <2>1, <3>1, <3>2, <3>3
  <2>4. QED
    BY <1>1, <2>2, <2>3
<1>7. all = piece
  <2>1. Len(all) = Len(piece)
    BY <1>1, <1>3, <1>5
  <2>2. QED
    BY <1>3, <1>5, <1>6, <2>1, SeqEqual
<1>8. QED
  BY <1>7 DEF all, live, piece
-----------------------------------------------------------------------------
(***************************************************************************)
(* The steps of a stream.                                                  *)
(***************************************************************************)
\* A stream that is left alone, and whose run is, keeps what it has.
LEMMA StreamRests ==
  ASSUME NEW s \in Streams, StreamOK(s),
         smode'[s] = smode[s], srun'[s] = srun[s], sloaded'[s] = sloaded[s],
         backlog'[s] = backlog[s], sent'[s] = sent[s], queue'[s] = queue[s],
         before'[s] = before[s], since'[s] = since[s],
         published'[srun[s]] = published[srun[s]],
         result[srun[s]] # "none" => result'[srun[s]] = result[srun[s]]
  PROVE  StreamOK(s)'
<1>1. QuietOK(s)'
  BY DEF StreamOK, QuietOK
<1>2. ReplayOK(s)'
  BY DEF StreamOK, ReplayOK
<1>3. OverOK(s)'
  BY DEF StreamOK, OverOK, IsTerminal, TerminalStatus
<1>4. TailOK(s)'
  BY DEF StreamOK, TailOK, IsTerminal
<1>5. QED
  BY <1>1, <1>2, <1>3, <1>4 DEF StreamOK

\* What is published reaches the queue of each listener; the others need not hear it.
LEMMA FanOutKeeps ==
  ASSUME Grounds, EventsInv', [Next]_vars, FanOut, NEW s \in Streams, StreamOK(s)
  PROVE  queue'[s] \in Seq(Event) /\ StreamOK(s)'
<1> DEFINE r     == srun[s]
           log   == published[r]
           later == published'[r]
           n     == Len(backlog[s])
<1>1. /\ UNCHANGED <<smode, srun, sloaded, backlog, sent, before, since>>
      /\ queue'[s] = IF smode[s] = "tail" THEN queue[s] \o News(r) ELSE queue[s]
  <2>1. srun[s] \in Runs
    BY DEF Grounds, StreamsTyped, BusTypeOK
  <2>2. s \in subscribers[srun[s]] <=> smode[s] = "tail"
    BY <2>1 DEF Grounds, BusInv, OnlyListenersAreSubscribed
  <2>3. QED
    BY <2>2 DEF FanOut
<1>2. /\ r \in Runs /\ log \in Seq(Event) /\ Len(log) \in Nat
      /\ queue[s] \in Seq(Event) /\ Len(queue[s]) \in Nat
      /\ sent[s] \in Seq(Message) /\ Len(sent[s]) \in Nat
      /\ backlog[s] \in Seq(StepRow) /\ n \in Nat
      /\ before[s] \in Nat /\ since[s] \in Nat
  BY LenProperties DEF Grounds, StreamsTyped, BusTypeOK, IInv, TypeOK
<1> HIDE DEF r, log, later, n
<1>3. result[r] # "none" => result'[r] = result[r]
  BY <1>2, KeepsResultStep DEF KeepsResult, Grounds, r
<1>4. CASE later = log
  <2>1. queue'[s] = queue[s]
    BY <1>1, <1>2, <1>4, NewsAreTheEvent, ConcatEmptySeq DEF r, log, later
  <2>2. QED
    BY <1>1, <1>2, <1>3, <1>4, <2>1, StreamRests DEF r, log, later
<1>5. ASSUME NEW e \in Event, later = Append(log, e),
             result[r] # "none" => e = CompletedEvent(result[r])
      PROVE  queue'[s] \in Seq(Event) /\ StreamOK(s)'
  <2>1. /\ Len(later) = Len(log) + 1 /\ later[Len(log) + 1] = e
        /\ \A i \in 1..Len(log) : later[i] = log[i]
    BY <1>2, <1>5, AppendProperties
  <2>2. smode[s] = "tail" =>
          /\ queue'[s] = Append(queue[s], e)
          /\ queue'[s] \in Seq(Event) /\ Len(queue'[s]) = Len(queue[s]) + 1
          /\ queue'[s][Len(queue[s]) + 1] = e
          /\ \A j \in 1..Len(queue[s]) : queue'[s][j] = queue[s][j]
    <3>1. News(r) = <<e>>
      BY <1>2, <1>5, NewsAreTheEvent DEF r, log, later
    <3>2. smode[s] = "tail" => queue'[s] = Append(queue[s], e)
      BY <1>1, <1>2, <3>1, AppendIsConcat
    <3>3. LET after == Append(queue[s], e) IN
          /\ after \in Seq(Event) /\ Len(after) = Len(queue[s]) + 1
          /\ after[Len(queue[s]) + 1] = e
          /\ \A j \in 1..Len(queue[s]) : after[j] = queue[s][j]
      BY <1>2, AppendProperties
    <3>4. QED
      BY <3>2, <3>3
  <2>3. queue'[s] \in Seq(Event)
    BY <1>1, <1>2, <2>2
  <2>4. QuietOK(s)'
    BY <1>1 DEF StreamOK, QuietOK
  <2>5. ReplayOK(s)'
    <3> SUFFICES ASSUME smode[s] \in {"replay", "tail", "closed"} PROVE ReplayOK(s)'
      BY <1>1 DEF ReplayOK
    <3>1. before[s] <= Len(log)
      BY DEF StreamOK, ReplayOK, r, log
    <3>2. before[s] <= Len(later) /\ \A i \in 1..before[s] : later[i] = log[i]
      BY <1>2, <2>1, <3>1
    <3>3. QED
      BY <1>1, <3>2 DEF StreamOK, ReplayOK, Ends, r, log, later
  <2>6. OverOK(s)'
    <3>1. "none" \notin TerminalStatus
      BY DEF TerminalStatus
    <3>2. QED
      BY <1>1, <1>2, <1>3, <1>5, <2>1, <3>1
      DEF StreamOK, OverOK, IsTerminal, r, log, later, n
  <2>7. TailOK(s)'
    <3>1. CASE smode[s] = "tail"
      <4>1. /\ ~IsTerminal(s)
            /\ \A k \in (n + 1)..Len(sent[s]) : ~Ends(sent[s][k])
            /\ Gapless(sent[s], n, queue[s], log, since[s])
        BY <3>1 DEF StreamOK, TailOK, n, log, r
      <4>2. Gapless(sent[s], n, Append(queue[s], e), Append(log, e), since[s])
        BY <1>2, <4>1, GaplessGrows
      <4>3. QED
        BY <1>1, <1>5, <2>2, <3>1, <4>1, <4>2
        DEF TailOK, IsTerminal, Ends, n, later, r
    <3>2. CASE smode[s] = "closed" /\ ~IsTerminal(s)
      <4>1. log # <<>> /\ Ends(log[Len(log)])
        <5>1. /\ Gapless(sent[s], n, <<>>, log, since[s])
              /\ Len(sent[s]) > n /\ Ends(sent[s][Len(sent[s])])
          BY <3>2 DEF StreamOK, TailOK, QuietOK, n, log, r
        <5>2. QED
          BY <1>2, <5>1, GaplessEnds
      <4>2. Follows(later[Len(log)], later[Len(log) + 1])
        BY <1>2, <2>1, <4>1, EmptySeq DEF EventsInv, EventsOK, Story, later
      <4>3. QED
        BY <1>2, <2>1, <4>1, <4>2, EmptySeq DEF Follows, Ends
    <3>3. QED
      BY <1>1, <3>1, <3>2 DEF TailOK, IsTerminal
  <2>8. QED
    BY <2>3, <2>4, <2>5, <2>6, <2>7 DEF StreamOK
<1>6. QED
  BY <1>2, <1>4, <1>5, OneAtATime DEF Grounds, r, log, later

\* What a stream does by itself keeps what it has told in order.
LEMMA OwnStep ==
  ASSUME Grounds, NEW s \in Streams, StreamOK(s),
         OpenStream(s) \/ StreamStep(s) \/ Leave(s)
  PROVE  StreamOK(s)'
<1> DEFINE r   == srun[s]
           log == published[r]
           n   == Len(backlog[s])
<1>1. /\ r \in Runs /\ log \in Seq(Event) /\ Len(log) \in Nat
      /\ queue[s] \in Seq(Event) /\ Len(queue[s]) \in Nat
      /\ sent[s] \in Seq(Message) /\ Len(sent[s]) \in Nat
      /\ backlog[s] \in Seq(StepRow) /\ n \in Nat
      /\ steps[r] \in Seq(StepRow)
      /\ before[s] \in Nat /\ since[s] \in Nat
  BY LenProperties DEF Grounds, StreamsTyped, BusTypeOK, IInv, TypeOK
<1>2. UNCHANGED <<published, result, status, steps, srun>>
  BY DEF OpenStream, StreamStep, LoadBacklog, ReplayNext, EndAfterReplay, Subscribe,
         Deliver, Leave, Forget, vars, database, task
<1>3. ASSUME OpenStream(s) PROVE StreamOK(s)'
  <2>1. /\ smode[s] = "idle" /\ smode'[s] \in {"loaded", "not_found"}
        /\ sloaded'[s] = status[r] /\ UNCHANGED <<sent, queue>>
    BY <1>3 DEF OpenStream, Goto, bus, Grounds, StreamsTyped, BusTypeOK
  <2>2. status[r] \in TerminalStatus => result[r] = status[r]
    BY <1>1 DEF Grounds, IInv, StatusAgreesWithResult
  <2>3. OverOK(s)'
    BY <1>2, <2>1, <2>2 DEF OverOK, IsTerminal
  <2>4. QED
    BY <2>1, <2>3 DEF StreamOK, QuietOK, ReplayOK, TailOK
<1>4. ASSUME LoadBacklog(s) PROVE StreamOK(s)'
  <2>1. /\ smode[s] = "loaded" /\ smode'[s] = "replay" /\ backlog'[s] = steps[r]
        /\ before'[s] = Len(log) /\ since'[s] = Len(log)
        /\ UNCHANGED <<sent, queue, sloaded>>
    BY <1>4 DEF LoadBacklog, Goto, bus, Grounds, StreamsTyped, BusTypeOK
  <2>2. sent[s] = <<>> /\ queue[s] = <<>>
    BY <2>1 DEF StreamOK, QuietOK
  <2>3. \A i \in 1..Len(log) :
          ~Ends(log[i]) => log[i].seq > 0 /\ Backed(log[i], steps[r], "none")
    BY <1>1 DEF Grounds, EventsInv, EventsOK, BackedOK, Backed, Ends
  <2>4. ReplayOK(s)'
    <3>1. Len(sent[s]) = 0 /\ Len(backlog'[s]) \in Nat
      BY <1>1, <2>1, <2>2, LenProperties
    <3>2. QED
      BY <1>1, <1>2, <2>1, <2>3, <3>1 DEF ReplayOK, Ends
  <2>5. OverOK(s)'
    BY <1>1, <1>2, <2>1 DEF StreamOK, OverOK, IsTerminal
  <2>6. QED
    BY <2>1, <2>2, <2>4, <2>5 DEF StreamOK, QuietOK, TailOK
<1>5. ASSUME ReplayNext(s) PROVE StreamOK(s)'
  <2> DEFINE k == Len(sent[s]) + 1
             m == ReplayOf(k, backlog[s][k])
  <2>1. /\ smode[s] = "replay" /\ Len(sent[s]) < n /\ sent'[s] = Append(sent[s], m)
        /\ UNCHANGED <<smode, backlog, queue, sloaded, before, since>>
    BY <1>5 DEF ReplayNext, Send, bus, Grounds, StreamsTyped
  <2>2. m \in Message
    <3>1. k \in 1..n /\ k \in Nat
      BY <1>1, <2>1
    <3>2. backlog[s][k] \in StepRow
      BY <1>1, <3>1, ElementOfSeq
    <3>3. QED
      BY <3>1, <3>2, ReplayTyped
  <2>3. /\ Len(sent'[s]) = k /\ sent'[s][k] = m
        /\ \A i \in 1..Len(sent[s]) : sent'[s][i] = sent[s][i]
    BY <1>1, <2>1, <2>2, AppendProperties
  <2> HIDE DEF m
  <2>4. ReplayOK(s)'
    <3>1. \A i \in 1..Len(sent'[s]) : sent'[s][i] = ReplayOf(i, backlog[s][i])
      BY <1>1, <2>1, <2>3 DEF StreamOK, ReplayOK, m
    <3>2. Len(sent'[s]) <= n
      BY <1>1, <2>1, <2>3
    <3>3. QED
      BY <1>2, <2>1, <3>1, <3>2 DEF StreamOK, ReplayOK, Ends
  <2>5. OverOK(s)'
    BY <1>2, <2>1 DEF StreamOK, OverOK, IsTerminal
  <2>6. QED
    BY <2>1, <2>4, <2>5 DEF StreamOK, QuietOK, TailOK
<1>6. ASSUME EndAfterReplay(s) PROVE StreamOK(s)'
  <2> DEFINE m == CompletedEvent(sloaded[s])
  <2>1. /\ smode[s] = "replay" /\ Len(sent[s]) = n /\ sent'[s] = Append(sent[s], m)
        /\ smode'[s] = "closed" /\ sloaded[s] \in TerminalStatus
        /\ UNCHANGED <<backlog, queue, sloaded, before, since>>
    BY <1>6 DEF EndAfterReplay, ReplayIsOver, IsTerminal, Send, Goto, bus, Grounds,
                StreamsTyped, BusTypeOK
  <2>2. m \in Message
    BY <2>1, CompletedEventTyped DEF Message
  <2>3. /\ Len(sent'[s]) = n + 1 /\ sent'[s][n + 1] = m
        /\ \A i \in 1..n : sent'[s][i] = sent[s][i]
    BY <1>1, <2>1, <2>2, AppendProperties
  <2>4. ReplayOK(s)'
    <3>1. /\ \A i \in 1..n : sent[s][i] = ReplayOf(i, backlog[s][i])
          /\ before[s] <= Len(log)
          /\ \A i \in 1..before[s] :
               ~Ends(log[i]) => log[i].seq > 0 /\ Backed(log[i], backlog[s], "none")
      BY <1>1, <2>1 DEF StreamOK, ReplayOK
    <3>2. \A i \in 1..Len(sent'[s]) :
            i <= n => sent'[s][i] = ReplayOf(i, backlog[s][i])
      BY <1>1, <2>3, <3>1
    <3>3. QED
      BY <1>1, <1>2, <2>1, <2>3, <3>1, <3>2 DEF ReplayOK
  <2>5. OverOK(s)'
    BY <1>2, <2>1, <2>3 DEF StreamOK, OverOK, IsTerminal
  <2>6. QED
    BY <2>1, <2>4, <2>5 DEF StreamOK, QuietOK, TailOK, IsTerminal
<1>7. ASSUME Subscribe(s) PROVE StreamOK(s)'
  <2>1. /\ smode[s] = "replay" /\ Len(sent[s]) = n /\ ~IsTerminal(s)
        /\ smode'[s] = "tail" /\ since'[s] = Len(log)
        /\ UNCHANGED <<backlog, sent, queue, sloaded, before>>
    BY <1>7 DEF Subscribe, ReplayIsOver, Goto, Grounds, StreamsTyped, BusTypeOK
  <2>2. queue[s] = <<>>
    BY <2>1 DEF StreamOK, QuietOK
  <2>3. ReplayOK(s)'
    BY <1>1, <1>2, <2>1 DEF StreamOK, ReplayOK, Ends
  <2>4. TailOK(s)'
    <3>1. Gapless(sent[s], n, <<>>, log, Len(log))
      BY <1>1, <2>1, GaplessBegins
    <3>2. \A k \in (n + 1)..Len(sent[s]) : FALSE
      BY <1>1, <2>1
    <3>3. QED
      BY <1>2, <2>1, <2>2, <3>1, <3>2 DEF TailOK, IsTerminal
  <2>5. QED
    BY <2>1, <2>3, <2>4 DEF StreamOK, QuietOK, OverOK
<1>8. ASSUME Deliver(s) PROVE StreamOK(s)'
  <2> DEFINE e == Head(queue[s])
  <2>1. /\ smode[s] = "tail" /\ queue[s] # <<>> /\ sent'[s] = Append(sent[s], e)
        /\ UNCHANGED <<backlog, sloaded, before, since>>
        /\ \/ ~Ends(e) /\ queue'[s] = Tail(queue[s]) /\ smode'[s] = "tail"
           \/ Ends(e) /\ queue'[s] = <<>> /\ smode'[s] = "closed"
    BY <1>8 DEF Deliver, Send, Goto, Unsubscribe, Grounds, StreamsTyped, BusTypeOK
  <2>2. e \in Message
    BY <1>1, <2>1, HeadTailProperties DEF Message
  <2>3. /\ Len(sent'[s]) = Len(sent[s]) + 1 /\ sent'[s][Len(sent[s]) + 1] = e
        /\ \A i \in 1..Len(sent[s]) : sent'[s][i] = sent[s][i]
    BY <1>1, <2>1, <2>2, AppendProperties
  <2>4. /\ ~IsTerminal(s) /\ n <= Len(sent[s])
        /\ \A k \in (n + 1)..Len(sent[s]) : ~Ends(sent[s][k])
        /\ Gapless(sent[s], n, queue[s], log, since[s])
    BY <2>1 DEF StreamOK, TailOK, ReplayOK
  <2>5. Gapless(sent'[s], n, Tail(queue[s]), log, since[s])
    BY <1>1, <2>1, <2>4, GaplessMoves
  <2>6. queue'[s] = Tail(queue[s])
    <3>1. Story(log)
      BY <1>1 DEF Grounds, EventsInv, EventsOK
    <3>2. QED
      BY <1>1, <2>1, <2>4, <3>1, NothingWaitsBehindTheEnd
  <2> HIDE DEF e
  <2>7. ReplayOK(s)'
    BY <1>1, <1>2, <2>1, <2>3, <2>4 DEF StreamOK, ReplayOK, Ends
  <2>8. TailOK(s)'
    BY <1>1, <1>2, <2>1, <2>3, <2>4, <2>5, <2>6 DEF TailOK, IsTerminal, Ends
  <2>9. QED
    BY <2>1, <2>4, <2>7, <2>8 DEF StreamOK, QuietOK, OverOK, IsTerminal
<1>9. ASSUME Leave(s) PROVE StreamOK(s)'
  <2>1. smode'[s] = "gone" /\ sent'[s] = <<>>
    BY <1>9 DEF Leave, Forget
  <2>2. queue'[s] = <<>>
    BY <1>9 DEF Leave, Unsubscribe, StreamOK, QuietOK, bus, Grounds, StreamsTyped
  <2>3. QED
    BY <2>1, <2>2 DEF StreamOK, QuietOK, ReplayOK, OverOK, TailOK
<1>10. QED
  BY <1>3, <1>4, <1>5, <1>6, <1>7, <1>8, <1>9 DEF StreamStep

\* Types are kept; the queues FanOut writes are those of FanOutKeeps.
LEMMA StreamsTypedStep ==
  ASSUME Grounds, BusInv', [StreamNext]_allVars,
         FanOut => queue' \in [Streams -> Seq(Event)]
  PROVE  StreamsTyped'
<1> USE DEF StreamsTyped, bus
<1>1. BusTypeOK'
  BY DEF BusInv
<1>2. CASE FanOut
  BY <1>1, <1>2 DEF FanOut, Grounds
<1>3. ASSUME NEW s \in Streams, OpenStream(s) PROVE StreamsTyped'
  <2>1. status[srun[s]] \in RunStatus \union {"none"}
    BY DEF Grounds, BusTypeOK, IInv, TypeOK
  <2>2. QED
    BY <1>1, <1>3, <2>1 DEF OpenStream, Grounds
<1>4. ASSUME NEW s \in Streams, LoadBacklog(s) PROVE StreamsTyped'
  <2>1. steps[srun[s]] \in Seq(StepRow) /\ Len(published[srun[s]]) \in Nat
    BY LenProperties DEF Grounds, BusTypeOK, IInv, TypeOK
  <2>2. QED
    BY <1>1, <1>4, <2>1 DEF LoadBacklog, Grounds
<1>5. ASSUME NEW s \in Streams, NEW m \in Message, Send(s, m)
      PROVE  sent' \in [Streams -> Seq(Message)]
  <2>1. Append(sent[s], m) \in Seq(Message)
    BY AppendProperties DEF Grounds
  <2>2. QED
    BY <1>5, <2>1 DEF Send, Grounds
<1>6. ASSUME NEW s \in Streams, ReplayNext(s) PROVE StreamsTyped'
  <2> DEFINE k == Len(sent[s]) + 1
  <2>1. /\ backlog[s] \in Seq(StepRow) /\ k \in Nat /\ k \in 1..Len(backlog[s])
    BY <1>6, LenProperties DEF ReplayNext, Grounds
  <2>2. backlog[s][k] \in StepRow
    BY <2>1, ElementOfSeq
  <2>3. ReplayOf(k, backlog[s][k]) \in Message
    BY <2>1, <2>2, ReplayTyped
  <2>4. sent' \in [Streams -> Seq(Message)]
    BY <1>5, <1>6, <2>3 DEF ReplayNext
  <2>5. QED
    BY <1>1, <1>6, <2>4 DEF ReplayNext, Grounds
<1>7. ASSUME NEW s \in Streams, EndAfterReplay(s) PROVE StreamsTyped'
  <2>1. CompletedEvent(sloaded[s]) \in Message
    BY <1>7, CompletedEventTyped DEF EndAfterReplay, IsTerminal, Message
  <2>2. sent' \in [Streams -> Seq(Message)]
    BY <1>5, <1>7, <2>1 DEF EndAfterReplay
  <2>3. QED
    BY <1>1, <1>7, <2>2 DEF EndAfterReplay, Grounds
<1>8. ASSUME NEW s \in Streams, Subscribe(s) PROVE StreamsTyped'
  <2>1. Len(published[srun[s]]) \in Nat
    BY LenProperties DEF Grounds, BusTypeOK, IInv, TypeOK
  <2>2. QED
    BY <1>1, <1>8, <2>1 DEF Subscribe, Grounds
<1>9. ASSUME NEW s \in Streams, Deliver(s) PROVE StreamsTyped'
  <2>1. Head(queue[s]) \in Message /\ Tail(queue[s]) \in Seq(Event)
    BY <1>9, HeadTailProperties DEF Deliver, Grounds, Message
  <2>2. sent' \in [Streams -> Seq(Message)]
    BY <1>5, <1>9, <2>1 DEF Deliver
  <2>3. queue' \in [Streams -> Seq(Event)]
    <3>1. <<>> \in Seq(Event)
      BY EmptySeq
    <3>2. queue' \in {[queue EXCEPT ![s] = Tail(queue[s])], [queue EXCEPT ![s] = <<>>]}
      BY <1>9 DEF Deliver, Unsubscribe
    <3>3. QED
      BY <2>1, <3>1, <3>2 DEF Grounds
  <2>4. QED
    BY <1>1, <1>9, <2>2, <2>3 DEF Deliver, Grounds
<1>10. ASSUME NEW gone, Forget(gone), queue' \in [Streams -> Seq(Event)]
       PROVE  StreamsTyped'
  BY <1>1, <1>10, EmptySeq DEF Forget, Grounds
<1>11. ASSUME NEW s \in Streams, Leave(s) PROVE StreamsTyped'
  <2>1. queue' \in [Streams -> Seq(Event)]
    BY <1>11, EmptySeq DEF Leave, Unsubscribe, Grounds
  <2>2. QED
    BY <1>10, <1>11, <2>1 DEF Leave
<1>12. ASSUME RestartAll PROVE StreamsTyped'
  <2>1. queue' \in [Streams -> Seq(Event)]
    BY <1>12, EmptySeq DEF RestartAll
  <2>2. QED
    BY <1>10, <1>12, <2>1 DEF RestartAll
<1>13. CASE Idle \/ UNCHANGED allVars
  BY <1>1, <1>13 DEF Idle, streamVars, allVars, Grounds
<1>14. QED
  BY <1>2, <1>3, <1>4, <1>6, <1>7, <1>8, <1>9, <1>11, <1>12, <1>13
  DEF StreamNext, StreamStep

\* The steps of the service, of the stream itself and of others.
LEMMA StreamsStep ==
  ASSUME IInv, EventsInv, EventsInv', BusInv, BusInv', StreamsInv, [StreamNext]_allVars
  PROVE  StreamsInv'
<1>1. Grounds /\ [Next]_vars
  BY ServiceStep DEF Grounds, StreamsInv
<1>2. FanOut => \A s \in Streams : queue'[s] \in Seq(Event) /\ StreamOK(s)'
  BY <1>1, FanOutKeeps DEF StreamsInv
<1>3. StreamsTyped'
  <2>1. FanOut => queue' \in [Streams -> Seq(Event)]
    BY <1>2 DEF FanOut
  <2>2. QED
    BY <1>1, <2>1, StreamsTypedStep
<1>4. ASSUME NEW s \in Streams PROVE StreamOK(s)'
  <2>1. StreamOK(s)
    BY DEF StreamsInv
  <2>2. ASSUME OpenStream(s) \/ StreamStep(s) \/ Leave(s) PROVE StreamOK(s)'
    BY <1>1, <2>1, <2>2, OwnStep
  <2>3. ASSUME NEW t \in Streams \ {s}, OpenStream(t) \/ StreamStep(t) \/ Leave(t)
        PROVE  StreamOK(s)'
    <3>1. UNCHANGED <<published, result, srun>>
      BY <2>3 DEF OpenStream, StreamStep, LoadBacklog, ReplayNext, EndAfterReplay,
                  Subscribe, Deliver, Leave, Forget, vars, database, task
    <3>2. /\ smode'[s] = smode[s] /\ sloaded'[s] = sloaded[s]
          /\ backlog'[s] = backlog[s] /\ sent'[s] = sent[s] /\ queue'[s] = queue[s]
          /\ before'[s] = before[s] /\ since'[s] = since[s]
      BY <1>1, <2>3
      DEF OpenStream, StreamStep, LoadBacklog, ReplayNext, EndAfterReplay, Subscribe,
          Deliver, Leave, Forget, Unsubscribe, Goto, Send, bus, Grounds, StreamsTyped,
          BusTypeOK
    <3>3. QED
      BY <2>1, <3>1, <3>2, StreamRests
  <2>4. ASSUME RestartAll PROVE StreamOK(s)'
    <3>1. UNCHANGED <<published, result, srun>> /\ queue'[s] = <<>>
      BY <2>4 DEF RestartAll, Restart, Forget, database
    <3>2. CASE s \in Open
      BY <2>4, <3>1, <3>2
      DEF RestartAll, Forget, StreamOK, QuietOK, ReplayOK, OverOK, TailOK
    <3>3. CASE s \notin Open
      <4>1. queue[s] = <<>>
        BY <2>1, <3>3 DEF StreamOK, QuietOK, Open
      <4>2. QED
        BY <2>1, <2>4, <3>1, <3>3, <4>1, StreamRests DEF RestartAll, Forget
    <3>4. QED
      BY <3>2, <3>3
  <2>5. ASSUME Idle \/ UNCHANGED allVars PROVE StreamOK(s)'
    BY <2>1, <2>5, StreamRests
    DEF Idle, Quiescent, streamVars, allVars, bus, vars, database, task
  <2>6. QED
    BY <1>2, <2>2, <2>3, <2>4, <2>5 DEF StreamNext
<1>5. QED
  BY <1>3, <1>4 DEF StreamsInv

\* The inductive invariant of the streams, on that of the run and of its events.
THEOREM StreamsInvariance == StreamSpec => [](IInv /\ EventsInv /\ StreamsInv)
<1>1. StreamInit => StreamsInv
  BY DEF StreamInit, StreamsInv, StreamsTyped, BusTypeOK, StreamMode, StreamOK, QuietOK,
         ReplayOK, OverOK, TailOK
<1>2. StreamInit => BusInv
  BY DEF StreamInit, BusInv, BusTypeOK, OnlyListenersAreSubscribed, StreamMode
<1>3. BusInv /\ [StreamNext]_allVars => BusInv'
  BY BusStep
<1>4. /\ IInv /\ EventsInv /\ EventsInv' /\ BusInv /\ BusInv' /\ StreamsInv
      /\ [StreamNext]_allVars
      => StreamsInv'
  BY StreamsStep
<1>5. QED
  BY <1>1, <1>2, <1>3, <1>4, StreamsDoNotDisturb, Invariance, EventsInvariance, PTL
  DEF StreamSpec

\* What was told live and what waits is what was published since the stream
\* subscribed (runs.py:139-163, pubsub.py:22-45).
THEOREM TailIsGapless == StreamSpec => []LiveTailIsGapless
<1>1. ASSUME IInv, StreamsInv PROVE LiveTailIsGapless
  <2> SUFFICES ASSUME NEW s \in Streams, smode[s] = "tail"
               PROVE  SubSeq(sent[s], Len(backlog[s]) + 1, Len(sent[s])) \o queue[s]
                        = SubSeq(published[srun[s]], since[s] + 1, Len(published[srun[s]]))
    BY DEF LiveTailIsGapless
  <2> DEFINE said == sent[s]
             n    == Len(backlog[s])
             log  == published[srun[s]]
             from == since[s]
             left == queue[s]
  <2>1. said \in Seq(Message) /\ left \in Seq(Event)
    BY <1>1 DEF StreamsInv, StreamsTyped
  <2>2. log \in Seq(Event) /\ n \in Nat /\ from \in Nat
    BY <1>1, LenProperties DEF StreamsInv, StreamsTyped, BusTypeOK, IInv, TypeOK
  <2>3. Gapless(said, n, left, log, from)
    BY <1>1 DEF StreamsInv, StreamOK, TailOK
  <2> HIDE DEF said, n, log, from, left
  <2>4. SubSeq(said, n + 1, Len(said)) \o left = SubSeq(log, from + 1, Len(log))
    BY <2>1, <2>2, <2>3, GaplessIsGapless, ZenonT(40)
  <2>5. QED
    BY <2>4 DEF said, n, log, from, left
<1>2. QED
  BY <1>1, StreamsInvariance, PTL

\* A stream the service closes ends with the result of its run, and only such a one
\* tells a result (runs.py:129-155).
THEOREM ResultComesLast == StreamSpec => []EndsWithTheResult
<1>1. ASSUME IInv, EventsInv, StreamsInv, NEW s \in Streams
      PROVE  /\ smode[s] = "closed" =>
                  /\ sent[s] # <<>>
                  /\ Last(sent[s]) = CompletedEvent(result[srun[s]])
             /\ smode[s] # "closed" => \A m \in Range(sent[s]) : m.event # "run.completed"
  <2> DEFINE r   == srun[s]
             log == published[r]
             n   == Len(backlog[s])
  <2>1. /\ r \in Runs /\ log \in Seq(Event) /\ Len(log) \in Nat
        /\ sent[s] \in Seq(Message) /\ Len(sent[s]) \in Nat
        /\ backlog[s] \in Seq(StepRow) /\ n \in Nat /\ since[s] \in Nat
        /\ smode[s] \in StreamMode
    BY <1>1, LenProperties DEF StreamsInv, StreamsTyped, BusTypeOK, IInv, TypeOK
  <2>2. StreamOK(s)
    BY <1>1 DEF StreamsInv
  <2>3. CASE smode[s] = "closed" /\ IsTerminal(s)
    <3>1. Len(sent[s]) = n + 1 /\ sent[s][n + 1] = CompletedEvent(result[r])
      BY <2>2, <2>3 DEF StreamOK, OverOK
    <3>2. sent[s] # <<>>
      BY <2>1, <3>1, EmptySeq
    <3>3. QED
      BY <2>3, <3>1, <3>2 DEF Last
  <2>4. CASE smode[s] = "closed" /\ ~IsTerminal(s)
    <3>1. /\ Gapless(sent[s], n, <<>>, log, since[s])
          /\ Len(sent[s]) > n /\ Ends(sent[s][Len(sent[s])])
      BY <2>2, <2>4 DEF StreamOK, TailOK, QuietOK
    <3>2. log # <<>> /\ log[Len(log)] = sent[s][Len(sent[s])]
      BY <2>1, <3>1, GaplessEnds
    <3>3. Len(log) \in 1..Len(log)
      BY <2>1, <3>2, EmptySeq
    <3>4. log[Len(log)] \in Event /\ Backed(log[Len(log)], steps[r], result[r])
      BY <1>1, <2>1, <3>3, ElementOfSeq DEF EventsInv, EventsOK, BackedOK
    <3>5. log[Len(log)] = CompletedEvent(result[r])
      BY <3>1, <3>2, <3>4 DEF Backed, Ends, Event, EventName, CompletedEvent
    <3>6. sent[s] # <<>>
      BY <2>1, <3>1, EmptySeq
    <3>7. QED
      BY <2>4, <3>2, <3>5, <3>6 DEF Last
  <2>5. ASSUME smode[s] # "closed", NEW m \in Range(sent[s])
        PROVE  m.event # "run.completed"
    <3>1. PICK k \in 1..Len(sent[s]) : m = sent[s][k]
      BY <2>1, LenProperties DEF Range
    <3>2. smode[s] \in {"replay", "tail"}
      BY <2>1, <2>2, <2>5, <3>1, EmptySeq DEF StreamMode, StreamOK, QuietOK
    <3>3. CASE k <= n
      <4>1. k \in 1..n /\ k \in Nat
        BY <2>1, <3>3
      <4>2. m = ReplayOf(k, backlog[s][k]) /\ backlog[s][k] \in StepRow
        BY <2>1, <2>2, <3>1, <3>2, <4>1, ElementOfSeq DEF StreamOK, ReplayOK
      <4>3. QED
        BY <4>1, <4>2, ReplayTyped DEF Ends
    <3>4. CASE k > n
      <4>1. smode[s] = "tail"
        BY <2>1, <2>2, <3>1, <3>2, <3>4 DEF StreamOK, ReplayOK
      <4>2. k \in (n + 1)..Len(sent[s])
        BY <2>1, <3>4
      <4>3. QED
        BY <2>2, <3>1, <4>1, <4>2 DEF StreamOK, TailOK, Ends
    <3>5. QED
      BY <2>1, <3>3, <3>4
  <2>6. QED
    BY <2>3, <2>4, <2>5
<1>2. IInv /\ EventsInv /\ StreamsInv => EndsWithTheResult
  BY <1>1 DEF EndsWithTheResult
<1>3. QED
  BY <1>2, StreamsInvariance, PTL

\* A late subscriber misses step events published while it replays, and nothing else
\* (runs.py:108-163).
THEOREM OnlyTheGapIsMissed == StreamSpec => []MissesOnlyTheGap
<1>1. ASSUME IInv, EventsInv, StreamsInv, NEW s \in Streams,
             smode[s] \in {"tail", "closed"} \/ ReplayIsOver(s),
             NEW i \in 1..Len(published[srun[s]]),
             LET log == published[srun[s]] IN
               \/ i <= before[s] /\ log[i].event # "run.completed"
               \/ i > since[s] /\ smode[s] # "replay"
      PROVE  \E m \in Range(sent[s] \o queue[s]) : Tells(m, published[srun[s]][i])
  <2> DEFINE r    == srun[s]
             log  == published[r]
             n    == Len(backlog[s])
             told == sent[s] \o queue[s]
  <2>1. /\ r \in Runs /\ log \in Seq(Event) /\ Len(log) \in Nat
        /\ sent[s] \in Seq(Message) /\ Len(sent[s]) \in Nat
        /\ queue[s] \in Seq(Event) /\ Len(queue[s]) \in Nat
        /\ backlog[s] \in Seq(StepRow) /\ n \in Nat
        /\ before[s] \in Nat /\ since[s] \in Nat
    BY <1>1, LenProperties DEF StreamsInv, StreamsTyped, BusTypeOK, IInv, TypeOK
  <2>2. StreamOK(s)
    BY <1>1 DEF StreamsInv
  <2>3. /\ \A k \in 1..Len(sent[s]) : sent[s][k] \in Range(told)
        /\ \A k \in 1..Len(queue[s]) : queue[s][k] \in Range(told)
    BY <2>1, RangeOfBoth
  <2> HIDE DEF told
  <2>4. log[i] \in Event /\ smode[s] \in {"replay", "tail", "closed"}
    BY <1>1, <2>1, ElementOfSeq DEF ReplayIsOver
  <2>5. CASE i <= before[s] /\ log[i].event # "run.completed"
    <3> DEFINE k   == log[i].seq
               row == backlog[s][k]
    <3>1. k > 0 /\ Backed(log[i], backlog[s], "none")
      BY <2>1, <2>2, <2>4, <2>5 DEF StreamOK, ReplayOK, Ends
    <3>2. k \in Nat /\ k \in 1..n
      <4>1. k \in Nat
        BY <2>4, <2>5 DEF Event
      <4>2. k <= n
        BY <2>5, <3>1 DEF Backed
      <4>3. QED
        BY <2>1, <3>1, <4>1, <4>2
    <3>3. row \in StepRow /\ k \in 1..Len(sent[s])
      BY <1>1, <2>1, <2>2, <2>4, <3>2, ElementOfSeq DEF StreamOK, ReplayOK, ReplayIsOver
    <3>4. sent[s][k] = ReplayOf(k, row)
      BY <2>2, <2>4, <3>2, <3>3 DEF StreamOK, ReplayOK
    <3>5. /\ ReplayOf(k, row).event = ReplayName[row.status]
          /\ ReplayOf(k, row).seq = k /\ ReplayOf(k, row).attempt = row.attempt
      BY DEF ReplayOf
    <3>6. ReplayOf(k, row).event # "run.completed" /\ row.status \in StepStatus
      BY <3>2, <3>3, ReplayTyped, StepFields DEF Ends
    <3>7. \/ row.attempt > log[i].attempt
          \/ /\ row.attempt = log[i].attempt
             /\ \E y \in StepStatus : EventOf[y] = log[i].event /\ Rank[y] <= Rank[row.status]
      BY <2>5, <3>1 DEF Backed
    <3> HIDE DEF row
    <3>8. Tells(ReplayOf(k, row), log[i])
      BY <2>5, <3>5, <3>6, <3>7 DEF Tells
    <3> HIDE DEF k
    <3>9. ReplayOf(k, row) \in Range(told)
      BY <2>3, <3>3, <3>4
    <3>10. QED
      BY <3>8, <3>9 DEF told
  <2>6. CASE i > since[s] /\ smode[s] # "replay"
    <3>1. i \in Nat /\ i \in (since[s] + 1)..Len(log)
      BY <2>1, <2>6
    <3>2. ASSUME log[i] \in Range(told) PROVE \E m \in Range(told) : Tells(m, log[i])
      <4>1. Tells(log[i], log[i])
        <5>1. CASE log[i].event = "run.completed"
          BY <5>1 DEF Tells
        <5>2. CASE log[i].event # "run.completed"
          <6>1. PICK x \in StepStatus : EventOf[x] = log[i].event
            BY <2>4, <5>2 DEF Event, EventName, EventOf, StepStatus
          <6>2. Rank[x] <= Rank[x]
            BY DEF StepStatus, Rank
          <6>3. QED
            BY <5>2, <6>1, <6>2 DEF Tells
        <5>3. QED
          BY <5>1, <5>2
      <4>2. QED
        BY <3>2, <4>1
    <3>3. CASE smode[s] = "closed" /\ IsTerminal(s)
      <4>1. /\ Len(sent[s]) = n + 1 /\ sent[s][n + 1] = CompletedEvent(sloaded[s])
            /\ log[i] = CompletedEvent(sloaded[s])
        BY <2>2, <3>1, <3>3 DEF StreamOK, OverOK
      <4>2. n + 1 \in 1..Len(sent[s])
        BY <2>1, <4>1
      <4>3. sent[s][n + 1] \in Range(told)
        BY <2>3, <4>2
      <4>4. QED
        BY <3>2, <4>1, <4>3 DEF told
    <3>4. CASE smode[s] = "tail" \/ (smode[s] = "closed" /\ ~IsTerminal(s))
      <4>1. Gapless(sent[s], n, queue[s], log, since[s])
        BY <2>2, <3>4 DEF StreamOK, TailOK
      <4>2. \/ \E k \in 1..Len(sent[s]) : sent[s][k] = log[i]
            \/ \E k \in 1..Len(queue[s]) : queue[s][k] = log[i]
        <5> DEFINE said == sent[s]
                   left == queue[s]
                   from == since[s]
        <5>1. /\ said \in Seq(Message) /\ n \in Nat /\ left \in Seq(Event)
              /\ log \in Seq(Event) /\ from \in Nat /\ i \in (from + 1)..Len(log)
              /\ Gapless(said, n, left, log, from)
          BY <2>1, <3>1, <4>1
        <5> HIDE DEF said, left, from, log, n
        <5>2. QED
          BY <5>1, GaplessTells, ZenonT(40) DEF said, left
      <4>3. log[i] \in Range(told)
        BY <2>3, <4>2
      <4>4. QED
        BY <3>2, <4>3 DEF told
    <3>5. QED
      BY <2>4, <2>6, <3>3, <3>4
  <2>7. QED
    BY <1>1, <2>5, <2>6
<1>2. IInv /\ EventsInv /\ StreamsInv => MissesOnlyTheGap
  BY <1>1 DEF MissesOnlyTheGap
<1>3. QED
  BY <1>2, StreamsInvariance, PTL
-----------------------------------------------------------------------------
(***************************************************************************)
(* With a pool of connections of any size.                                 *)
(***************************************************************************)

\* Waiting for a connection only delays a step; running out of patience is one of the
\* failures the service is exposed to.
LEMMA PoolStep ==
  ASSUME [PoolNext]_poolVars
  PROVE  [StreamNext]_allVars
<1>1. ASSUME NEW r \in Runs, PooledTask(r) \/ PoolTimeout(r), FanOut
      PROVE  StreamNext
  BY <1>1 DEF PooledTask, PoolTimeout, Work, StreamNext
<1>2. ASSUME NEW c \in Cancels, PooledCancel(c), FanOut
      PROVE  StreamNext
  BY <1>2 DEF PooledCancel, Work, StreamNext
<1>3. ASSUME NEW s \in Streams, PooledOpen(s) \/ StreamStep(s) \/ Leave(s)
      PROVE  StreamNext
  BY <1>3 DEF PooledOpen, StreamNext
<1>4. ASSUME Idle
      PROVE  StreamNext
  BY <1>4 DEF StreamNext
<1>5. QED
  BY <1>1, <1>2, <1>3, <1>4 DEF PoolNext, poolVars

\* So what is proved of streams may be used with a pool of any size (session.py:29).
LEMMA PoolOnlyDelays == PoolSpec => StreamSpec
<1>1. [PoolNext]_poolVars => [StreamNext]_allVars
  BY PoolStep
<1>2. QED
  BY <1>1, PTL DEF PoolSpec, PoolInit, StreamSpec

\* With a starved pool the life of a run, as far as it gets, is one of RunLifecycle, no
\* queue is left on the bus (pubsub.py:22-32), and the streams that hold the
\* connections tell their clients what they tell them otherwise (runs.py:108-163).
COROLLARY StarvedServiceIsSound ==
  PoolSpec => /\ Spec
              /\ []OnlyListenersAreSubscribed
              /\ []LiveTailIsGapless
              /\ []MissesOnlyTheGap
              /\ []EndsWithTheResult
BY PoolOnlyDelays, StreamsDoNotDisturb, NoQueueLeaks, TailIsGapless, OnlyTheGapIsMissed,
   ResultComesLast
=============================================================================
