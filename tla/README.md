# Formal models of the StackAI Agent Runs service

TLA+ modules that model the service of this repository, TLC configurations that
check them on small instances, and TLAPS proofs about them for every value of
their constants. `PROJECT.json` lists the components, the runs, the theorems, the
hazards of the code and, under `map`, the source lines of every definition.

Run a model with `tlc -config <name>.cfg <module>`, check the proofs with
`tlapm <module>Proofs.tla`. The modules use the community modules
`SequencesExt`/`Functions` and, for proofs, the TLAPS library.

## 1. The system

One process: FastAPI handlers and background tasks on one asyncio event loop, over
a SQLite file (WAL, one connection per session). Code between two `await`s that
suspend is atomic; everything else interleaves.

| Component | Code | State it keeps | Operations |
|---|---|---|---|
| Run task | `services/runner.py` | `_cancel_flags`; the locals of `execute_run` (plan, seq, step, totals, final status); rows it writes | `execute_run`, `_run_step` (attempts, back-off), `_persist_and_publish`, `request_cancel` |
| Run service | `services/run_service.py` | `_background_tasks`; per request: session, loaded record | `create_run`, `_replay_or_conflict`, `cancel_run`, reads, `list_runs` |
| Event bus | `services/pubsub.py` | `_subscribers`: run id to list of queues | `subscribe`, `unsubscribe`, `publish` |
| Event stream | `api/v1/runs.py`, `stream_run_events` | loaded status, backlog, queue | load, replay, tail, end |
| Persistence | `db/` | tables `runs` (unique on agent and key) and `steps`, write lock, connection pool | statements, commit, rollback |
| Reads, listing | `services/run_service.py`, `db/repository.py` | none; a client keeps the cursor | `get_run`, `list_steps`, `list_runs` |
| Analytics | `services/analytics_service.py` | none | `summary`, `run_cost_breakdown`, `_percentile` |
| Cost model | `services/cost.py` | none | `model_call_cost`, `tool_call_cost` |
| Telemetry | `telemetry.py` | spans, counters | `start_as_current_span`, `add` |
| Middleware, errors | `main.py`, `core/errors.py` | `request.state.request_id` | naming, problem answers |
| Dashboard | `static/dashboard.html` | its panels and status line | `refresh`, `startRun` |

How they interact. `POST /runs` commits a row, then creates the task. The task
commits its rows in short sessions of their own and publishes each step on the bus
after its commit. A cancel shares two things with the task: the in-memory flag,
which the task looks at between steps, and the `status` column, which both write on
the strength of an earlier read. A stream reads the tables first and the bus
afterwards. Nothing survives a restart but the tables.

What is hard, and what makes each component correct:

* **Run task.** Retries reuse the id of a row and copy columns by hand; there are
  four ways out of the loop; the flag is looked at in two places; the last commit
  races with cancels. Correct: one verdict, borne out by the rows, recorded once,
  announced last; the events tell the rows in order, never ahead of them; totals,
  rows and counters agree.
* **Cancel.** Check, signal and write are separated by awaits. Correct: heard in
  time, it stops the run at the step under way and the run is never "succeeded".
* **Create.** Look-ups race before any commit; the index decides; the loser
  has to find who won. Correct: one run per agent and key, everybody with that key is
  told about it, every run gets one task.
* **Stream and bus.** Subscribers come and go between publications; history comes
  from the tables, the rest from the bus. Correct: nothing lost but in the
  hand-over, no queue left behind, the end is told and ends the stream.
* **Reads, listing, analytics.** An answer is put together from several statements,
  pages from several requests, and writers commit in between. Correct: the parts fit
  together, nothing shown is taken back, a walk shows every run once and ends.
* **Connection pool.** A stream keeps a connection as long as it is open, and the
  runs it waits for need one. Correct: nobody waits for himself.
* **Seeds and prices.** Tasks take turns between two draws; charges are rounded one
  by one. Correct: one seed, one run; a run is charged by the price list.
* **Spans.** They follow the context of a task through retries and exceptions and
  are named by rows saved elsewhere. Correct: one tree per run, which tells its rows.
* **Middleware, dashboard.** Requests and refreshes overlap, and may be lost. Correct:
  an answer names its own request; the page recovers by itself.
* **Failures.** Statements raise (lock or pool time-outs), clients leave, the
  process restarts; nothing resumes a run. Correct: what was recorded stays.

## 2. The modules

| Module | Models | Extends / instantiates |
|---|---|---|
| `RunTypes` | the vocabulary: statuses, step types, events | |
| `RunLifecycle` | the run task, cancel requests, failures, restart | `RunTypes` |
| `RunContract` | abstract: what is promised of a run | |
| `RunTable` | abstract: which commits to the tables a reader may find | `RunTypes` |
| `RunLifecycleProperties` | properties and inductive invariant of a run | `RunLifecycle`, `RunContract`, `RunTable` |
| `IdempotentCreate` | abstract: what is promised to callers that retry | |
| `CreateRun` | concurrent `POST /runs`, and its properties | `IdempotentCreate` |
| `EventStream` | streams and bus composed with the life of a run | `RunLifecycleProperties` |
| `ConnectionPool` | the pool that runs, cancels and streams share | `EventStream` |
| `RunReads` | reads and summaries beside the writers | `RunTable` |
| `RunListing` | a client's walk along the pages beside the writers | `RunTable` |
| `CostModel` | price list and rounding | |
| `SeededRuns` | draws and charges of runs with seeds | `CostModel` |
| `Durations` | `_percentile` over sorted durations | |
| `RunTrace` | spans, span ids of rows and counters beside a run | `RunLifecycle` |
| `RequestPipeline` | middleware and error handlers | |
| `Dashboard` | the script of the dashboard | |
| `RunTypesProofs` | facts about usage and about sums over finite sets | `RunTypes`, `TLAPS` |
| `RunLifecycleProofs`, `CreateRunProofs`, `RunTraceProofs` | theorems about the module named | that module, `TLAPS` |
| `RunRecordsProofs` | what a run leaves behind: events, books, tables | `RunLifecycleProofs`, `RunTypesProofs` |
| `EventStreamProofs` | streams, and the pool beneath them | `ConnectionPool`, `RunRecordsProofs` |
| `ReadersProofs` | reads, summaries and walks | `RunReads`, `RunListing`, `RunTypesProofs` |
| `PartsProofs` | seeded runs, requests, durations | the three modules, `RunTypesProofs` |
| `MC...` | instances for TLC: symmetry sets, values, bounds | |

Definitions that a comment calls a *variant* are the mutants of `PROJECT.json`: a
plausible bug in place of the definition that follows, which the named property
must refute. No action uses them.

### RunLifecycle

Per run: the row (`status`; `result`, which verdict the output and error columns
show; `total`), its step rows (`steps`), the cancel `flag`, where the task is
suspended (`pc`) with its locals (`plan`, `seq`, `cur`, `spent`, `outcome`), the
counters (`metered`) and what was published. Per cancel: where it is (`cpc`), its
run, the status it loaded. `heard` and `faults` are history and a bound.

The value of `pc` names what the task waits for:

    absent -CommitRun-> inserted -ScheduleRun-> scheduled -StartTask-> set_running
      -CommitRunning-> begin -BeginPlan-> persist | set_final
    persist -PersistStep-> publish
      -PublishStarted->          working   (then StepFails, StepSucceeds -> persist)
      -PublishFailedAndRetry->   persist   ("retrying" is saved next)
      -PublishRetrying->         backoff   (then Retry -> persist)
      -PublishFailedForGood->    set_final
      -PublishSucceeded->        persist (next step) | set_final
    set_final -CommitFinal-> announce -Announce-> done

`Attempts` is the range of the loop over the attempts. That a retry has an attempt left
is tested once more at the publication (`runner.py:219`); should the two tests differ,
`Retry` falls out of the loop with the step at "retrying", as the code does.

A publication never suspends (the queues have no bound), so what follows it up to
the next database statement, the head of the loop and the flag included, is part of
the same action. A read, its write and their commit are one action where only the
task writes what it read; the cancel's are `CancelLoad`, `CancelSignal`,
`CancelCommit`, since the task writes the same column. The ORM writes back only the
columns that differ from what was loaded: a cancel that loaded "cancelling" writes
nothing.

`Usage` stands for tokens in, tokens out and cost at once: they are computed, added
and saved at the same places. Seeds, durations, names, spans and texts are left
out; whether a fallible step fails, which plan is drawn and what a step consumes
are open choices, as any seed may draw them.

### CreateRun

A request is named by itself and so is the run it would create (ids are fresh).
`FindExisting`/`FindNone` are the look-up, `Insert` the flush that takes the write
lock, `Commit`, `Schedule` the rest of the handler; `InsertRefused` the flush that
meets the unique index, which has rolled the transaction back before the handler sees
the exception, and `Recheck` the fallback of the loser. An empty key is not looked up
but takes part in the index; no key is NULL and does not. `LockTimeout` may happen
at any INSERT, as other sessions write, too. `Restart` drops what is in flight.

### EventStream

The next-state relation composes a step of `RunLifecycle` with `FanOut`, which puts
what that step published into the queues of the run's subscribers, and interleaves
it with the steps of the streams: `OpenStream` and `LoadBacklog` (two SELECTs),
`ReplayNext` (one message each), `Subscribe` or `EndAfterReplay`, `Deliver`,
`Leave`. Keep-alives change nothing and are left out. A stream that is gone forgets
its history. `before` and `since` record how much had been published at the reading
of the steps and at the subscription.

### ConnectionPool

Restricts the actions of `EventStream` that begin a session to moments when a
connection is free, and adds the pool's time-out, an exception in the task. The
sessions of the runner and of a create lie within one action, that of a cancel
reaches from its load to its answer, that of a stream, which is the session of its
request (`session.py:52`), over all of its life. `PoolLimits` are the possible values
of `pool_size` and `max_overflow` together, 15 by default.

### RunTable, RunReads, RunListing

`RunTable` lists the commits that writers make, one action each: what a reader may
rely on between two statements. That the task and the cancels make no others is
`ImplementsRunTable`, checked with `created` as the only mapped-away detail. Readers
are then checked beside `RunTable` alone, which is small enough for two runs.

`RunReads`: a request loads rows (`LoadRun`, `LoadRuns`), then the steps of each run
(`ReadSteps`), then answers. One SELECT is one action. The set `LoadRuns` loads is
any set of runs: windows, filters and pages select some set, and none of the
properties depends on which. `Success`, `Failed`, `InProgress`, `Bucket`,
`TotalUsage` are the sums of `summary`, taken over what was loaded.

`RunListing`: `FirstPage`, `NextPage` and `Garbled` (a cursor that cannot be decoded)
answer a page of `limit` rows of the WHERE clause; equal times sort in any order, in
another one each time. `steady` is history: what matched from the first page on.

### SeededRuns, CostModel, Durations

`yields` is what the generator of a seed yields: arbitrary, but fixed once anybody has
drawn it. A task draws its plan, then one failure or number of tokens per attempt.
Charges are integers of 10^-8 dollars, in which all prices are whole; binary floating
point shows only in which ties `round(x, 6)` rounds up (`TiesUp`). `Durations` has the
rank of `_percentile` in hundredths and its interpolation without division.

### RunTrace

Adds to each action of `RunLifecycle` what it does to the trace: a span is opened in
the innermost open one of its task (`ContextIn`) and closed with its block; an
exception leaves all blocks (`Broken`); `CopySpanId` is the hand-made copy of the
column. `TraceTask`, `TraceRow`, ... are the actions with their spans.

### RequestPipeline, Dashboard

`RequestPipeline` is the way of a request through the layers that `main.py` puts
together, with the framework's own (external). `Dashboard` is the page: overlapping
calls of `refresh`, whose two requests are answered apart, lost or answered with a
problem, and clicks. A number stands for what the service would tell.

### MCParts

The modules that are not composed with the life of a run: `SeededRuns`,
`RequestPipeline`, `Dashboard` and `Durations`, which share no variable with anything,
and `RunReads` and `RunListing`, which share the tables of `RunTable` but never look at
each other. One run checks them side by side: `part` picks the one that is at work in a
behaviour. Letting them take turns would add no behaviour of any.

## 3. What the runs check

| Run | Instance | What it shows |
|---|---|---|
| `lifecycle` | 1 run, 2 cancels, 1 tool, 1 retry, usages 1 and 2, 2 failures; 1.4 million states | `IInv`, `StatusAgreesWithResult`, `VerdictMatchesSteps`, `HeardCancelIsHonoured`, `UsageAgrees`, `EventsAreBackedByRows`, `EventsTellTheStory`, `ResultIsFinal`; implements `RunContract` and `RunTable`; `RunCompletes`, `HeardCancelTakesEffect` |
| `create_safety` | 3 requests, 2 agents, 1 key or none or empty, 2 inputs, 2 extras, 1 restart | `OneRunPerKey`, `RetriesAgree`, `LoserFindsWinner`, `RowsAndTasksMatch`; implements `IdempotentCreate` |
| `streams` | 1 run, 1 cancel, 1 retry, 1 failure, 2 streams; 2.1 million states | `MissesOnlyTheGap`, `EndsWithTheResult`, `LiveTailIsGapless`, `OnlyListenersAreSubscribed` |
| `pool` | 1 run, 1 cancel, 1 stream, pool of 1 or 2, 1 failure | `EndsWithTheResult`; `RunCompletesBesideStreams`, `FollowedStreamCloses` |
| `trace_safety` | 2 runs, 1 cancel, 1 tool, 1 retry, 1 failure | `TracesAreTrees`, `RowsNameTheirSpan`, `TraceTellsTheRun` |
| `parts` | seeded runs: 2, with 2 seeds, 2 tools, 1 retry | `SameSeedSameRun`, `ChargedByThePriceList` |
| | middleware: 2 requests | `AnswersNameTheirRequest` |
| | dashboard: 2 refreshes, 1 click, 1 change, 2 faults | `DashboardCatchesUp` |
| | summary: up to 22 durations of 4 values | `PercentilesAreOrdered`, `P95ShowsTheTail` |
| | reads: 2 runs of 3 steps together and 1 reader, or 1 run of 2 steps and 2 readers | `FinishedReadsAddUp`, `AnswersMoveForward`, `SummaryFitsTogether` |
| | walks: 3 runs, 3 times, pages of 1 or 2, all runs, those of an agent, those of a status | `PagesDescend`, `WalkIsComplete`, `WalkEnds` |

Six more runs expect a violation: each states what a doc or comment of the
repository says and the code does not do.

| Run | Violated | What happens |
|---|---|---|
| `v_terminal_is_final` | `TerminalIsFinal` | A cancel loads the run, the task commits its verdict, the cancel commits: the status is "cancelling" for good. |
| `v_stream_closes` | `StreamCloses` | The run completes between the load and the subscription: the stream waits for ever. A run left at "cancelling" by the first item has the same effect on every later stream. |
| `v_walk_complete` | `WalkMissesNothing` | A page is cut between two runs of one time: the second is on no page. |
| `v_key_reuse` | `ReplaysSameBody` | A key is used again with the same `input` and another seed or `metadata`: a replay, where the docs promise a 409 (`run_service.py:111`). |
| `v_span_per_step` | `OneSpanPerStep` | A step that fails once and is retried has two spans (`runner.py:159`), where the docs know of one. |
| `v_problem_answers` | `EveryErrorIsAProblem` | A path that does not exist is answered by the framework, without `request_id` (`main.py:43`). |

The passing runs check what the code keeps nonetheless: `ImplementsIdempotentCreate`
leaves open whether the rest of a body counts, `TraceTellsTheRun` speaks of the spans of
attempts, `AnswersNameTheirRequest` of problems.

The models show more places where the code does not do what one may expect. They
follow from a single guard or line, so no run is spent on them:

* A cancel that runs before the task's first slice finds no flag: the answer is 200
  and all steps start (`README.md:257-267` names the window). `HeardCancelIsHonoured`
  speaks of cancels that found it.
* A step under way is replayed as `step.running`, which the stream's description does
  not list (`api/v1/runs.py:129`).
* The totals of a run are columns of its last commit (`runner.py:307-309`): a run in
  progress is shown with zero beside steps that have a cost, and the total of a summary
  lags behind its breakdown (`analytics_service.py:128`), although `README.md:228-231`
  speaks of one source. So `FinishedReadsAddUp` is about finished runs, and
  `SummaryFitsTogether` says "at least". A failed commit or a restart leaves it so.
* A bound of the summary's window with an offset is compared by its wall clock: the
  driver drops the offset (`repository.py:59`).
* When streams hold all connections for longer than the pool's time-out, the runner's
  next statement raises and its run never ends (`session.py:29`). No property forbids
  it; that such a run is never told as ended is `EndsWithTheResult` in `pool`, whose
  mutant takes the time-out for an end of the run.
* The request id is on no span (`main.py:49`), and a 500 has no `X-Request-Id` header.
* A refresh that was overtaken shows its older data until the next
  (`dashboard.html:152`); a lost click is reported as invalid JSON.

Why the bounds are enough. Runs share nothing but the database file, the loop, the
pool and the bound on failures, so one run shows all interleavings of one; the proofs
do not bound them. One tool call gives plans of three and four steps with fallible and
infallible ones, a first, a middle and a last step; one retry gives a first, a
repeated and an exhausted attempt. Two cancels race with the task and each other (a
third would repeat one of the two). Two failures allow a restart after a crash. Two
usages tell whose was counted. Three requests are a winner, a loser and one that comes
later, or one of another agent. Two streams suffice for one to disturb the other
(`FewAtATime` of `MCEventStream`: one stream beside a run of three steps with a retry,
a cancel and a failure, or of four with one of these; two beside a run of three that
nothing disturbs, as a stream writes nothing the run reads). A pool of one connection
is exhausted by one stream, a pool of two is not. A request that reads two runs has
one between whose statements the other moves; two requests for one run are an earlier
and a later answer (`FewAtATime` of `MCParts` keeps it to these; runs and readers are
interchangeable and come in one order). Three runs in pages of one or two give a full,
a last and an empty remainder; three times give equal, earlier and later ones. Two
seeded runs have one seed or two; two traces suffice for a span to hang under the
wrong one. With 22 durations the rank of p95 passes from the last pair to the one
before. Symmetry is used where no liveness is checked.

Fairness. asyncio runs every task that is ready, sleeps and statements end, so a
task that was created takes its next step (`WF` of the task's steps from
"inserted" on), and so does a request already made; nobody need make one, and no
fairness is put on failures. A stream's steps are fair as long as its client stays
and reads; a client may leave instead. Those who wait for a connection are served in
turn, so that a connection free again and again is got (`SF` in `FairPoolSpec`);
what is assumed of time is that only open streams keep one longer than the time-out
of the pool: requests are answered before. A client that walks asks for its next page,
and the browser's timer fires (`WF`).

What the liveness properties exclude is part of them. `RunCompletes`,
`HeardCancelTakesEffect` and `FollowedStreamCloses` speak of behaviours in which no
statement fails and nothing restarts (`NothingFails`): a run whose statement raised
or that was cut off never ends, as the code has nothing that resumes it. Beside
streams they also need a connection that is left again and again (`[]<>~Exhausted`).
`WalkEnds` needs cursors that are understood from some time on, since every garbled
one begins the walk again; `DashboardCatchesUp` a service at which nothing happens
any more.

## 4. What is proved

All theorems hold for any runs, cancels, plans, retries, failures, requests,
agents, keys, streams, pools, windows, filters, seeds and prices of tokens, from the
assumptions on constants named in the modules.

**RunLifecycleProofs.** The properties are not inductive: that "cancelled" is only
reported for whole steps, for instance, depends on where the task was when it
looked at the flag. `IInv` adds what the task knows at each suspension:
`StageInv` (which writes it has done), `RowsInv` (the local step and its row, the
rows before it), `OutcomeInv` (a settled verdict and the rows), `FlagInv` (as long
as the task can look at it the flag is set exactly if a cancel was heard, and the
step under way is the one recorded in `heard`). A lemma per part shows that each of
the actions keeps it given all parts, `StepCases` puts them together; `RetryGoesOn` shows that the two tests of the
retry bound agree, so the loop is not left by its end. `IInv` gives
`TypeCorrectness`, `StatusResult`, `CancelHonoured`, `VerdictSound`, `ResultFinal`
(an action property) and `Refinement`: `seq`, `heard`, `outcome` and `result` map to
`opened`, `asked`, `verdict` and `recorded`, and every action is a step of the
contract or a stutter.

**CreateRunProofs.** `IInv` adds `RaceInv`, what a request may rely on at each await
although others moved on (whoever is about to commit is not refused, as it holds
the lock; whoever was refused is refused still, as rows stay), and `AnswersInv`. It
gives `OneRun`, `RetriesSafe`, `LoserFinds`, `RowsAndTasks` and `Refinement`, where
`Commit` maps to the atomic creation.

**RunRecordsProofs.** Three things a run leaves behind.

* *Events.* That they tell a story is not inductive either. `EventsInv` says what was
  published last, depending on where the task is and on its local step (`LogOK`), and
  that the local step is never behind its row (`LocalOK`): a new message continues the
  log (`StoryGoesOn`), and a row that moves on covers what it covered
  (`BackedByLaterRows`). It gives `StoryTold` and `EventsBacked`.
* *Books.* The totals, the rows and the counters are written at three places, so
  between two of them they differ, by the usage of the step under way: `BooksOK`
  (with `RowsOK` and `StatusOK` in `RecordsInv`) says when and by how much. It gives `BooksBalance` (`UsageAgrees`).
* *Tables.* `TableRefinement`: every commit of the task and of a cancel is one that
  `RunTable` allows (`ImplementsRunTable`), since the local step is at most one move
  ahead of its row. So the theorems about readers, which are checked and proved beside
  `RunTable`, hold beside the service.

**RunTypesProofs.** `UsageOf` and the community's `SumFunction` are recursive functions.
What such a function computes is shown by the least counterexample: a set of naturals
that is not empty has a least element (`LeastNumber`, from the library's `WFMin`), and
some finite sets have a smallest one (`SmallestSet`). For `UsageOf`: a new row adds its
usage, an overwritten one exchanges it. For sums over sets: the order does not matter
(`SumOverOneMore`), disjoint sets add up (`SumOverUnion`).

**EventStreamProofs.** A lemma, true by the shape of the composition, carries the
invariants of `RunLifecycle` over to the behaviours with streams. `NoQueueLeaks`: the lists of the bus
hold the listening streams and no others. `StreamsInv` says of each stream that its
replay covers what was announced before (`ReplayOK`, on `EventsBacked`), that a run
that was over when loaded announces its result only (`OverOK`), and that what was told
live and what waits is the log since (`TailOK`, with lemmas about `Gapless`); that
nothing waits behind `run.completed` rests on `StoryTold`. It gives `TailIsGapless`,
`OnlyTheGapIsMissed` and `ResultComesLast`, for any number of streams.

`StarvedServiceIsSound`: what is proved of runs and streams holds when a pool of any
size is exhausted and statements time out, too, as a time-out is one of the failures
the invariants bear.

**ReadersProofs.** `ReadsIInv` is what makes answers of several moments agree: rows of a
run only move on (`TablesInv` says what they look like), what a request has read is
what is stored or an earlier state of it (`HeldInv`), and what was shown before a
request loaded its rows is behind what it reads (`EarlierInv`). It gives `AnswersAgree`
and `PollingMovesForward`, for any number of runs, readers and steps. `SummaryFits`
needs finite sums, hence `SummaryInv`, by which there are finitely many runs at any
time: the steps of the runs loaded are summed run by run (`SumsOfRuns`) and type by
type (`BucketsAddUp`), and each run's total is none yet or what its steps add up to.
`ListingInv`: what a walk has shown lies at or before its cursor, and what it has not
shown of the steady runs lies behind it or on a cut. It gives `PagesInOrder` and
`WalksAreComplete` for any times, filters and limits.

**RunTraceProofs.** `IInv` of the run, carried over by a lemma, tells where the task is.
`TraceInv` ties the trace to the run: parents
precede their children and belong to the same run (`Tree`), a row names a span of its
own attempt (`NamesOK`), which spans are open is where the task is suspended
(`OpenOK`), and what the closed ones tell is what the rows say, but for the step whose
span is closed and whose row is not saved yet (`ToldOK`). It gives `TracesTreelike`,
`RowsNamed` and `TraceTold`, after exceptions and restarts, too.

**PartsProofs.** What the generator of a seed yields determines one course of jobs
(`Course`), each of which extends the one before; every run with that seed is on it, as
far as it has drawn. It gives `SeedDeterminesRun`. `ChargesAreFair` rests on a lemma
about `Rounded`, which is off by half a micro-dollar at most. `AnswersNamed`: from the
moment a request is named, its id and its draft answer are its own (`PipelineInv`).
The durations of a summary are sorted, as each goes behind all that do not exceed it
(`InsertedInOrder`); a percentile of sorted values lies between two of them
(`PercentileIs`), which gives `PercentilesOrdered` and, by counting positions,
`TailShown`, for any number of runs.

Every invariant and every refinement that a passing run checks is a theorem.
Only
model-checked are the liveness properties (`RunCompletes`, `HeardCancelTakesEffect`,
`RunCompletesBesideStreams`, `FollowedStreamCloses`, `WalkEnds`, `DashboardCatchesUp`),
since the prover does not do `ENABLED` and fairness; of the dashboard there is no other
property. The six statements that runs refute are no theorems, of course.

## 5. What is not modelled

* Field validation (its outcome, a 422, is in `RequestPipeline`), formatting of
  answers, titles and details of problems, texts of outputs and errors, latencies.
* Of the summary, the averages, the rates and the split by agent: sums and quotients
  of what is modelled. Of the window, the comparison of times.
* Exporters, batching, resources and the histogram of `telemetry.py`; logging.
* `core/config.py`, the collector's configuration, the compose file: constants, no state. What the code uses of them is a CONSTANT.
* The layout of the dashboard and the formatting of its cells.
* Several processes: the code is written for one.

## 6. Plan

Done: every component with state of its own or an order of steps that matters; their
invariants and refinements, checked and proved. Left, in this order:

1. The safety parts of what is only checked as liveness: the measure by which a task
   moves on (each of its steps either brings it nearer to "done" or is one of finitely
   many retries) as an action property with a theorem.
2. A safety property of the dashboard: what a panel shows is what some refresh got.
3. The reads beside `RunLifecycle` itself in one theorem that cites `TableRefinement`.
4. What is left undone after a failure: which runs stay unfinished for ever after a
   failed statement, a starved pool or a restart. Today it is only said that liveness
   needs `NothingFails`, and that what was recorded stays.
