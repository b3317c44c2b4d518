------------------------------ MODULE RunReads ------------------------------
(***************************************************************************)
(* The requests that read runs beside their writers: GET /runs/{id}, its   *)
(* steps, its cost breakdown, the listing and the analytics summary.  Each *)
(* loads the rows of its runs in one SELECT and then the steps of each run *)
(* in a SELECT of its own; every SELECT sees what is committed by then.    *)
(***************************************************************************)
EXTENDS RunTable

CONSTANT Readers  \* the requests

VARIABLES
  phase,    \* where a request is
  loaded,   \* the rows of the runs it has loaded
  read,     \* the steps it has read, by run
  earlier   \* history: the requests that were answered before it loaded its runs

reads == <<phase, loaded, read, earlier>>
everything == <<tables, reads>>

Phase == {"idle", "reading", "done", "not_found"}

RunRow == [status: RunStatus, result: TerminalStatus \union {"none"}, total: Nat,
           created: Times]

RowOf(r) == [status |-> status[r], result |-> result[r], total |-> total[r],
             created |-> created[r]]

ReadsInit ==
  /\ TableInit
  /\ phase = [q \in Readers |-> "idle"]
  /\ loaded = [q \in Readers |-> <<>>]
  /\ read = [q \in Readers |-> <<>>]
  /\ earlier = [q \in Readers |-> {}]
-----------------------------------------------------------------------------
(***************************************************************************)
(* The requests.                                                           *)
(***************************************************************************)
\* Request q gets the rows of the runs in S.
Load(q, S) ==
  /\ phase' = [phase EXCEPT ![q] = "reading"]
  /\ loaded' = [loaded EXCEPT ![q] = [r \in S |-> RowOf(r)]]
  /\ earlier' = [earlier EXCEPT ![q] = { p \in Readers : phase[p] = "done" }]
  /\ UNCHANGED <<tables, read>>

\* get_run, list_steps and run_cost_breakdown: one run, or 404.
LoadRun(q, r) ==
  /\ phase[q] = "idle"
  /\ \/ r \in Existing /\ Load(q, {r})
     \/ /\ r \notin Existing
        /\ phase' = [phase EXCEPT ![q] = "not_found"]
        /\ UNCHANGED <<tables, loaded, read, earlier>>

\* summary: the runs of one agent or all, of a window or of all times; and list_runs:
\* those on the page (see RunListing).  Whichever they are, one SELECT loads them.
LoadRuns(q, S) ==
  /\ phase[q] = "idle"
  /\ Load(q, S)

\* The steps got so far, with those of run r.
WithSteps(got, r, rows) ==
  [x \in DOMAIN got \union {r} |-> IF x = r THEN rows ELSE got[x]]

\* Variant: what the request had taken before it loaded its runs.
ReadStaleSteps(q, r) ==
  /\ phase[q] = "reading"
  /\ r \in DOMAIN loaded[q] \ DOMAIN read[q]
  /\ \E k \in 0..Len(steps[r]) :
       read' = [read EXCEPT ![q] = WithSteps(@, r, SubSeq(steps[r], 1, k))]
  /\ UNCHANGED <<tables, phase, loaded, earlier>>

\* repo.list_steps for a run that is loaded, in whatever order the runs came.
ReadSteps(q, r) ==
  /\ phase[q] = "reading"
  /\ r \in DOMAIN loaded[q] \ DOMAIN read[q]
  /\ read' = [read EXCEPT ![q] = WithSteps(@, r, steps[r])]
  /\ UNCHANGED <<tables, phase, loaded, earlier>>

Answer(q) ==
  /\ phase[q] = "reading"
  /\ DOMAIN read[q] = DOMAIN loaded[q]
  /\ phase' = [phase EXCEPT ![q] = "done"]
  /\ UNCHANGED <<tables, loaded, read, earlier>>

ReadNext ==
  \E q \in Readers :
    \/ \E r \in Runs : LoadRun(q, r) \/ ReadSteps(q, r)
    \/ \E S \in SUBSET Existing : LoadRuns(q, S)
    \/ Answer(q)

ReadsNext ==
  \/ TableNext /\ UNCHANGED reads
  \/ ReadNext

ReadsSpec == ReadsInit /\ [][ReadsNext]_everything
-----------------------------------------------------------------------------
(***************************************************************************)
(* The summary a request answers.                                          *)
(***************************************************************************)
With(q, statuses) == { r \in DOMAIN loaded[q] : loaded[q][r].status \in statuses }

Success(q)   == With(q, {"succeeded"})
Failed(q)    == With(q, {"failed"})
Terminal(q)  == Success(q) \union Failed(q) \union With(q, {"cancelled"})

\* Variant: a run that is being cancelled is forgotten.
InProgressButCancelling(q) == With(q, {"queued", "running"})

InProgress(q) == With(q, {"queued", "running", "cancelling"})

\* total_cost_usd and the tokens.
TotalUsage(q) == SumFunction([r \in DOMAIN loaded[q] |-> loaded[q][r].total])

\* all_steps: those of some runs, from what was read of them.
StepsOf(got, S) == UNION { {r} \X DOMAIN got[r] : r \in S }

\* breakdown_by_step_type: the steps of one type in the runs loaded.
Bucket(q, type) ==
  { i \in StepsOf(read[q], DOMAIN read[q]) : read[q][i[1]][i[2]].type = type }

StepsWith(q, type, s) == { i \in Bucket(q, type) : read[q][i[1]][i[2]].status = s }

BucketUsage(q, type) ==
  SumFunction([i \in Bucket(q, type) |-> read[q][i[1]][i[2]].usage])
-----------------------------------------------------------------------------
(***************************************************************************)
(* Properties.                                                             *)
(***************************************************************************)
\* What the rows of a run with verdict v look like.
Bears(rows, v) ==
  /\ \A k \in 1..(Len(rows) - 1) : rows[k].status = "succeeded"
  /\ v \in Verdicts(rows)

\* Although its runs and their steps are read at different moments, an answer about
\* a run that it shows with an output or error agrees with itself: the total is what
\* the steps beside it add up to, and they bear out the verdict.  Of a run that is
\* not over it shows no total yet.
FinishedReadsAddUp ==
  \A q \in Readers : \A r \in DOMAIN read[q] :
    LET row == loaded[q][r] IN
    /\ row.status \in TerminalStatus => row.result = row.status
    /\ IF row.result = "none" THEN row.total = 0
       ELSE /\ row.total = UsageOf(read[q][r])
            /\ Bears(read[q][r], row.result)

\* No step that was seen disappears, changes its type, or changes once it succeeded.
Advances(before, after) ==
  /\ Len(before) <= Len(after)
  /\ \A k \in 1..Len(before) :
       /\ after[k].type = before[k].type
       /\ before[k].status = "succeeded" => after[k] = before[k]

\* A client that polls, or a dashboard that refreshes, never sees a run go back: a
\* later answer has the steps of an earlier one and maybe more, and a verdict, its
\* total and its steps once shown are shown again.  (The status may turn into
\* "cancelling", see TerminalIsFinal.)
AnswersMoveForward ==
  \A q \in Readers : \A p \in earlier[q] :
    \A r \in DOMAIN read[p] \intersect DOMAIN read[q] :
      /\ Advances(read[p][r], read[q][r])
      /\ loaded[p][r].created = loaded[q][r].created
      /\ loaded[p][r].result # "none" =>
           /\ loaded[q][r].result = loaded[p][r].result
           /\ loaded[q][r].total = loaded[p][r].total
           /\ read[q][r] = read[p][r]
           /\ loaded[q][r].status \in {loaded[p][r].result, "cancelling"}

\* The parts of a summary, although read at different moments, fit together: every
\* run is in progress or counts towards the success rate, the breakdown by step type
\* accounts at least for the total, and for every failed run it shows a failed step.
SummaryFitsTogether ==
  \A q \in Readers : phase[q] = "done" =>
    /\ InProgress(q) \intersect Terminal(q) = {}
    /\ InProgress(q) \union Terminal(q) = DOMAIN loaded[q]
    /\ TotalUsage(q) <= SumFunction([t \in StepType |-> BucketUsage(q, t)])
    /\ \A r \in Failed(q) : \E t \in StepType : \E i \in StepsWith(q, t, "failed") : i[1] = r
-----------------------------------------------------------------------------
(***************************************************************************)
(* The inductive invariant behind the properties of single runs.           *)
(***************************************************************************)
\* The verdict of a run comes with its total, once its rows bear it out, and only
\* "cancelling" may cover it.
TablesInv ==
  \A r \in Runs :
    /\ status[r] = "none" => result[r] = "none" /\ total[r] = 0 /\ steps[r] = <<>>
    /\ status[r] \in TerminalStatus => result[r] = status[r]
    /\ result[r] # "none" => status[r] \in {result[r], "cancelling"}
    /\ \A k \in 1..(Len(steps[r]) - 1) : steps[r][k].status = "succeeded"
    /\ IF result[r] = "none" THEN total[r] = 0
       ELSE total[r] = UsageOf(steps[r]) /\ Bears(steps[r], result[r])

\* What a request still holds is behind the tables, and not for a run that was over.
HeldInv ==
  \A q \in Readers :
    /\ phase[q] = "idle" => DOMAIN loaded[q] = {} /\ DOMAIN read[q] = {}
    /\ DOMAIN loaded[q] \subseteq Existing
    /\ DOMAIN read[q] \subseteq DOMAIN loaded[q]
    /\ \A r \in DOMAIN loaded[q] :
         LET row == loaded[q][r] IN
         /\ row.created = created[r]
         /\ row.status \in TerminalStatus => row.result = row.status
         /\ IF row.result = "none" THEN row.total = 0
            ELSE /\ result[r] = row.result
                 /\ total[r] = row.total
    /\ \A r \in DOMAIN read[q] :
         /\ Advances(read[q][r], steps[r])
         /\ loaded[q][r].result # "none" => read[q][r] = steps[r]

\* And so for two requests, one answered before the other loaded its runs.
EarlierInv ==
  \A q \in Readers : \A p \in earlier[q] :
    /\ p \in Readers /\ phase[p] = "done" /\ p # q
    /\ \A r \in DOMAIN loaded[p] \intersect DOMAIN loaded[q] :
         loaded[p][r].result # "none" =>
           /\ loaded[q][r].result = loaded[p][r].result
           /\ loaded[q][r].total = loaded[p][r].total
           /\ loaded[q][r].status \in {loaded[p][r].result, "cancelling"}
    /\ \A r \in DOMAIN read[p] \intersect DOMAIN read[q] :
         /\ Advances(read[p][r], read[q][r])
         /\ loaded[p][r].result # "none" => read[q][r] = read[p][r]

TablesTypeOK ==
  /\ status \in [Runs -> RunStatus \union {"none"}]
  /\ result \in [Runs -> TerminalStatus \union {"none"}]
  /\ DOMAIN total = Runs
  /\ steps \in [Runs -> Seq(ReadableStep)]
  /\ created \in [Runs -> Times \union {0}]

HoldersTypeOK ==
  /\ phase \in [Readers -> Phase]
  /\ DOMAIN loaded = Readers
  /\ DOMAIN read = Readers
  /\ \A q \in Readers : \A r \in DOMAIN read[q] : read[q][r] \in Seq(ReadableStep)
  /\ earlier \in [Readers -> SUBSET Readers]

\* The inductive invariant: the tables, what a request holds of them, and what two
\* requests hold fit together.
ReadsIInv ==
  /\ TablesTypeOK /\ HoldersTypeOK
  /\ TablesInv /\ HeldInv /\ EarlierInv

\* What the sums of a summary rest on: runs are added one by one, so there are finitely
\* many, and who answers has read the steps of all it loaded.
SummaryInv ==
  /\ IsFiniteSet(Existing)
  /\ \A q \in Readers :
       /\ phase[q] = "done" => DOMAIN read[q] = DOMAIN loaded[q]
       /\ \A r \in DOMAIN loaded[q] : loaded[q][r].status \in RunStatus
=============================================================================
