------------------------------ MODULE MCParts ------------------------------
(***************************************************************************)
(* The instances of the parts that are not composed with the life of a     *)
(* run: the draws and charges of seeded runs, the way of a request through *)
(* the middleware, the dashboard's page, the durations of the summary; and *)
(* the requests that read runs, and the clients that walk along the pages, *)
(* both beside the writers of RunTable.  Interleaving them would add no    *)
(* behaviour of any, so one is at work in a behaviour and the others rest  *)
(* as they started.                                                        *)
(***************************************************************************)
EXTENDS SeededRuns, RequestPipeline, Dashboard, Durations, RunReads, RunListing

VARIABLE part  \* the part at work

partsVars == <<seededVars, pipelineVars, pageVars, durations, tables, reads, walks, part>>

\* Whichever it is, it does not matter.
AnyOf(S) == CHOOSE x \in S : TRUE

PartsInit ==
  /\ part \in {"runs", "requests", "page", "summary", "reads", "walks"}
  /\ SeededInit /\ PipelineInit /\ DashboardInit /\ DurationsInit /\ ReadsInit /\ ListingInit
  /\ seed[AnyOf(Tasks)] = AnyOf(Seeds)
  /\ part # "runs" => \A r \in Tasks : seed[r] = AnyOf(Seeds)
  /\ part # "requests" => \A r \in Requests : sent[r] = None
  /\ part # "walks" => \A w \in Walkers : filter[w] = AnyOf(Filters) /\ limit[w] = AnyOf(Limits)

\* Runs, and requests that read them, are interchangeable: they come in this order.
RunOrder    == SetToSeq(Runs)
ReaderOrder == SetToSeq(Readers)

InTurn(order, S) == S = Range(SubSeq(order, 1, Cardinality(S)))

RunsInTurn == InTurn(RunOrder, Existing)

\* Two runs are read by one request, with three steps together; or one run by
\* two requests.  The times do not matter.
FewAtATime ==
  LET busy == { q \in Readers : phase[q] # "idle" } IN
  /\ RunsInTurn /\ InTurn(ReaderOrder, busy)
  /\ Cardinality(Existing) <= 2
  /\ \A r, s \in Existing : r # s => Len(steps[r]) + Len(steps[s]) <= 3
  /\ Cardinality(Existing) + Cardinality(busy) <= 3
  /\ \A r \in Existing : created[r] = 0

\* Walks show runs, not steps.
NoSteps == RunsInTurn /\ \A r \in Runs : steps[r] = <<>>

SeededPart ==
  /\ part = "runs" /\ SeededNext
  /\ UNCHANGED <<pipelineVars, pageVars, durations, tables, reads, walks, part>>

PipelinePart ==
  /\ part = "requests" /\ PipelineNext
  /\ UNCHANGED <<seededVars, pageVars, durations, tables, reads, walks, part>>

PagePart ==
  /\ part = "page" /\ DashboardNext
  /\ UNCHANGED <<seededVars, pipelineVars, durations, tables, reads, walks, part>>

SummaryPart ==
  /\ part = "summary" /\ DurationsNext
  /\ UNCHANGED <<seededVars, pipelineVars, pageVars, tables, reads, walks, part>>

ReadsPart ==
  /\ part = "reads" /\ ReadsNext /\ FewAtATime'
  /\ UNCHANGED <<seededVars, pipelineVars, pageVars, durations, walks, part>>

WalksPart ==
  /\ part = "walks" /\ ListingNext /\ NoSteps'
  /\ UNCHANGED <<seededVars, pipelineVars, pageVars, durations, reads, part>>

PartsNext == SeededPart \/ PipelinePart \/ PagePart \/ SummaryPart \/ ReadsPart \/ WalksPart

PartsSpec == PartsInit /\ [][PartsNext]_partsVars

\* The fairness of the dashboard, when it is at work: the browser's timer fires for
\* ever, and a request is answered or lost in the end.  And that of a client, which
\* goes on with the cursors it is given.
FairPartsSpec ==
  /\ PartsSpec
  /\ WF_pageVars(part = "page" /\ \E f \in Refreshes : Tick(f))
  /\ \A f \in Refreshes :
       /\ WF_pageVars(part = "page" /\ AnswerSummary(f))
       /\ WF_pageVars(part = "page" /\ AnswerRuns(f))
       /\ WF_pageVars(part = "page" /\ Show(f))
  /\ \A w \in Walkers : WF_listing(part = "walks" /\ NextPage(w))
-----------------------------------------------------------------------------
\* The least a model call and a sub-agent may consume; and an odd number of tokens.
SomeModelTokens == {[input |-> 200, output |-> 50], [input |-> 201, output |-> 50]}
SomeSubTokens   == {[input |-> 150, output |-> 50]}
\* Some ties are rounded up.
SomeTies == {11250}

\* No time at all, one that is long beside another, and a clock that was set back.
SomeLengths == {-1, 0, 2, 7}

\* All runs, those of one agent, and those of one status.
SomeFilters ==
  { [statuses |-> RunStatus, runs |-> R] : R \in { S \in SUBSET Runs : Cardinality(S) >= 2 } }
    \union { [statuses |-> {"running"}, runs |-> Runs] }
=============================================================================
