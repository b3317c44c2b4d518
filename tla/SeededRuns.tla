----------------------------- MODULE SeededRuns -----------------------------
(***************************************************************************)
(* Runs and their seeds.  Each task draws its plan, failures and tokens    *)
(* from a generator of its own, seeded by the run; tasks take turns at     *)
(* every suspension.  The draws of a slice are one here, and those that    *)
(* only set a latency are left out.  What a generator yields is arbitrary, *)
(* but the same for every run with its seed: it is fixed when it is first  *)
(* drawn.                                                                  *)
(***************************************************************************)
EXTENDS CostModel, SequencesExt

CONSTANTS
  Tasks,                  \* the runs, each by its task
  Seeds,
  MaxTools, MaxRetries,   \* as in RunLifecycle
  ModelTokens, SubTokens  \* what randint may yield for a model call, for a sub-agent

ASSUME SeededAssumption ==
  /\ MaxTools \in Nat \ {0} /\ MaxRetries \in Nat
  /\ ModelTokens \subseteq Tokens /\ SubTokens \subseteq Tokens

VARIABLES
  seed,     \* the seed of a run
  yields,   \* what the generator of a seed yields, as far as anyone has drawn
  drawn,    \* how much of it a run has drawn
  job,      \* the locals of a task: plan, attempt, the steps so far, total_cost; and
            \* what it has cost to the unit (history)
  stopped   \* whether a cancel has ended the loop

seededVars == <<seed, yields, drawn, job, stopped>>

JobOf(plan, attempt, steps, total, exact) ==
  [plan |-> plan, attempt |-> attempt, steps |-> steps, total |-> total, exact |-> exact]

NewJob == JobOf(<<>>, 1, <<>>, 0, 0)

SeededInit ==
  /\ seed \in [Tasks -> Seeds]
  /\ yields = [s \in Seeds |-> <<>>]
  /\ drawn = [r \in Tasks |-> 0]
  /\ job = [r \in Tasks |-> NewJob]
  /\ stopped = [r \in Tasks |-> FALSE]

\* Variant: all tasks draw from one generator.
UpcomingShared(r, options) == options

\* What run r may draw next, of the options it asks for.
Upcoming(r, options) ==
  LET known == yields[seed[r]] IN
  IF drawn[r] < Len(known) THEN {known[drawn[r] + 1]} ELSE options

Draw(r, d) ==
  /\ yields' = IF drawn[r] < Len(yields[seed[r]]) THEN yields
               ELSE [yields EXCEPT ![seed[r]] = Append(@, d)]
  /\ drawn' = [drawn EXCEPT ![r] = @ + 1]
  /\ UNCHANGED <<seed, stopped>>
-----------------------------------------------------------------------------
ModelCall(model) == [type |-> "model_call", model |-> model]
ToolCall         == [type |-> "tool_call", model |-> "none"]
SubAgent         == [type |-> "sub_agent", model |-> "sim-fast"]

\* _plan_steps.
PlanDraw == [tools: 1..MaxTools, delegates: BOOLEAN, final: {"sim-standard", "sim-reasoning"}]

PlanFrom(d) ==
  <<ModelCall("sim-fast")>> \o [i \in 1..d.tools |-> ToolCall]
    \o (IF d.delegates THEN <<SubAgent>> ELSE <<>>) \o <<ModelCall(d.final)>>

Planned(j, d) == JobOf(PlanFrom(d), j.attempt, j.steps, j.total, j.exact)

PlanSteps(r) ==
  /\ job[r].plan = <<>>
  /\ \E d \in Upcoming(r, PlanDraw) :
       /\ Draw(r, d)
       /\ job' = [job EXCEPT ![r] = Planned(@, d)]

\* The step under way.
Current(j) == j.plan[Len(j.steps) + 1]

Working(r) ==
  /\ ~stopped[r]
  /\ Len(job[r].steps) < Len(job[r].plan)
  /\ \A k \in 1..Len(job[r].steps) : job[r].steps[k].status = "succeeded"

\* What the draws of an attempt may yield; model calls do not fail.
Failure == [fails |-> TRUE]
Succeeding(options) == [fails: {FALSE}, tokens: options]

WorkDraw(spec) ==
  CASE spec.type = "model_call" -> Succeeding(ModelTokens)
    [] spec.type = "tool_call"  -> Succeeding({NoTokens}) \union {Failure}
    [] spec.type = "sub_agent"  -> Succeeding(SubTokens) \union {Failure}

\* What a step is charged, and what it costs to the unit.
Charge(spec, tokens) ==
  CASE spec.type = "model_call" -> model_call_cost(spec.model, tokens)
    [] spec.type = "tool_call"  -> TOOL_CALL_COST
    [] spec.type = "sub_agent"  -> Rounded(model_call_cost(spec.model, tokens) + TOOL_CALL_COST)

Cost(spec, tokens) ==
  CASE spec.type = "model_call" -> Price(spec.model, tokens)
    [] spec.type = "tool_call"  -> TOOL_CALL_COST
    [] spec.type = "sub_agent"  -> Price(spec.model, tokens) + TOOL_CALL_COST

\* The step under way ends.
Ended(j, status, charge, cost) ==
  LET row == [spec |-> Current(j), status |-> status, attempt |-> j.attempt, charge |-> charge]
  IN  JobOf(j.plan, 1, Append(j.steps, row), j.total + charge, j.exact + cost)

Retried(j) == JobOf(j.plan, j.attempt + 1, j.steps, j.total, j.exact)

\* Variant: every attempt is charged.
SucceededAfter(j, tokens) ==
  Ended(j, "succeeded", j.attempt * Charge(Current(j), tokens), Cost(Current(j), tokens))

Succeeded(j, tokens) == Ended(j, "succeeded", Charge(Current(j), tokens), Cost(Current(j), tokens))

StepSucceeds(r) ==
  /\ Working(r)
  /\ \E d \in Upcoming(r, WorkDraw(Current(job[r]))) :
       /\ ~d.fails
       /\ Draw(r, d)
       /\ job' = [job EXCEPT ![r] = Succeeded(@, d.tokens)]

StepFails(r) ==
  /\ Working(r)
  /\ Failure \in Upcoming(r, WorkDraw(Current(job[r])))
  /\ Draw(r, Failure)
  /\ \/ /\ job[r].attempt <= MaxRetries
        /\ job' = [job EXCEPT ![r] = Retried(@)]
     \/ /\ job[r].attempt > MaxRetries
        /\ job' = [job EXCEPT ![r] = Ended(@, "failed", 0, 0)]

\* A cancel ends the loop between two steps.
Stop(r) ==
  /\ Working(r)
  /\ job[r].attempt = 1
  /\ stopped' = [stopped EXCEPT ![r] = TRUE]
  /\ UNCHANGED <<seed, yields, drawn, job>>

AllOver ==
  /\ \A r \in Tasks : job[r].plan # <<>> /\ ~Working(r)
  /\ UNCHANGED seededVars

SeededNext ==
  \/ \E r \in Tasks : PlanSteps(r) \/ StepSucceeds(r) \/ StepFails(r) \/ Stop(r)
  \/ AllOver

SeededSpec == SeededInit /\ [][SeededNext]_seededVars
-----------------------------------------------------------------------------
(***************************************************************************)
(* Properties.                                                             *)
(***************************************************************************)
\* Two runs with one seed, started whenever and whatever runs beside them, have the
\* same plan, and the steps of one are the first of the other, attempt by attempt and
\* charge by charge: replaying a run with its seed reproduces it, as far as it came.
SameSeedSameRun ==
  \A r, s \in Tasks : seed[r] = seed[s] =>
    /\ <<>> \in {job[r].plan, job[s].plan} \/ job[r].plan = job[s].plan
    /\ \A k \in DOMAIN job[r].steps \intersect DOMAIN job[s].steps :
         job[r].steps[k] = job[s].steps[k]

\* The charges are rounded one by one and summed up: a run is charged, to a whole
\* number of micro-dollars, what the price list says, give or take half of one per
\* successful step; retries and failures are free.
ChargedByThePriceList ==
  \A r \in Tasks :
    /\ job[r].total % 100 = 0
    /\ job[r].exact - 50 * Len(job[r].steps) <= job[r].total
    /\ job[r].total <= job[r].exact + 50 * Len(job[r].steps)
=============================================================================
