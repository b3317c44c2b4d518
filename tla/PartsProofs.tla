---------------------------- MODULE PartsProofs ----------------------------
(***************************************************************************)
(* Proofs about three parts that share no state with the others: a seed    *)
(* determines a run and a run is charged by the price list (SeededRuns),   *)
(* answers name their own request (RequestPipeline), and the percentiles   *)
(* of the summary lie where they should (Durations).                       *)
(***************************************************************************)
EXTENDS SeededRuns, RequestPipeline, Durations, RunTypesProofs, FiniteSetTheorems
-----------------------------------------------------------------------------
(***************************************************************************)
(* Seeded runs.  What the generator of a seed yields determines one course *)
(* of jobs; all runs with this seed are on it, each as far as it has       *)
(* drawn.                                                                  *)
(***************************************************************************)
Kind == {ModelCall(m) : m \in DOMAIN MODEL_CATALOG} \union {ToolCall, SubAgent}

StepRow == [spec: Kind, status: {"succeeded", "failed"}, attempt: Nat, charge: Int]

Job == [plan: Seq(Kind), attempt: Nat, steps: Seq(StepRow), total: Int, exact: Int]

\* A charge for n steps is within the rounding.
Near(total, exact, n) ==
  /\ total % 100 = 0
  /\ exact - 50 * n <= total
  /\ total <= exact + 50 * n

Fair(j) == Near(j.total, j.exact, Len(j.steps))

AnyDraw ==
  PlanDraw \union Succeeding(ModelTokens) \union Succeeding(SubTokens) \union Succeeding({NoTokens})
    \union {Failure}

\* What a job asks for, and what it is after drawing d.
Asks(j) == IF j.plan = <<>> THEN PlanDraw ELSE WorkDraw(Current(j))

Continue(j, d) ==
  IF j.plan = <<>> THEN Planned(j, d)
  ELSE IF ~d.fails THEN Succeeded(j, d.tokens)
  ELSE IF j.attempt <= MaxRetries THEN Retried(j)
  ELSE Ended(j, "failed", 0, 0)

\* k is j, or what j may become.
Extends(j, k) ==
  /\ j.plan = <<>> \/ k.plan = j.plan
  /\ Len(j.steps) <= Len(k.steps)
  /\ \A n \in 1..Len(j.steps) : k.steps[n] = j.steps[n]

\* c is the course of the jobs that draw y.
Course(y, c) ==
  /\ c \in [0..Len(y) -> Job]
  /\ \A n \in 0..Len(y) : Fair(c[n])
  /\ \A n \in 1..Len(y) : c[n] = Continue(c[n - 1], y[n]) /\ y[n] \in Asks(c[n - 1])
  /\ \A m, n \in 0..Len(y) : m <= n => Extends(c[m], c[n])

TypeInv ==
  /\ seed \in [Tasks -> Seeds]
  /\ yields \in [Seeds -> Seq(AnyDraw)]
  /\ drawn \in [Tasks -> Nat]
  /\ \A r \in Tasks : drawn[r] <= Len(yields[seed[r]])
  /\ DOMAIN job = Tasks

OnCourse(s, c) == \A r \in Tasks : seed[r] = s => job[r] = c[drawn[r]]

SeededInv ==
  /\ TypeInv
  /\ \A s \in Seeds : \E c : Course(yields[s], c) /\ OnCourse(s, c)
-----------------------------------------------------------------------------
(***************************************************************************)
(* What a draw does to a job.                                              *)
(***************************************************************************)
\* Rounding moves an amount by at most half a micro-dollar, to a whole number of them.
LEMMA RoundedIsNear ==
  ASSUME NEW x \in Int
  PROVE  /\ Rounded(x) \in Int
         /\ Rounded(x) % 100 = 0
         /\ x - 50 <= Rounded(x) /\ Rounded(x) <= x + 50
BY DEF Rounded

LEMMA PriceIsWhole ==
  ASSUME NEW m \in DOMAIN MODEL_CATALOG, NEW t \in Tokens
  PROVE  Price(m, t) \in Int
BY DEF Price, Tokens, MODEL_CATALOG

\* What an attempt may draw.
LEMMA DrawsOfAKind ==
  ASSUME NEW spec \in Kind
  PROVE  \/ WorkDraw(spec) = Succeeding(ModelTokens)
         \/ WorkDraw(spec) = Succeeding({NoTokens}) \union {Failure}
         \/ WorkDraw(spec) = Succeeding(SubTokens) \union {Failure}
<1>1. CASE spec.type = "model_call"
  BY <1>1 DEF WorkDraw
<1>2. CASE spec.type = "tool_call"
  BY <1>2 DEF WorkDraw
<1>3. CASE spec.type = "sub_agent"
  BY <1>3 DEF WorkDraw
<1>4. QED
  BY <1>1, <1>2, <1>3 DEF Kind, ModelCall, ToolCall, SubAgent

\* So a step is charged a whole number of micro-dollars, within half of one.
LEMMA ChargeIsNear ==
  ASSUME NEW spec \in Kind, NEW t \in Tokens
  PROVE  /\ Charge(spec, t) \in Int /\ Cost(spec, t) \in Int
         /\ Charge(spec, t) % 100 = 0
         /\ Cost(spec, t) - 50 <= Charge(spec, t)
         /\ Charge(spec, t) <= Cost(spec, t) + 50
<1>1. CASE spec \in {ModelCall(m) : m \in DOMAIN MODEL_CATALOG}
  <2>1. PICK m \in DOMAIN MODEL_CATALOG : spec = ModelCall(m)
    BY <1>1
  <2>2. Price(m, t) \in Int
    BY PriceIsWhole
  <2>3. Charge(spec, t) = Rounded(Price(m, t)) /\ Cost(spec, t) = Price(m, t)
    BY <2>1 DEF Charge, Cost, ModelCall, model_call_cost
  <2>4. QED
    BY <2>2, <2>3, RoundedIsNear
<1>2. CASE spec = ToolCall
  BY <1>2 DEF Charge, Cost, ToolCall, TOOL_CALL_COST
<1>3. CASE spec = SubAgent
  <2>1. "sim-fast" \in DOMAIN MODEL_CATALOG
    BY DEF MODEL_CATALOG
  <2>2. Price("sim-fast", t) \in Int
    BY <2>1, PriceIsWhole
  <2>3. /\ Charge(spec, t) = Rounded(Rounded(Price("sim-fast", t)) + 80000)
        /\ Cost(spec, t) = Price("sim-fast", t) + 80000
    BY <1>3 DEF Charge, Cost, SubAgent, TOOL_CALL_COST, model_call_cost
  <2> DEFINE p == Rounded(Price("sim-fast", t))
  <2>4. /\ p \in Int /\ p % 100 = 0
        /\ Price("sim-fast", t) - 50 <= p /\ p <= Price("sim-fast", t) + 50
    BY <2>2, RoundedIsNear
  <2>5. Rounded(p + 80000) = p + 80000
    BY <2>4 DEF Rounded
  <2> HIDE DEF p
  <2>6. QED
    BY <2>2, <2>3, <2>4, <2>5 DEF p
<1>4. QED
  BY <1>1, <1>2, <1>3 DEF Kind

\* The model calls, tool calls and sub-agents of a plan.
LEMMA PlanIsPlan ==
  ASSUME NEW d \in PlanDraw
  PROVE  PlanFrom(d) \in Seq(Kind) /\ PlanFrom(d) # <<>>
<1>1. /\ ModelCall("sim-fast") \in Kind /\ ModelCall(d.final) \in Kind
      /\ ToolCall \in Kind /\ SubAgent \in Kind
  BY DEF Kind, PlanDraw, MODEL_CATALOG
<1>2. d.tools \in Nat
  BY SeededAssumption DEF PlanDraw
<1> DEFINE front == <<ModelCall("sim-fast")>>
           tools == [i \in 1..d.tools |-> ToolCall]
           sub   == IF d.delegates THEN <<SubAgent>> ELSE <<>>
           last  == <<ModelCall(d.final)>>
<1>3. front \in Seq(Kind) /\ tools \in Seq(Kind) /\ sub \in Seq(Kind) /\ last \in Seq(Kind)
  BY <1>1, <1>2
<1>4. PlanFrom(d) = front \o tools \o sub \o last
  BY DEF PlanFrom
<1>5. Len(last) = 1
  OBVIOUS
<1> HIDE DEF front, tools, sub, last
<1>6. QED
  BY <1>3, <1>4, <1>5

LEMMA NearAddsUp ==
  ASSUME NEW total \in Int, NEW exact \in Int, NEW n \in Nat, Near(total, exact, n),
         NEW charge \in Int, NEW cost \in Int,
         charge % 100 = 0, cost - 50 <= charge, charge <= cost + 50
  PROVE  Near(total + charge, exact + cost, n + 1)
<1>1. (total + charge) % 100 = 0
  BY DEF Near
<1>2. /\ exact + cost - 50 * (n + 1) <= total + charge
      /\ total + charge <= exact + cost + 50 * (n + 1)
  BY DEF Near
<1>3. QED
  BY <1>1, <1>2 DEF Near

\* The end of a step.
LEMMA EndedIsFair ==
  ASSUME NEW j \in Job, Fair(j), Len(j.steps) < Len(j.plan),
         NEW status \in {"succeeded", "failed"},
         NEW charge \in Int, NEW cost \in Int,
         charge % 100 = 0, cost - 50 <= charge, charge <= cost + 50
  PROVE  /\ Ended(j, status, charge, cost) \in Job
         /\ Fair(Ended(j, status, charge, cost))
         /\ Extends(j, Ended(j, status, charge, cost))
<1> DEFINE row == [spec |-> Current(j), status |-> status, attempt |-> j.attempt,
                   charge |-> charge]
           k == Ended(j, status, charge, cost)
<1>1. Current(j) \in Kind
  BY DEF Current, Job
<1>2. row \in StepRow
  BY <1>1 DEF StepRow, Job
<1>3. k = [plan |-> j.plan, attempt |-> 1, steps |-> Append(j.steps, row),
           total |-> j.total + charge, exact |-> j.exact + cost]
  BY DEF Ended, JobOf
<1>4. j.steps \in Seq(StepRow) /\ j.plan \in Seq(Kind) /\ j.total \in Int /\ j.exact \in Int
  BY DEF Job
<1> HIDE DEF row, k
<1>5. /\ Append(j.steps, row) \in Seq(StepRow)
      /\ Len(Append(j.steps, row)) = Len(j.steps) + 1
      /\ \A n \in 1..Len(j.steps) : Append(j.steps, row)[n] = j.steps[n]
  BY <1>2, <1>4
<1>6. k \in Job
  <2>1. j.total + charge \in Int /\ j.exact + cost \in Int
    BY <1>4
  <2>2. QED
    BY <1>3, <1>4, <1>5, <2>1 DEF Job
<1>7. Fair(k)
  <2>1. /\ k.total = j.total + charge /\ k.exact = j.exact + cost
        /\ Len(k.steps) = Len(j.steps) + 1 /\ Len(j.steps) \in Nat
    BY <1>3, <1>4, <1>5
  <2>2. Near(j.total + charge, j.exact + cost, Len(j.steps) + 1)
    BY <1>4, <2>1, NearAddsUp DEF Fair
  <2>3. QED
    BY <2>1, <2>2 DEF Fair
<1>8. Extends(j, k)
  BY <1>3, <1>4, <1>5 DEF Extends
<1>9. QED
  BY <1>6, <1>7, <1>8 DEF k

\* Whether a job may still draw.
Ready(j) == j.plan = <<>> \/ Len(j.steps) < Len(j.plan)

LEMMA ContinueIsFair ==
  ASSUME NEW j \in Job, Fair(j), Ready(j), NEW d \in Asks(j)
  PROVE  Continue(j, d) \in Job /\ Fair(Continue(j, d)) /\ Extends(j, Continue(j, d))
<1>1. CASE j.plan = <<>>
  <2>1. PlanFrom(d) \in Seq(Kind)
    BY <1>1, PlanIsPlan DEF Asks
  <2>2. QED
    BY <1>1, <2>1 DEF Continue, Planned, JobOf, Job, Fair, Extends
<1>2. CASE j.plan # <<>>
  <2> USE <1>2
  <2>1. Current(j) \in Kind
    BY DEF Current, Job, Ready
  <2>2. d \in WorkDraw(Current(j))
    BY DEF Asks
  <2>3. d = Failure \/ (d.fails = FALSE /\ d.tokens \in Tokens)
    <3>1. \/ d \in Succeeding(ModelTokens) \/ d \in Succeeding({NoTokens})
          \/ d \in Succeeding(SubTokens) \/ d = Failure
      <4>1. CASE WorkDraw(Current(j)) = Succeeding(ModelTokens)
        BY ONLY <2>2, <4>1
      <4>2. CASE WorkDraw(Current(j)) = Succeeding({NoTokens}) \union {Failure}
        BY ONLY <2>2, <4>2
      <4>3. CASE WorkDraw(Current(j)) = Succeeding(SubTokens) \union {Failure}
        BY ONLY <2>2, <4>3
      <4>4. QED
        BY ONLY <2>1, <4>1, <4>2, <4>3, DrawsOfAKind
    <3>2. NoTokens \in Tokens /\ ModelTokens \subseteq Tokens /\ SubTokens \subseteq Tokens
      BY SeededAssumption DEF NoTokens, Tokens
    <3>3. ASSUME NEW options \in SUBSET Tokens, d \in Succeeding(options)
          PROVE  d.fails = FALSE /\ d.tokens \in Tokens
      BY <3>3 DEF Succeeding
    <3>4. CASE d \in Succeeding(ModelTokens)
      BY <3>2, <3>3, <3>4
    <3>5. CASE d \in Succeeding(SubTokens)
      BY <3>2, <3>3, <3>5
    <3>6. CASE d \in Succeeding({NoTokens})
      BY <3>2, <3>3, <3>6
    <3>7. QED
      BY <3>1, <3>4, <3>5, <3>6
  <2>4. CASE d.fails = FALSE /\ d.tokens \in Tokens
    <3>1. Continue(j, d) = Ended(j, "succeeded", Charge(Current(j), d.tokens),
                                 Cost(Current(j), d.tokens))
      BY <2>4 DEF Continue, Succeeded
    <3>2. QED
      BY <2>1, <2>4, <3>1, ChargeIsNear, EndedIsFair DEF Ready
  <2>5. CASE d = Failure /\ j.attempt <= MaxRetries
    <3>1. Continue(j, d) = Retried(j)
      BY <2>5 DEF Continue, Failure
    <3>2. QED
      BY <3>1 DEF Retried, JobOf, Job, Fair, Extends
  <2>6. CASE d = Failure /\ ~(j.attempt <= MaxRetries)
    <3>1. Continue(j, d) = Ended(j, "failed", 0, 0)
      BY <2>6 DEF Continue, Failure
    <3>2. Len(j.steps) < Len(j.plan)
      BY DEF Ready
    <3>3. 0 \in Int /\ 0 % 100 = 0 /\ 0 - 50 <= 0 /\ 0 <= 0 + 50
      OBVIOUS
    <3>4. QED
      BY ONLY <3>1, <3>2, <3>3, j \in Job, Fair(j), EndedIsFair
  <2>7. QED
    BY <2>3, <2>4, <2>5, <2>6
<1>3. QED
  BY <1>1, <1>2
-----------------------------------------------------------------------------
(***************************************************************************)
(* All runs with a seed stay on one course.                                *)
(***************************************************************************)
LEMMA ExtendsIsTransitive ==
  ASSUME NEW i \in Job, NEW j \in Job, NEW k \in Job, Extends(i, j), Extends(j, k)
  PROVE  Extends(i, k)
<1>1. /\ Len(i.steps) \in Nat /\ Len(j.steps) \in Nat /\ Len(k.steps) \in Nat
  BY DEF Job
<1>2. j.plan = <<>> => i.plan = <<>>
  BY DEF Extends
<1>3. ASSUME NEW n \in 1..Len(i.steps)
      PROVE  k.steps[n] = i.steps[n]
  BY <1>1 DEF Extends
<1>4. QED
  BY <1>1, <1>2, <1>3 DEF Extends

LEMMA AsksIsAnyDraw ==
  ASSUME NEW j \in Job, Ready(j)
  PROVE  Asks(j) \subseteq AnyDraw
<1>1. CASE j.plan = <<>>
  BY <1>1 DEF Asks, AnyDraw
<1>2. CASE j.plan # <<>>
  <2>1. Current(j) \in Kind
    BY <1>2 DEF Current, Job, Ready
  <2>2. WorkDraw(Current(j)) \subseteq AnyDraw
    BY <2>1, DrawsOfAKind DEF AnyDraw
  <2>3. QED
    BY <1>2, <2>2 DEF Asks
<1>3. QED
  BY <1>1, <1>2

\* A course goes on with whatever is drawn at its end.
LEMMA CourseGoesOn ==
  ASSUME NEW y \in Seq(AnyDraw), NEW c, Course(y, c), Ready(c[Len(y)]),
         NEW d \in Asks(c[Len(y)])
  PROVE  Course(Append(y, d),
                [n \in 0..(Len(y) + 1) |-> IF n <= Len(y) THEN c[n] ELSE Continue(c[Len(y)], d)])
<1> DEFINE L == Len(y)
           z == Append(y, d)
           k == Continue(c[L], d)
           e == [n \in 0..(L + 1) |-> IF n <= L THEN c[n] ELSE k]
<1>1. L \in Nat /\ Len(z) = L + 1 /\ z[L + 1] = d /\ \A n \in 1..L : z[n] = y[n]
  OBVIOUS
<1>2. /\ \A n \in 0..L : c[n] \in Job /\ Fair(c[n])
      /\ \A n \in 1..L : c[n] = Continue(c[n - 1], y[n]) /\ y[n] \in Asks(c[n - 1])
      /\ \A m, n \in 0..L : m <= n => Extends(c[m], c[n])
  BY DEF Course
<1>3. k \in Job /\ Fair(k) /\ Extends(c[L], k)
  BY <1>1, <1>2, ContinueIsFair
<1>4. (\A n \in 0..L : e[n] = c[n]) /\ e[L + 1] = k
  BY <1>1
<1> HIDE DEF L, z, k, e
<1>5. ASSUME NEW n \in 0..(L + 1)
      PROVE  e[n] \in Job /\ Fair(e[n])
  BY <1>1, <1>2, <1>3, <1>4
<1>6. e \in [0..(L + 1) -> Job]
  BY <1>5 DEF e
<1>7. ASSUME NEW n \in 1..(L + 1)
      PROVE  e[n] = Continue(e[n - 1], z[n]) /\ z[n] \in Asks(e[n - 1])
  <2>1. CASE n = L + 1
    <3>1. n - 1 = L /\ L \in 0..L
      BY <1>1, <2>1
    <3>2. e[n - 1] = c[L]
      BY <1>4, <3>1
    <3>3. d \in Asks(c[L])
      BY DEF L
    <3>4. QED
      BY <1>1, <1>4, <2>1, <3>2, <3>3 DEF k
  <2>2. CASE n \in 1..L
    <3>1. n - 1 \in 0..L /\ n \in 0..L
      BY <1>1, <2>2
    <3>2. QED
      BY <1>1, <1>2, <1>4, <2>2, <3>1
  <2>3. QED
    BY <1>1, <2>1, <2>2
<1>8. ASSUME NEW m \in 0..(L + 1), NEW n \in 0..(L + 1), m <= n
      PROVE  Extends(e[m], e[n])
  <2>1. CASE n \in 0..L
    BY <1>1, <1>2, <1>4, <1>8, <2>1
  <2>2. CASE n = L + 1 /\ m \in 0..L
    <3>1. Extends(c[m], c[L]) /\ c[m] \in Job /\ c[L] \in Job
      BY <1>1, <1>2, <2>2
    <3>2. Extends(c[m], k)
      BY <1>3, <3>1, ExtendsIsTransitive
    <3>3. QED
      BY <1>4, <2>2, <3>2
  <2>3. CASE n = L + 1 /\ m = L + 1
    BY <1>4, <2>3, <1>3 DEF Extends
  <2>4. QED
    BY <1>1, <1>8, <2>1, <2>2, <2>3
<1>9. Course(z, e)
  BY <1>1, <1>5, <1>6, <1>7, <1>8 DEF Course
<1>10. QED
  BY <1>9 DEF e, z, k, L

\* Whatever a run draws, it stays on the course of its seed, as do the others.
LEMMA DrawStaysOnCourse ==
  ASSUME SeededInv, NEW r \in Tasks, Ready(job[r]),
         NEW d \in Upcoming(r, Asks(job[r])), Draw(r, d),
         job' = [job EXCEPT ![r] = Continue(job[r], d)]
  PROVE  SeededInv'
<1>0. PICK s, y : s = seed[r] /\ y = yields[s]
  OBVIOUS
<1>1. TypeInv /\ s \in Seeds /\ y \in Seq(AnyDraw) /\ drawn[r] \in Nat /\ drawn[r] <= Len(y)
  BY <1>0 DEF SeededInv, TypeInv
<1>2. PICK c : Course(y, c) /\ OnCourse(s, c)
  BY <1>0, <1>1 DEF SeededInv
<1>3. job[r] = c[drawn[r]]
  BY <1>0, <1>2 DEF OnCourse
<1>4. /\ seed' = seed
      /\ drawn' = [drawn EXCEPT ![r] = @ + 1]
      /\ drawn'[r] = drawn[r] + 1
      /\ \A q \in Tasks : q # r => drawn'[q] = drawn[q] /\ job'[q] = job[q]
      /\ job'[r] = Continue(job[r], d) /\ DOMAIN job' = Tasks
  BY DEF Draw, SeededInv, TypeInv
<1>5. CASE drawn[r] < Len(y)
  <2>1. yields' = yields /\ d = y[drawn[r] + 1]
    BY <1>0, <1>5 DEF Draw, Upcoming
  <2>2. drawn[r] + 1 \in 1..Len(y)
    BY <1>1, <1>5
  <2>3. job'[r] = c[drawn[r] + 1]
    BY <1>1, <1>2, <1>3, <1>4, <2>1, <2>2 DEF Course
  <2>4. TypeInv'
    BY <1>0, <1>1, <1>4, <1>5, <2>1 DEF TypeInv
  <2>5. OnCourse(s, c)'
    BY <1>0, <1>2, <1>4, <2>3 DEF OnCourse
  <2>6. ASSUME NEW q \in Seeds
        PROVE  \E f : Course(yields[q], f)' /\ OnCourse(q, f)'
    <3>1. CASE q = s
      BY <1>0, <1>2, <2>1, <2>5, <3>1
    <3>2. CASE q # s
      <4>1. PICK f : Course(yields[q], f) /\ OnCourse(q, f)
        BY DEF SeededInv
      <4>2. OnCourse(q, f)'
        BY <1>0, <1>4, <3>2, <4>1 DEF OnCourse
      <4>3. QED
        BY <2>1, <4>1, <4>2
    <3>3. QED
      BY <3>1, <3>2
  <2>7. QED
    BY <2>4, <2>6 DEF SeededInv
<1>6. CASE drawn[r] = Len(y)
  <2>0. PICK k, e : /\ k = Continue(c[Len(y)], d)
                    /\ e = [n \in 0..(Len(y) + 1) |-> IF n <= Len(y) THEN c[n] ELSE k]
    OBVIOUS
  <2>1. d \in Asks(job[r]) /\ yields' = [yields EXCEPT ![s] = Append(y, d)]
    BY <1>0, <1>6 DEF Draw, Upcoming
  <2>2. job[r] = c[Len(y)] /\ job[r] \in Job
    BY <1>1, <1>2, <1>3, <1>6 DEF Course
  <2>3. Course(Append(y, d), e)
    BY <1>1, <1>2, <2>0, <2>1, <2>2, CourseGoesOn
  <2>4. d \in AnyDraw
    BY <2>1, <2>2, AsksIsAnyDraw
  <2>5. /\ yields' \in [Seeds -> Seq(AnyDraw)]
        /\ yields'[s] = Append(y, d)
        /\ \A q \in Seeds : q # s => yields'[q] = yields[q]
    BY <1>1, <2>1, <2>4 DEF TypeInv
  <2>6. Len(Append(y, d)) = Len(y) + 1
    BY <1>1
  <2>7. TypeInv'
    <3>1. drawn' \in [Tasks -> Nat] /\ seed' \in [Tasks -> Seeds]
      BY <1>1, <1>4 DEF TypeInv
    <3>2. ASSUME NEW q \in Tasks
          PROVE  drawn'[q] <= Len(yields'[seed[q]])
      <4>1. drawn[q] <= Len(yields[seed[q]]) /\ drawn[q] \in Nat /\ seed[q] \in Seeds
        BY <1>1 DEF TypeInv
      <4>2. CASE q = r
        BY <1>0, <1>1, <1>4, <1>6, <2>5, <2>6, <4>2
      <4>3. CASE q # r /\ seed[q] = s
        BY <1>0, <1>1, <1>4, <2>5, <2>6, <4>1, <4>3
      <4>4. CASE seed[q] # s /\ q # r
        BY <1>0, <1>4, <2>5, <4>1, <4>4
      <4>5. QED
        BY <1>0, <4>2, <4>3, <4>4
    <3>3. QED
      BY <1>4, <2>5, <3>1, <3>2 DEF TypeInv
  <2>8. (\A n \in 0..Len(y) : e[n] = c[n]) /\ e[Len(y) + 1] = k
    BY <1>1, <2>0
  <2>9. OnCourse(s, e)'
    <3>1. job'[r] = e[drawn'[r]]
      BY <1>4, <1>6, <2>0, <2>2, <2>8
    <3>2. ASSUME NEW q \in Tasks, q # r, seed[q] = s
          PROVE  job'[q] = e[drawn'[q]]
      <4>1. drawn[q] \in 0..Len(y) /\ job[q] = c[drawn[q]]
        BY <1>0, <1>1, <1>2, <3>2 DEF TypeInv, OnCourse
      <4>2. QED
        BY <1>4, <2>8, <3>2, <4>1
    <3>3. QED
      BY <1>4, <3>1, <3>2 DEF OnCourse
  <2>10. ASSUME NEW q \in Seeds
         PROVE  \E f : Course(yields[q], f)' /\ OnCourse(q, f)'
    <3>1. CASE q = s
      BY <2>3, <2>5, <2>9, <3>1
    <3>2. CASE q # s
      <4>1. PICK f : Course(yields[q], f) /\ OnCourse(q, f)
        BY DEF SeededInv
      <4>2. OnCourse(q, f)'
        BY <1>0, <1>4, <3>2, <4>1 DEF OnCourse
      <4>3. QED
        BY <2>5, <3>2, <4>1, <4>2
    <3>3. QED
      BY <3>1, <3>2
  <2>11. QED
    BY <2>7, <2>10 DEF SeededInv
<1>7. QED
  BY <1>1, <1>5, <1>6

LEMMA SeededStep ==
  ASSUME SeededInv, [SeededNext]_seededVars
  PROVE  SeededInv'
<1>1. ASSUME NEW r \in Tasks, PlanSteps(r)
      PROVE  SeededInv'
  <2>1. Asks(job[r]) = PlanDraw /\ Ready(job[r])
    BY <1>1 DEF PlanSteps, Asks, Ready
  <2>2. PICK d \in Upcoming(r, PlanDraw) :
          Draw(r, d) /\ job' = [job EXCEPT ![r] = Planned(job[r], d)]
    BY <1>1 DEF PlanSteps
  <2>3. Planned(job[r], d) = Continue(job[r], d)
    BY <1>1 DEF PlanSteps, Continue
  <2>4. QED
    BY <2>1, <2>2, <2>3, DrawStaysOnCourse
<1>2. ASSUME NEW r \in Tasks, Working(r)
      PROVE  /\ Asks(job[r]) = WorkDraw(Current(job[r])) /\ Ready(job[r])
             /\ job[r].plan # <<>> /\ job[r] \in Job
  <2>1. job[r] \in Job
    <3>1. seed[r] \in Seeds /\ drawn[r] \in 0..Len(yields[seed[r]])
      BY DEF SeededInv, TypeInv
    <3>2. PICK c : Course(yields[seed[r]], c) /\ OnCourse(seed[r], c)
      BY <3>1 DEF SeededInv
    <3>3. QED
      BY <3>1, <3>2 DEF Course, OnCourse
  <2>2. Len(job[r].steps) \in Nat /\ Len(job[r].steps) < Len(job[r].plan)
    BY <1>2, <2>1 DEF Working, Job
  <2>3. job[r].plan # <<>>
    BY <2>2
  <2>4. QED
    BY <2>1, <2>2, <2>3 DEF Asks, Ready
<1>3. ASSUME NEW r \in Tasks, StepSucceeds(r)
      PROVE  SeededInv'
  <2>1. Working(r)
    BY <1>3 DEF StepSucceeds
  <2>2. PICK d \in Upcoming(r, WorkDraw(Current(job[r]))) :
          /\ ~d.fails /\ Draw(r, d)
          /\ job' = [job EXCEPT ![r] = Succeeded(job[r], d.tokens)]
    BY <1>3 DEF StepSucceeds
  <2>3. Succeeded(job[r], d.tokens) = Continue(job[r], d)
    BY <1>2, <2>1, <2>2 DEF Continue
  <2>4. QED
    BY <1>2, <2>1, <2>2, <2>3, DrawStaysOnCourse
<1>4. ASSUME NEW r \in Tasks, StepFails(r)
      PROVE  SeededInv'
  <2>1. /\ Working(r) /\ Failure \in Upcoming(r, WorkDraw(Current(job[r]))) /\ Draw(r, Failure)
    BY <1>4 DEF StepFails
  <2>2. job' = [job EXCEPT ![r] = Continue(job[r], Failure)]
    <3>1. Failure.fails = TRUE
      BY DEF Failure
    <3>2. Continue(job[r], Failure) = IF job[r].attempt <= MaxRetries THEN Retried(job[r])
                                      ELSE Ended(job[r], "failed", 0, 0)
      BY <1>2, <2>1, <3>1 DEF Continue
    <3>3. job[r].attempt \in Nat /\ MaxRetries \in Nat
      BY <1>2, <2>1, SeededAssumption DEF Job
    <3>4. job[r].attempt > MaxRetries => ~(job[r].attempt <= MaxRetries)
      BY <3>3
    <3>5. QED
      BY <1>4, <3>2, <3>4 DEF StepFails
  <2>3. QED
    BY <1>2, <2>1, <2>2, DrawStaysOnCourse
<1>5. ASSUME seed' = seed, yields' = yields, drawn' = drawn, job' = job
      PROVE  SeededInv'
  BY <1>5 DEF SeededInv, TypeInv, OnCourse
<1>6. ASSUME NEW r \in Tasks, Stop(r)
      PROVE  SeededInv'
  BY <1>5, <1>6 DEF Stop
<1>7. ASSUME UNCHANGED seededVars
      PROVE  SeededInv'
  BY <1>5, <1>7 DEF seededVars
<1>8. QED
  BY <1>1, <1>3, <1>4, <1>6, <1>7 DEF SeededNext, AllOver

\* The inductive invariant: the runs with one seed are on one course.
THEOREM SeededInvariance == SeededSpec => []SeededInv
<1>1. ASSUME SeededInit
      PROVE  SeededInv
  <2>1. TypeInv
    BY <1>1 DEF SeededInit, TypeInv
  <2> DEFINE c == [n \in 0..0 |-> NewJob]
  <2>2. NewJob \in Job /\ Fair(NewJob) /\ Extends(NewJob, NewJob)
    BY DEF NewJob, JobOf, Job, Fair, Near, Extends
  <2>3. ASSUME NEW s \in Seeds
        PROVE  Course(yields[s], c) /\ OnCourse(s, c)
    BY <1>1, <2>2 DEF SeededInit, Course, OnCourse
  <2>4. QED
    BY <2>1, <2>3 DEF SeededInv
<1>2. SeededInv /\ [SeededNext]_seededVars => SeededInv'
  BY SeededStep
<1>3. QED
  BY <1>1, <1>2, PTL DEF SeededSpec

\* A seed determines the run (runner.py:248, run.py:36-40): replaying it reproduces the
\* run, whatever else the process does.
THEOREM SeedDeterminesRun == SeededSpec => []SameSeedSameRun
<1>1. ASSUME SeededInv, NEW r \in Tasks, NEW s \in Tasks, seed[r] = seed[s],
             drawn[r] <= drawn[s]
      PROVE  Extends(job[r], job[s]) /\ job[r] \in Job /\ job[s] \in Job
  <2>1. seed[r] \in Seeds /\ drawn[r] \in Nat /\ drawn[s] \in Nat
        /\ drawn[r] <= Len(yields[seed[r]]) /\ drawn[s] <= Len(yields[seed[r]])
    BY <1>1 DEF SeededInv, TypeInv
  <2>2. PICK c : Course(yields[seed[r]], c) /\ OnCourse(seed[r], c)
    BY <1>1, <2>1 DEF SeededInv
  <2>3. job[r] = c[drawn[r]] /\ job[s] = c[drawn[s]]
    BY <1>1, <2>2 DEF OnCourse
  <2>4. drawn[r] \in 0..Len(yields[seed[r]]) /\ drawn[s] \in 0..Len(yields[seed[r]])
    BY <1>1, <2>1
  <2>5. QED
    BY <1>1, <2>2, <2>3, <2>4 DEF Course
<1>2. ASSUME NEW i \in Job, NEW j \in Job, Extends(i, j)
      PROVE  /\ <<>> \in {i.plan, j.plan} \/ i.plan = j.plan
             /\ \A k \in DOMAIN i.steps \intersect DOMAIN j.steps : i.steps[k] = j.steps[k]
  BY <1>2 DEF Job, Extends
<1>3. SeededInv => SameSeedSameRun
  <2> SUFFICES ASSUME SeededInv, NEW r \in Tasks, NEW s \in Tasks, seed[r] = seed[s]
               PROVE  /\ <<>> \in {job[r].plan, job[s].plan} \/ job[r].plan = job[s].plan
                      /\ \A k \in DOMAIN job[r].steps \intersect DOMAIN job[s].steps :
                           job[r].steps[k] = job[s].steps[k]
    BY DEF SameSeedSameRun
  <2>1. drawn[r] <= drawn[s] \/ drawn[s] <= drawn[r]
    BY DEF SeededInv, TypeInv
  <2>2. CASE drawn[r] <= drawn[s]
    BY <1>1, <1>2, <2>2
  <2>3. CASE drawn[s] <= drawn[r]
    <3>1. Extends(job[s], job[r]) /\ job[s] \in Job /\ job[r] \in Job
      BY <1>1, <2>3
    <3>2. QED
      BY <1>2, <3>1
  <2>4. QED
    BY <2>1, <2>2, <2>3
<1>4. QED
  BY <1>3, SeededInvariance, PTL

\* Rounded step by step, a run is charged by the price list, give or take half a
\* micro-dollar per step (cost.py:36-39, runner.py:280-283).
THEOREM ChargesAreFair == SeededSpec => []ChargedByThePriceList
<1>1. ASSUME SeededInv, NEW r \in Tasks
      PROVE  Fair(job[r])
  <2>1. seed[r] \in Seeds /\ drawn[r] \in 0..Len(yields[seed[r]])
    BY <1>1 DEF SeededInv, TypeInv
  <2>2. PICK c : Course(yields[seed[r]], c) /\ OnCourse(seed[r], c)
    BY <1>1, <2>1 DEF SeededInv
  <2>3. QED
    BY <2>1, <2>2 DEF Course, OnCourse
<1>2. SeededInv => ChargedByThePriceList
  BY <1>1 DEF ChargedByThePriceList, Fair, Near
<1>3. QED
  BY <1>2, SeededInvariance, PTL
-----------------------------------------------------------------------------
(***************************************************************************)
(* The way of a request.                                                   *)
(***************************************************************************)
Media == {"application/json", "text/event-stream", "application/problem+json"}

\* An answer of request r before it has its header: it is no 500, and a problem names
\* the request.
Draft(r, a) ==
  /\ a \in [status: Nat, media: Media, code: {None} \union {"run_not_found",
            "invalid_run_state", "idempotency_key_conflict"},
            request_id: {None, NameOf(r)}, x_request_id: {None}]
  /\ a.status # 500
  /\ a.media = "application/problem+json" => a.request_id = NameOf(r)

\* An answer that names its own request.
OwnAnswer(r, a) ==
  /\ a.request_id \in {None, NameOf(r)}
  /\ a.x_request_id \in {None, NameOf(r)}
  /\ a.media = "application/problem+json" => a.request_id # None
  /\ a.status # 500 => a.x_request_id # None

\* From the moment a request is named, its id is its own, and so is its answer.
PipelineInv ==
  /\ pc \in [Requests -> {"new", "routed", "leaving", "raised", "streaming", "done", "cut"}]
  /\ sent \in [Requests -> ClientIds \union {None}]
  /\ DOMAIN id = Requests /\ DOMAIN answer = Requests
  /\ \A r \in Requests :
       /\ pc[r] # "new" => id[r] = NameOf(r)
       /\ pc[r] = "leaving" => Draft(r, answer[r])
       /\ pc[r] \in Begun => OwnAnswer(r, answer[r])

LEMMA NameGiven ==
  ASSUME PipelineInv, NEW r \in Requests
  PROVE  NameOf(r) # None
BY PipelineAssumption DEF PipelineInv, NameOf

\* What the routes and the handlers make is a draft.
LEMMA Drafted ==
  ASSUME PipelineInv, NEW r \in Requests, pc[r] = "routed",
         \/ \E media \in {"application/json", "text/event-stream"} :
              Answers(r, Response(200, media, None, None))
         \/ \E status \in FrameworkError :
              Answers(r, Response(status, "application/json", None, None))
         \/ \E e \in ApiError : Answers(r, Problem(r, e[1], e[2]))
  PROVE  Draft(r, answer'[r])
<1>1. id[r] = NameOf(r)
  BY DEF PipelineInv
<1>2. CASE \E media \in {"application/json", "text/event-stream"} :
             Answers(r, Response(200, media, None, None))
  BY <1>2 DEF PipelineInv, Answers, Response, Draft, Media
<1>3. CASE \E status \in FrameworkError :
             Answers(r, Response(status, "application/json", None, None))
  BY <1>3 DEF PipelineInv, Answers, Response, Draft, Media, FrameworkError
<1>4. CASE \E e \in ApiError : Answers(r, Problem(r, e[1], e[2]))
  BY <1>1, <1>4 DEF PipelineInv, Answers, Problem, Response, Draft, Media, ApiError
<1>5. QED
  BY <1>2, <1>3, <1>4

\* The header is added, or nobody adds it.
LEMMA Owned ==
  ASSUME PipelineInv, NEW r \in Requests, Leave(r) \/ AnswerUnhandled(r)
  PROVE  OwnAnswer(r, answer'[r])
<1>1. NameOf(r) # None
  BY NameGiven
<1>2. CASE Leave(r)
  <2>1. Draft(r, answer[r]) /\ id[r] = NameOf(r)
    BY <1>2 DEF PipelineInv, Leave, Goes
  <2>2. answer'[r] = [answer[r] EXCEPT !.x_request_id = id[r]]
    BY <1>2 DEF PipelineInv, Leave
  <2>3. QED
    BY <1>1, <2>1, <2>2 DEF Draft, OwnAnswer
<1>3. CASE AnswerUnhandled(r)
  <2>1. answer'[r] = Problem(r, 500, "internal_error") /\ id[r] = NameOf(r)
    BY <1>3 DEF PipelineInv, AnswerUnhandled, Goes, Answers
  <2>2. QED
    BY <1>1, <2>1 DEF Problem, Response, OwnAnswer
<1>4. QED
  BY <1>2, <1>3

LEMMA PipelineStep ==
  ASSUME PipelineInv, [PipelineNext]_pipelineVars
  PROVE  PipelineInv'
<1> USE DEF Goes, Begun
<1>0. \A q \in Requests : NameOf(q)' = NameOf(q) \/ sent' # sent
  BY DEF NameOf
<1>1. ASSUME NEW r \in Requests, Receive(r) PROVE PipelineInv'
  BY <1>1 DEF Receive, Named, PipelineInv, NameOf, Draft, OwnAnswer
<1>2. ASSUME NEW r \in Requests, Serve(r) \/ Reject(r) \/ Refuse(r) PROVE PipelineInv'
  <2>1. Draft(r, answer'[r])
    BY <1>2, Drafted DEF Serve, Reject, Refuse
  <2>2. /\ pc[r] = "routed" /\ pc' = [pc EXCEPT ![r] = "leaving"]
        /\ UNCHANGED <<sent, id>> /\ DOMAIN answer' = Requests
        /\ \A q \in Requests \ {r} : answer'[q] = answer[q]
    BY <1>2 DEF Serve, Reject, Refuse, Answers, PipelineInv
  <2>3. Draft(r, answer[r])'
    BY <2>1, <2>2 DEF Draft, NameOf
  <2>4. QED
    BY <2>2, <2>3 DEF PipelineInv, NameOf, Draft, OwnAnswer
<1>3. ASSUME NEW r \in Requests, Leave(r) \/ AnswerUnhandled(r) PROVE PipelineInv'
  <2>1. OwnAnswer(r, answer'[r])
    BY <1>3, Owned
  <2>2. /\ pc[r] \in {"leaving", "raised"} /\ UNCHANGED <<sent, id>>
        /\ DOMAIN answer' = Requests
        /\ \A q \in Requests \ {r} : answer'[q] = answer[q]
        /\ \E there \in {"streaming", "done"} : pc' = [pc EXCEPT ![r] = there]
    BY <1>3 DEF Leave, AnswerUnhandled, Answers, PipelineInv
  <2>3. OwnAnswer(r, answer[r])'
    BY <2>1, <2>2 DEF OwnAnswer, NameOf
  <2>4. QED
    BY <2>2, <2>3 DEF PipelineInv, NameOf, Draft, OwnAnswer
<1>4. ASSUME NEW r \in Requests, Raise(r) \/ StreamEnds(r) \/ StreamBreaks(r)
      PROVE  PipelineInv'
  BY <1>4 DEF Raise, StreamEnds, StreamBreaks, PipelineInv, NameOf, Draft, OwnAnswer
<1>5. CASE AllAnswered \/ UNCHANGED pipelineVars
  BY <1>5 DEF AllAnswered, pipelineVars, PipelineInv, NameOf, Draft, OwnAnswer
<1>6. QED
  BY <1>1, <1>2, <1>3, <1>4, <1>5 DEF PipelineNext

\* However requests interleave, an answer names its own request, in its body and in its
\* header (main.py:43, core/errors.py).
THEOREM AnswersNamed == PipelineSpec => []AnswersNameTheirRequest
<1>1. PipelineInit => PipelineInv
  BY DEF PipelineInit, PipelineInv, Begun
<1>2. PipelineInv => AnswersNameTheirRequest
  BY DEF PipelineInv, AnswersNameTheirRequest, OwnAnswer
<1>3. QED
  BY <1>1, <1>2, PipelineStep, PTL DEF PipelineSpec
-----------------------------------------------------------------------------
(***************************************************************************)
(* The durations of the summary.                                           *)
(***************************************************************************)
\* What sorted() promises.
Sorted(s) == \A i, j \in 1..Len(s) : i <= j => s[i] <= s[j]

DurationsInv == durations \in Seq(Int) /\ Sorted(durations)

\* What InsertAt returns.
LEMMA Inserted ==
  ASSUME NEW s \in Seq(Int), NEW t \in Int, NEW k \in 0..Len(s)
  PROVE  \E u : /\ u = InsertAt(s, k + 1, t)
                /\ u \in Seq(Int) /\ Len(u) = Len(s) + 1
                /\ u[k + 1] = t /\ \A i \in 1..k : u[i] = s[i]
                /\ \A i \in (k + 2)..(Len(s) + 1) : u[i] = s[i - 1]
<1>1. PICK u : u = InsertAt(s, k + 1, t)
  OBVIOUS
<1> DEFINE n == Len(s)
           front == SubSeq(s, 1, k)
           back == SubSeq(s, k + 1, n)
<1>2. n \in Nat /\ k \in Nat /\ (k + 1) - 1 = k
  BY LenProperties
<1>3. /\ front \in Seq(Int) /\ Len(front) = k
      /\ \A i \in 1..k : front[i] = s[i]
  BY <1>2
<1>4. /\ back \in Seq(Int) /\ Len(back) = n - k
      /\ \A i \in 1..(n - k) : back[i] = s[k + i]
  BY <1>2
<1> HIDE DEF front, back
<1> DEFINE head == front \o <<t>>
<1>5. /\ head \in Seq(Int) /\ Len(head) = k + 1
      /\ \A i \in 1..(k + 1) : head[i] = IF i <= k THEN s[i] ELSE t
  BY <1>2, <1>3
<1> HIDE DEF head
<1>6. u = head \o back
  BY <1>1, <1>2 DEF InsertAt, head, front, back
<1>7. /\ u \in Seq(Int) /\ Len(u) = n + 1
      /\ \A i \in 1..(n + 1) : u[i] = IF i <= k + 1 THEN head[i] ELSE back[i - (k + 1)]
  <2>1. Len(head) + Len(back) = n + 1
    BY <1>2, <1>4, <1>5
  <2>2. /\ head \o back \in Seq(Int)
        /\ Len(head \o back) = Len(head) + Len(back)
        /\ \A i \in 1..(Len(head) + Len(back)) :
             (head \o back)[i] = IF i <= Len(head) THEN head[i] ELSE back[i - Len(head)]
    BY <1>4, <1>5, ConcatProperties
  <2>3. /\ u \in Seq(Int) /\ Len(u) = Len(head) + Len(back)
        /\ \A i \in 1..(Len(head) + Len(back)) :
             u[i] = IF i <= Len(head) THEN head[i] ELSE back[i - Len(head)]
    BY <1>6, <2>2
  <2>4. Len(head) = k + 1
    BY <1>5
  <2>5. QED
    BY <2>1, <2>3, <2>4
<1> HIDE DEF n
<1>8. ASSUME NEW i \in 1..(n + 1)
      PROVE  u[i] = IF i <= k THEN s[i] ELSE IF i = k + 1 THEN t ELSE s[i - 1]
  <2>1. CASE i <= k + 1
    BY <1>2, <1>5, <1>7, <2>1
  <2>2. CASE i > k + 1
    <3>1. i - (k + 1) \in 1..(n - k) /\ k + (i - (k + 1)) = i - 1
      BY <1>2, <2>2
    <3>2. back[i - (k + 1)] = s[i - 1]
      BY <1>4, <3>1
    <3>3. u[i] = back[i - (k + 1)]
      BY <1>2, <1>7, <2>2
    <3>4. ~ (i <= k) /\ i # k + 1
      BY <1>2, <2>2
    <3>5. QED
      BY <3>2, <3>3, <3>4
  <2>3. QED
    BY <1>2, <2>1, <2>2
<1>9. /\ u \in Seq(Int) /\ Len(u) = Len(s) + 1
      /\ u[k + 1] = t /\ \A i \in 1..k : u[i] = s[i]
      /\ \A i \in (k + 2)..(Len(s) + 1) : u[i] = s[i - 1]
  BY <1>7, <1>8 DEF n
<1>10. QED
  BY <1>1, <1>9, Zenon

\* The durations that do not exceed another are the first of them.
LEMMA NotOverAreFirst ==
  ASSUME NEW s \in Seq(Int), Sorted(s), NEW t \in Int
  PROVE  LET S == { i \in 1..Len(s) : s[i] <= t } IN
         /\ Cardinality(S) \in 0..Len(s)
         /\ S = 1..Cardinality(S)
<1> DEFINE n == Len(s)
           S == { i \in 1..n : s[i] <= t }
           Beyond == { i \in Nat : i > 0 /\ i \notin S }
<1>1. n \in Nat /\ \A i \in 1..n : s[i] \in Int
  BY LenProperties, ElementOfSeq
<1>2. n + 1 \in Beyond
  BY <1>1
<1>3. PICK m \in Beyond : \A i \in Beyond : m <= i
  BY <1>2, LeastNumber
<1>4. m \in 1..(n + 1)
  BY <1>1, <1>2, <1>3
<1>5. S = 1..(m - 1)
  <2>1. ASSUME NEW i \in 1..(m - 1) PROVE i \in S
    BY <1>3, <1>4, <2>1
  <2>2. ASSUME NEW i \in S PROVE i < m
    <3>1. SUFFICES ASSUME m <= i PROVE FALSE
      BY <1>1, <1>4
    <3>2. m \in 1..n /\ s[m] <= s[i]
      BY <1>1, <1>4, <3>1 DEF Sorted
    <3>3. s[m] <= t
      BY <1>1, <3>2
    <3>4. QED
      BY <1>3, <3>2, <3>3
  <2>3. QED
    BY <1>1, <1>4, <2>1, <2>2
<1>6. Cardinality(1..(m - 1)) = m - 1
  BY <1>4, FS_Interval
<1> HIDE DEF S
<1>7. Cardinality(S) = m - 1
  BY <1>5, <1>6
<1>8. Cardinality(S) \in 0..n /\ S = 1..Cardinality(S)
  BY <1>1, <1>4, <1>5, <1>7
<1>9. QED
  BY <1>8 DEF S

\* Inserted after all that do not exceed it, a value leaves a sorted sequence sorted.
LEMMA InsertedInOrder ==
  ASSUME NEW s \in Seq(Int), Sorted(s), NEW t \in Int, NEW k \in 0..Len(s),
         \A i \in 1..Len(s) : IF i <= k THEN s[i] <= t ELSE t < s[i]
  PROVE  InsertAt(s, k + 1, t) \in Seq(Int) /\ Sorted(InsertAt(s, k + 1, t))
<1>1. PICK n : n = Len(s)
  OBVIOUS
<1>2. \A i \in 1..n : IF i <= k THEN s[i] <= t ELSE t < s[i]
  BY <1>1
<1>3. n \in Nat /\ k \in Nat /\ k <= n /\ \A i \in 1..n : s[i] \in Int
  BY <1>1, LenProperties, ElementOfSeq
<1>4. PICK u :
        /\ u = InsertAt(s, k + 1, t)
        /\ u \in Seq(Int) /\ Len(u) = n + 1
        /\ u[k + 1] = t /\ \A i \in 1..k : u[i] = s[i]
        /\ \A i \in (k + 2)..(n + 1) : u[i] = s[i - 1]
  <2>1. PICK u :
          /\ u = InsertAt(s, k + 1, t)
          /\ u \in Seq(Int) /\ Len(u) = Len(s) + 1
          /\ u[k + 1] = t /\ \A i \in 1..k : u[i] = s[i]
          /\ \A i \in (k + 2)..(Len(s) + 1) : u[i] = s[i - 1]
    BY Inserted, Zenon
  <2>2. /\ Len(u) = n + 1
        /\ \A i \in (k + 2)..(n + 1) : u[i] = s[i - 1]
    BY <1>1, <2>1
  <2>3. QED
    BY <2>1, <2>2, Zenon
<1>5. ASSUME NEW i \in 1..(n + 1), NEW j \in 1..(n + 1), i <= j PROVE u[i] <= u[j]
  <2>1. \A x, y \in 1..n : x <= y => s[x] <= s[y]
    BY <1>1 DEF Sorted
  <2>2. CASE j <= k
    BY <1>3, <1>4, <1>5, <2>1, <2>2
  <2>3. CASE j = k + 1
    <3>1. u[j] = t /\ ~ (j <= k)
      BY <1>3, <1>4, <2>3
    <3>2. CASE i = k + 1
      BY <2>3, <3>1, <3>2
    <3>3. CASE i <= k
      <4>1. i \in 1..n /\ i <= n + 1 /\ u[i] = s[i]
        BY <1>3, <1>4, <1>5, <3>3
      <4>2. QED
        BY <1>2, <3>1, <3>3, <4>1
    <3>4. QED
      BY <1>3, <1>5, <2>3, <3>2, <3>3
  <2>4. CASE j > k + 1 /\ i > k + 1
    <3>1. i - 1 \in 1..n /\ j - 1 \in 1..n /\ i - 1 <= j - 1
      BY <1>3, <1>5, <2>4
    <3>2. u[i] = s[i - 1] /\ u[j] = s[j - 1]
      BY <1>3, <1>4, <2>4
    <3>3. QED
      BY <2>1, <3>1, <3>2
  <2>5. CASE j > k + 1 /\ i <= k + 1
    <3>1. j - 1 \in 1..n /\ u[j] = s[j - 1] /\ t < s[j - 1] /\ s[j - 1] \in Int
      BY <1>2, <1>3, <1>4, <2>5
    <3>2. u[i] <= t /\ u[i] \in Int
      <4>1. CASE i = k + 1
        <5>1. u[i] = t
          BY <1>3, <1>4, <1>5, <4>1
        <5>2. QED
          BY <5>1
      <4>2. CASE i <= k
        <5>1. i \in 1..n /\ u[i] = s[i]
          BY <1>3, <1>4, <1>5, <4>2
        <5>2. QED
          BY <1>2, <1>3, <4>2, <5>1
      <4>3. QED
        BY <1>3, <2>5, <4>1, <4>2
    <3>3. QED
      BY <3>1, <3>2
  <2>6. QED
    BY <1>3, <2>2, <2>3, <2>4, <2>5
<1>6. QED
  BY <1>4, <1>5 DEF Sorted

\* One more duration goes to its place.
LEMMA DurationsStep ==
  ASSUME DurationsInv, [DurationsNext]_durations
  PROVE  DurationsInv'
<1>1. CASE NextWindow
  BY <1>1 DEF NextWindow, DurationsInv, Sorted
<1>2. ASSUME NEW t \in Lengths, RunEnds(t) PROVE DurationsInv'
  <2>1. PICK s, k : s = durations /\ k = Cardinality({ i \in 1..Len(s) : s[i] <= t })
    OBVIOUS
  <2>2. t \in Int /\ s \in Seq(Int) /\ Sorted(s) /\ durations' = InsertAt(s, k + 1, t)
    BY <1>2, <2>1, DurationsAssumption DEF RunEnds, SortedWith, DurationsInv
  <2>3. k \in 0..Len(s) /\ { i \in 1..Len(s) : s[i] <= t } = 1..k
    BY <2>1, <2>2, NotOverAreFirst
  <2>4. \A i \in 1..Len(s) : IF i <= k THEN s[i] <= t ELSE t < s[i]
    BY <2>2, <2>3, LenProperties, ElementOfSeq
  <2>5. QED
    BY <2>2, <2>3, <2>4, InsertedInOrder DEF DurationsInv
<1>3. CASE UNCHANGED durations
  BY <1>3 DEF DurationsInv, Sorted
<1>4. QED
  BY <1>1, <1>2, <1>3 DEF DurationsNext

\* The durations of the summary are sorted, whatever comes to it and in which order.
THEOREM DurationsInvariance == DurationsSpec => []DurationsInv
<1>1. DurationsInit => DurationsInv
  BY DEF DurationsInit, DurationsInv, Sorted
<1>2. QED
  BY <1>1, DurationsStep, PTL DEF DurationsSpec

\* Between two values: m hundredths of the way.
LEMMA Between ==
  ASSUME NEW a \in Int, NEW b \in Int, a <= b, NEW m \in 0..99
  PROVE  /\ 100 * a + (b - a) * m \in Int
         /\ 100 * a <= 100 * a + (b - a) * m
         /\ 100 * a + (b - a) * m <= 100 * b
         /\ m = 0 => 100 * a + (b - a) * m = 100 * a
<1> DEFINE d == b - a
<1>1. d \in Nat /\ m \in Nat /\ 99 - m \in Nat /\ b = a + d
  OBVIOUS
<1> HIDE DEF d
<1>2. d * m \in Nat /\ d * (99 - m) \in Nat /\ d * (99 - m) = 99 * d - d * m
  BY <1>1
<1>3. m = 0 => d * m = 0
  BY <1>1
<1>4. QED
  BY <1>1, <1>2, <1>3 DEF d

\* And further on the way is not less.
LEMMA Further ==
  ASSUME NEW a \in Int, NEW b \in Int, a <= b, NEW m \in 0..99, NEW k \in 0..99, m <= k
  PROVE  100 * a + (b - a) * m <= 100 * a + (b - a) * k
<1> DEFINE d == b - a
<1>1. d \in Nat /\ m \in Nat /\ k \in Nat /\ k - m \in Nat
  OBVIOUS
<1> HIDE DEF d
<1>2. d * (k - m) \in Nat /\ d * (k - m) = d * k - d * m /\ d * k \in Int /\ d * m \in Int
  BY <1>1
<1>3. QED
  BY <1>1, <1>2 DEF d

\* The rank of a percentile: which pair it lies between, and how far from the first.
LEMMA RankIs ==
  ASSUME NEW n \in Nat \ {0}, NEW pct \in 0..99
  PROVE  LET k == (n - 1) * pct
             f == k \div 100
         IN  /\ k \in Nat /\ f \in 0..(n - 1) /\ k % 100 \in 0..99
             /\ k = 100 * f + (k % 100)
             /\ f = n - 1 => k % 100 = 0
<1> DEFINE x == n - 1
           k == x * pct
           f == k \div 100
<1>1. x \in Nat /\ pct \in Nat /\ 100 - pct \in Nat
  OBVIOUS
<1> HIDE DEF x
<1>2. k \in Nat /\ x * (100 - pct) \in Nat /\ x * (100 - pct) = 100 * x - k
  BY <1>1
<1> HIDE DEF k
<1>3. f \in Nat /\ k % 100 \in 0..99 /\ k = 100 * f + (k % 100)
  BY <1>2
<1>4. QED
  BY <1>1, <1>2, <1>3 DEF x, k

\* The percentile p of rank k lies m hundredths of the way from value f to the next,
\* which is at b.
Lies(s, n, k, f, m, b, p) ==
  /\ f \in 0..(n - 1) /\ m \in 0..99 /\ b \in 1..n /\ p \in Int
  /\ k = 100 * f + m
  /\ b = IF f + 1 < n THEN f + 2 ELSE n
  /\ f = n - 1 => m = 0
  /\ s[f + 1] \in Int /\ s[b] \in Int /\ s[f + 1] <= s[b]
  /\ p = 100 * s[f + 1] + (s[b] - s[f + 1]) * m
  /\ 100 * s[f + 1] <= p /\ p <= 100 * s[b]
  /\ m = 0 => p = 100 * s[f + 1]

\* A percentile of a sorted sequence lies between two of its values.
LEMMA PercentileIs ==
  ASSUME NEW s \in Seq(Int), Sorted(s), NEW n \in Nat \ {0}, n = Len(s), NEW pct \in 0..99
  PROVE  \E f, m, b, p : p = Percentile(s, pct) /\ Lies(s, n, (n - 1) * pct, f, m, b, p)
<1>1. PICK k, f, m : k = (n - 1) * pct /\ f = k \div 100 /\ m = k % 100
  OBVIOUS
<1>2. /\ k \in Nat /\ f \in 0..(n - 1) /\ m \in 0..99
      /\ k = 100 * f + m
      /\ f = n - 1 => m = 0
  BY <1>1, RankIs
<1>3. PICK b \in 1..n : b = IF f + 1 < n THEN f + 2 ELSE n
  BY <1>2
<1>4. At(s, f) = s[f + 1] /\ At(s, f + 1) = s[b]
  BY <1>2, <1>3 DEF At
<1>5. f + 1 \in 1..n /\ f + 1 <= b
  BY <1>2, <1>3
<1>6. s[f + 1] \in Int /\ s[b] \in Int /\ s[f + 1] <= s[b]
  BY <1>5, LenProperties, ElementOfSeq DEF Sorted
<1>7. PICK p : p = 100 * s[f + 1] + (s[b] - s[f + 1]) * m
  OBVIOUS
<1>8. p = Percentile(s, pct)
  BY <1>1, <1>4, <1>7 DEF Percentile, Rank
<1>9. /\ p \in Int /\ 100 * s[f + 1] <= p /\ p <= 100 * s[b]
      /\ m = 0 => p = 100 * s[f + 1]
  BY <1>2, <1>6, <1>7, Between
<1>10. Lies(s, n, k, f, m, b, p)
  BY <1>2, <1>3, <1>6, <1>7, <1>9 DEF Lies
<1>11. QED
  BY <1>1, <1>8, <1>10

\* The durations and the two percentiles of them.
LEMMA Shown ==
  ASSUME DurationsInv, durations # <<>>
  PROVE  \E s \in Seq(Int), n \in Nat \ {0} : s = durations /\ n = Len(s) /\ Sorted(s)
<1>1. durations \in Seq(Int) /\ Sorted(durations)
  BY DEF DurationsInv
<1>2. Len(durations) \in Nat /\ Len(durations) # 0
  BY <1>1, EmptySeq, LenProperties
<1>3. QED
  BY <1>1, <1>2

LEMMA OrderStep == DurationsInv => PercentilesAreOrdered
<1>1. SUFFICES ASSUME DurationsInv, durations # <<>>
               PROVE  /\ 100 * durations[1] <= Percentile(durations, 50)
                      /\ Percentile(durations, 50) <= Percentile(durations, 95)
                      /\ Percentile(durations, 95) <= 100 * durations[Len(durations)]
  BY DEF PercentilesAreOrdered
<1>2. PICK s \in Seq(Int), n \in Nat \ {0} : s = durations /\ n = Len(s) /\ Sorted(s)
  BY <1>1, Shown
<1>3. \A i, j \in 1..n : s[i] \in Int /\ (i <= j => s[i] <= s[j])
  BY <1>2, LenProperties, ElementOfSeq DEF Sorted
<1>4. PICK f, m, b, p :
        p = Percentile(s, 50) /\ Lies(s, n, (n - 1) * 50, f, m, b, p)
  <2>1. 50 \in 0..99
    OBVIOUS
  <2>2. QED
    BY <1>2, <2>1, PercentileIs
<1>5. PICK g, l, c, q :
        q = Percentile(s, 95) /\ Lies(s, n, (n - 1) * 95, g, l, c, q)
  <2>1. 95 \in 0..99
    OBVIOUS
  <2>2. QED
    BY <1>2, <2>1, PercentileIs
<1>6. /\ f \in 0..(n - 1) /\ m \in 0..99 /\ b \in 1..n
      /\ (n - 1) * 50 = 100 * f + m
      /\ b = IF f + 1 < n THEN f + 2 ELSE n
  BY <1>4 DEF Lies
<1>7. /\ g \in 0..(n - 1) /\ l \in 0..99 /\ c \in 1..n
      /\ (n - 1) * 95 = 100 * g + l
      /\ c = IF g + 1 < n THEN g + 2 ELSE n
  BY <1>5 DEF Lies
<1>8. /\ p \in Int /\ s[f + 1] \in Int /\ s[b] \in Int
      /\ 100 * s[f + 1] <= p /\ p <= 100 * s[b]
  BY <1>4 DEF Lies
<1>9. /\ q \in Int /\ s[g + 1] \in Int /\ s[c] \in Int
      /\ 100 * s[g + 1] <= q /\ q <= 100 * s[c]
  BY <1>5 DEF Lies
<1>10. 100 * s[1] <= p
  <2>1. s[1] <= s[f + 1] /\ s[1] \in Int
    BY <1>3, <1>6
  <2>2. QED
    BY <1>8, <2>1
<1>11. q <= 100 * s[n]
  <2>1. s[c] <= s[n] /\ s[n] \in Int
    BY <1>3, <1>7
  <2>2. QED
    BY <1>9, <2>1
<1>12. p <= q
  <2>1. CASE f < g
    <3>1. b \in 1..n /\ g + 1 \in 1..n /\ b <= g + 1
      BY <1>6, <1>7, <2>1
    <3>2. s[b] <= s[g + 1]
      BY <1>3, <3>1
    <3>3. QED
      BY <1>8, <1>9, <3>2
  <2>2. CASE f = g
    <3>1. m <= l /\ b = c
      BY <1>6, <1>7, <2>2
    <3>2. p = 100 * s[f + 1] + (s[b] - s[f + 1]) * m
      BY <1>4 DEF Lies
    <3>3. q = 100 * s[g + 1] + (s[c] - s[g + 1]) * l
      BY <1>5 DEF Lies
    <3>4. s[f + 1] \in Int /\ s[b] \in Int /\ s[f + 1] <= s[b]
      BY <1>4 DEF Lies
    <3>5. 100 * s[f + 1] + (s[b] - s[f + 1]) * m <= 100 * s[f + 1] + (s[b] - s[f + 1]) * l
      BY <1>6, <1>7, <3>1, <3>4, Further
    <3>6. QED
      BY <2>2, <3>1, <3>2, <3>3, <3>5
  <2>3. f <= g
    BY <1>6, <1>7
  <2>4. QED
    BY <1>6, <1>7, <2>1, <2>2, <2>3
<1>13. QED
  BY <1>2, <1>4, <1>5, <1>10, <1>11, <1>12

\* So many values lie beyond a position, and so many before it.
LEMMA AtMost ==
  ASSUME NEW a \in Int, NEW b \in Int, NEW k \in Nat, b - a + 1 <= k,
         NEW S, S \subseteq a..b
  PROVE  Cardinality(S) \in Nat /\ Cardinality(S) <= k
<1>1. IsFiniteSet(a..b) /\ Cardinality(a..b) = IF a > b THEN 0 ELSE b - a + 1
  BY FS_Interval
<1>2. IsFiniteSet(S) /\ Cardinality(S) <= Cardinality(a..b)
  BY <1>1, FS_Subset
<1>3. Cardinality(S) \in Nat /\ Cardinality(a..b) \in Nat
  BY <1>1, <1>2, FS_CardinalityType
<1>4. Cardinality(a..b) <= k
  BY <1>1
<1>5. QED
  BY <1>2, <1>3, <1>4

LEMMA TailStep == DurationsInv => P95ShowsTheTail
<1>1. CASE durations = <<>>
  BY <1>1 DEF P95ShowsTheTail
<1>2. ASSUME DurationsInv, durations # <<>> PROVE P95ShowsTheTail
  <2>1. PICK s \in Seq(Int), n \in Nat \ {0} : s = durations /\ n = Len(s) /\ Sorted(s)
    BY <1>2, Shown
  <2>2. \A i, j \in 1..n : s[i] \in Int /\ (i <= j => s[i] <= s[j])
    BY <2>1, LenProperties, ElementOfSeq DEF Sorted
  <2>3. PICK g, l, c, q :
        q = Percentile(s, 95) /\ Lies(s, n, (n - 1) * 95, g, l, c, q)
    <3>1. 95 \in 0..99
      OBVIOUS
    <3>2. QED
      BY <2>1, <3>1, PercentileIs
  <2>4. PICK S : S = { i \in 1..n : 100 * s[i] > q }
    OBVIOUS
  <2>5. PICK F : F = { i \in 1..n : 100 * s[i] < q }
    OBVIOUS
  <2>6. /\ g \in 0..(n - 1) /\ l \in 0..99 /\ c \in 1..n
        /\ (n - 1) * 95 = 100 * g + l
        /\ c = IF g + 1 < n THEN g + 2 ELSE n
        /\ g = n - 1 => l = 0
    BY <2>3 DEF Lies
  <2>7. /\ q \in Int /\ s[g + 1] \in Int /\ s[c] \in Int
        /\ 100 * s[g + 1] <= q /\ q <= 100 * s[c]
        /\ l = 0 => q = 100 * s[g + 1]
    BY <2>3 DEF Lies
  <2>8. 100 * Cardinality(S) < (n - 1) * 5 + 100
    <3>1. ASSUME NEW i \in 1..n, 100 * s[i] > q PROVE i \in (g + 2)..n
      <4>1. g + 1 \in 1..n
        BY <2>6
      <4>2. s[i] \in Int /\ (i <= g + 1 => s[i] <= s[g + 1])
        BY <2>2, <4>1
      <4>3. ~ (i <= g + 1)
        BY <2>7, <3>1, <4>2
      <4>4. QED
        BY <2>6, <4>3
    <3>2. S \subseteq (g + 2)..n
      BY <2>4, <3>1
    <3>3. /\ g + 2 \in Int /\ n \in Int
          /\ n - g - 1 \in Nat /\ n - (g + 2) + 1 <= n - g - 1
      BY <2>6
    <3>4. Cardinality(S) \in Nat /\ Cardinality(S) <= n - g - 1
      BY <3>2, <3>3, AtMost, Zenon
    <3>5. QED
      BY <2>6, <3>4
  <2>9. 100 * Cardinality(F) < (n - 1) * 95 + 100
    <3>1. CASE l = 0
      <4>1. ASSUME NEW i \in 1..n, 100 * s[i] < q PROVE i \in 1..g
        <5>1. g + 1 \in 1..n
          BY <2>6
        <5>2. s[i] \in Int /\ (g + 1 <= i => s[g + 1] <= s[i])
          BY <2>2, <5>1
        <5>3. ~ (g + 1 <= i)
          BY <2>7, <3>1, <4>1, <5>2
        <5>4. QED
          BY <2>6, <5>3
      <4>2. F \subseteq 1..g
        BY <2>5, <4>1
      <4>3. 1 \in Int /\ g \in Int /\ g \in Nat /\ g - 1 + 1 <= g
        BY <2>6
      <4>4. Cardinality(F) \in Nat /\ Cardinality(F) <= g
        BY <4>2, <4>3, AtMost, Zenon
      <4>5. QED
        BY <2>6, <3>1, <4>4
    <3>2. CASE l # 0
      <4>1. c = g + 2
        BY <2>6, <3>2
      <4>2. ASSUME NEW i \in 1..n, 100 * s[i] < q PROVE i \in 1..(g + 1)
        <5>1. s[i] \in Int /\ (c <= i => s[c] <= s[i])
          BY <2>2, <2>6
        <5>2. ~ (c <= i)
          BY <2>7, <4>2, <5>1
        <5>3. QED
          BY <2>6, <4>1, <5>2
      <4>3. F \subseteq 1..(g + 1)
        BY <2>5, <4>2
      <4>4. 1 \in Int /\ g + 1 \in Int /\ g + 1 \in Nat /\ (g + 1) - 1 + 1 <= g + 1
        BY <2>6
      <4>5. Cardinality(F) \in Nat /\ Cardinality(F) <= g + 1
        BY <4>3, <4>4, AtMost, Zenon
      <4>6. QED
        BY <2>6, <3>2, <4>5
    <3>3. QED
      BY <3>1, <3>2
  <2>10. QED
    BY <2>1, <2>3, <2>4, <2>5, <2>8, <2>9 DEF P95ShowsTheTail
<1>3. QED
  BY <1>1, <1>2

\* However many runs there are: the p50 is no more than the p95, and both lie within
\* the data.
THEOREM PercentilesOrdered == DurationsSpec => []PercentilesAreOrdered
<1>1. QED
  BY DurationsInvariance, OrderStep, PTL

\* However many runs there are: the p95 leaves one in twenty of the other runs beyond
\* it, and one more.
THEOREM TailShown == DurationsSpec => []P95ShowsTheTail
<1>1. QED
  BY DurationsInvariance, TailStep, PTL
=============================================================================
