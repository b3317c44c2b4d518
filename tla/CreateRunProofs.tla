-------------------------- MODULE CreateRunProofs --------------------------
(***************************************************************************)
(* Proofs about CreateRun, for any number of requests, agents, keys and    *)
(* restarts: one run per key, the loser of a race finds the winner, and    *)
(* the handlers implement the idempotent create.                           *)
(***************************************************************************)
EXTENDS CreateRun, TLAPS

\* A step of the system is a step of a handler, a restart, or changes nothing.
LEMMA StepCases ==
  ASSUME [Next]_vars
  PROVE  \/ \E q \in Requests :
              \/ FindExisting(q) \/ FindNone(q) \/ Insert(q) \/ InsertRefused(q)
              \/ LockTimeout(q) \/ Commit(q) \/ Schedule(q) \/ Recheck(q)
         \/ Restart
         \/ UNCHANGED vars
BY DEF Next, Handle, Quiescent

\* A replay or a conflict is an answer about a run.
LEMMA ReplyTyped ==
  ASSUME NEW q \in Requests, NEW e \in Requests
  PROVE  /\ ReplayOrConflict(q, e) \in Answer
         /\ ReplayOrConflict(q, e).kind \in {"replayed", "conflict"}
         /\ ReplayOrConflict(q, e).run = e
BY DEF ReplayOrConflict, Answer

\* Identity of keys is symmetric and transitive.
LEMMA IdentityIsShared ==
  ASSUME NEW p, NEW q, NEW e, SameIdentity(p, q), SameIdentity(q, e)
  PROVE  SameIdentity(q, p) /\ SameIdentity(p, e)
BY DEF SameIdentity

\* Initially nobody has looked and nothing is there.
LEMMA InitIInv == Init => IInv
BY NobodyAssumption, RestartsAssumption
DEF Init, IInv, TypeOK, OneRunPerKey, LockInv, LoserFindsWinner, RaceInv,
    AnswersInv, RowsAndTasksMatch, Pc, Answer

\* Every handler step and a restart keep the race in order.
LEMMA StepIInv ==
  ASSUME IInv, [Next]_vars
  PROVE  IInv'
<1> USE NobodyAssumption, RestartsAssumption
    DEF At, Respond, IInv, TypeOK, OneRunPerKey, LockInv, LoserFindsWinner,
        RaceInv, AnswersInv, RowsAndTasksMatch, SameIdentity, Refused, Pc
<1>1. ASSUME NEW q \in Requests, FindExisting(q) PROVE IInv'
  BY <1>1, ReplyTyped DEF FindExisting, Existing
<1>2. ASSUME NEW q \in Requests, FindNone(q) PROVE IInv'
  BY <1>2 DEF FindNone
<1>3. ASSUME NEW q \in Requests, Insert(q) PROVE IInv'
  BY <1>3 DEF Insert
<1>4. ASSUME NEW q \in Requests, LockTimeout(q) PROVE IInv'
  BY <1>4 DEF LockTimeout, Answer
<1>5. ASSUME NEW q \in Requests, Commit(q) PROVE IInv'
  BY <1>5 DEF Commit
<1>6. ASSUME NEW q \in Requests, Schedule(q) PROVE IInv'
  BY <1>6 DEF Schedule, Answer
<1>7. ASSUME NEW q \in Requests, InsertRefused(q) PROVE IInv'
  BY <1>7 DEF InsertRefused
<1>8. ASSUME NEW q \in Requests, Recheck(q) PROVE IInv'
  <2>1. pc[q] = "recheck"
    BY <1>8 DEF Recheck
  <2>2. PICK w \in rows : SameIdentity(w, q)
    BY <2>1
  <2>3. Existing(q) # {}
    BY <2>2 DEF Existing
  <2>4. PICK e \in Existing(q) : Respond(q, "recheck", ReplayOrConflict(q, e))
    BY <1>8, <2>3 DEF Recheck
  <2>5. QED
    BY <1>8, <2>4, ReplyTyped DEF Recheck, Existing
<1>9. ASSUME Restart PROVE IInv'
  BY <1>9 DEF Restart
<1>10. ASSUME UNCHANGED vars PROVE IInv'
  BY <1>10 DEF vars
<1>11. QED
  BY StepCases, <1>1, <1>2, <1>3, <1>4, <1>5, <1>6, <1>7, <1>8, <1>9, <1>10

\* The race keeps its order in every behaviour: what the handlers know about the
\* table at each await is what the table still says.
THEOREM Invariance == Spec => []IInv
<1>1. IInv /\ [Next]_vars => IInv'
  BY StepIInv
<1>2. QED
  BY InitIInv, <1>1, PTL DEF Spec

\* However many requests race with one Idempotency-Key of one agent, the table
\* never holds two runs for them (run_service.py:87-100, models.py:47).
THEOREM OneRun == Spec => []OneRunPerKey
<1>1. IInv => OneRunPerKey
  BY DEF IInv
<1>2. QED
  BY Invariance, <1>1, PTL

\* Retries are safe: all answers given to one key and agent, over any interleaving
\* and any number of restarts, are about one run.
THEOREM RetriesSafe == Spec => []RetriesAgree
<1>1. ASSUME IInv PROVE RetriesAgree
  <2>1. SUFFICES ASSUME NEW p \in Requests, NEW q \in Requests, SameIdentity(p, q),
                        answer[p].kind \in {"created", "replayed", "conflict"},
                        answer[q].kind \in {"created", "replayed", "conflict"}
                 PROVE  answer[p].run = answer[q].run
    BY DEF RetriesAgree
  <2>2. \A x \in {p, q} : /\ answer[x].run \in rows
                         /\ SameIdentity(answer[x].run, x)
    BY <1>1, <2>1 DEF IInv, AnswersInv, SameIdentity
  <2>3. SameIdentity(answer[p].run, answer[q].run)
    BY <2>1, <2>2 DEF SameIdentity
  <2>4. QED
    BY <1>1, <2>2, <2>3 DEF IInv, OneRunPerKey
<1>2. QED
  BY Invariance, <1>1, PTL

\* The `raise` after the fallback's lookup (run_service.py:98-99) is never reached:
\* the row that refused the insert is committed and stays.
THEOREM LoserFinds == Spec => []LoserFindsWinner
<1>1. IInv => LoserFindsWinner
  BY DEF IInv
<1>2. QED
  BY Invariance, <1>1, PTL

\* Tasks run for committed rows only, and every committed run gets its task unless
\* the process restarts.
THEOREM RowsAndTasks == Spec => []RowsAndTasksMatch
<1>1. IInv => RowsAndTasksMatch
  BY DEF IInv
<1>2. QED
  BY Invariance, <1>1, PTL

\* A run is created where it is committed.
LEMMA CommitCreates ==
  ASSUME IInv, NEW q \in Requests, Commit(q)
  PROVE  Idempotent!Create(q)
<1>1. ~Refused(q) /\ q \notin rows /\ answer[q].kind = "none"
  BY DEF Commit, At, IInv, RaceInv
<1>2. \A e \in rows : ~Idempotent!SameIdentity(q, e)
  BY <1>1 DEF Refused, SameIdentity, Idempotent!SameIdentity
<1>3. QED
  BY <1>1, <1>2 DEF Commit, Idempotent!Create, Idempotent!Unanswered

\* Answering with the row a lookup found replays another request's run, or refuses it.
LEMMA FoundIsReplayed ==
  ASSUME IInv, NEW q \in Requests, NEW e \in Existing(q), NEW here \in {"idle", "recheck"},
         Respond(q, here, ReplayOrConflict(q, e)), UNCHANGED <<req, rows>>
  PROVE  e \in rows \ {q} /\ (Idempotent!Replay(q, e) \/ Idempotent!Refuse(q, e))
<1>1. q \notin rows /\ answer[q].kind = "none"
  BY DEF Respond, At, IInv, RaceInv
<1>2. e \in rows /\ SameIdentity(e, q)
  BY DEF Existing
<1>3. Idempotent!SameIdentity(q, e)
  BY <1>2 DEF SameIdentity, Idempotent!SameIdentity
<1>4. CASE req[e].input = req[q].input
  <2>1. ReplayOrConflict(q, e) = [kind |-> "replayed", run |-> e]
    BY <1>4 DEF ReplayOrConflict
  <2>2. QED
    BY <1>1, <1>2, <1>3, <1>4, <2>1
    DEF Respond, Idempotent!Replay, Idempotent!SameInput, Idempotent!Unanswered,
        Idempotent!Reply
<1>5. CASE req[e].input # req[q].input
  <2>1. ReplayOrConflict(q, e) = [kind |-> "conflict", run |-> e]
    BY <1>5 DEF ReplayOrConflict
  <2>2. QED
    BY <1>1, <1>2, <1>3, <1>5, <2>1
    DEF Respond, Idempotent!Refuse, Idempotent!SameBody, Idempotent!SameInput,
        Idempotent!Unanswered, Idempotent!Reply
<1>6. QED
  BY <1>4, <1>5

\* Every step of the handlers is a step of the idempotent create, or none.
LEMMA StepImplements ==
  ASSUME IInv, [Next]_vars
  PROVE  [Idempotent!Next]_(Idempotent!createVars)
<1> USE DEF Idempotent!createVars
<1>1. ASSUME NEW q \in Requests, FindExisting(q) PROVE Idempotent!Next
  <2>1. PICK e \in Existing(q) : Respond(q, "idle", ReplayOrConflict(q, e))
    BY <1>1 DEF FindExisting
  <2>2. e \in rows \ {q} /\ (Idempotent!Replay(q, e) \/ Idempotent!Refuse(q, e))
    BY <1>1, <2>1, FoundIsReplayed DEF FindExisting
  <2>3. QED
    BY <2>2 DEF Idempotent!Next
<1>2. ASSUME NEW q \in Requests, FindNone(q) \/ Insert(q) \/ InsertRefused(q)
      PROVE  UNCHANGED Idempotent!createVars
  BY <1>2 DEF FindNone, Insert, InsertRefused
<1>3. ASSUME NEW q \in Requests, LockTimeout(q) PROVE Idempotent!Next
  <2>1. q \notin rows /\ answer[q].kind = "none"
    BY <1>3 DEF LockTimeout, Respond, At, IInv, RaceInv
  <2>2. Idempotent!Fail(q)
    BY <1>3, <2>1 DEF LockTimeout, Respond, Idempotent!Fail, Idempotent!Unanswered,
                      Idempotent!Reply
  <2>3. QED
    BY <2>2 DEF Idempotent!Next
<1>4. ASSUME NEW q \in Requests, Commit(q) PROVE Idempotent!Next
  BY <1>4, CommitCreates DEF Idempotent!Next
<1>5. ASSUME NEW q \in Requests, Schedule(q) PROVE Idempotent!Next
  <2>1. q \in rows /\ answer[q].kind = "none"
    BY <1>5 DEF Schedule, Respond, At, IInv, RaceInv
  <2>2. Idempotent!Confirm(q)
    BY <1>5, <2>1 DEF Schedule, Respond, Idempotent!Confirm, Idempotent!Unanswered,
                      Idempotent!Reply
  <2>3. QED
    BY <2>2 DEF Idempotent!Next
<1>6. ASSUME NEW q \in Requests, Recheck(q) PROVE Idempotent!Next
  <2>1. pc[q] = "recheck"
    BY <1>6 DEF Recheck, Respond, At
  <2>2. PICK w \in rows : SameIdentity(w, q)
    BY <2>1 DEF IInv, RaceInv, Refused
  <2>3. Existing(q) # {}
    BY <2>2 DEF Existing
  <2>4. PICK e \in Existing(q) : Respond(q, "recheck", ReplayOrConflict(q, e))
    BY <1>6, <2>3 DEF Recheck
  <2>5. e \in rows \ {q} /\ (Idempotent!Replay(q, e) \/ Idempotent!Refuse(q, e))
    BY <1>6, <2>4, FoundIsReplayed DEF Recheck
  <2>6. QED
    BY <2>5 DEF Idempotent!Next
<1>7. ASSUME Restart PROVE UNCHANGED Idempotent!createVars
  BY <1>7 DEF Restart
<1>8. ASSUME UNCHANGED vars PROVE UNCHANGED Idempotent!createVars
  BY <1>8 DEF vars
<1>9. QED
  BY StepCases, <1>1, <1>2, <1>3, <1>4, <1>5, <1>6, <1>7, <1>8

\* POST /runs, racing and restarting, implements the idempotent create: callers
\* cannot tell the lookups, the index and the fallback from one atomic step.
THEOREM Refinement == Spec => ImplementsIdempotentCreate
<1>1. Init => Idempotent!Init
  BY DEF Init, Idempotent!Init
<1>2. IInv /\ [Next]_vars => [Idempotent!Next]_(Idempotent!createVars)
  BY StepImplements
<1>3. QED
  BY Invariance, <1>1, <1>2, PTL DEF Spec, Idempotent!Spec, ImplementsIdempotentCreate
=============================================================================
