----------------------------- MODULE CreateRun -----------------------------
(***************************************************************************)
(* Concurrent POST /runs requests: RunService.create_run and its           *)
(* idempotency key, over a table with a unique index and a database with   *)
(* one writer at a time.                                                   *)
(*                                                                         *)
(* A request is named by itself, and the run it would create has the same  *)
(* name (run ids are fresh).  SQLite takes the write lock with the INSERT  *)
(* and gives it back with the COMMIT.  When the index refuses the INSERT,  *)
(* Session.flush rolls back before the handler sees the error, so a        *)
(* refused INSERT never keeps the lock.                                    *)
(***************************************************************************)
EXTENDS Naturals

CONSTANTS
  Requests,    \* the requests
  Agents,      \* the agent names
  Keys,        \* the Idempotency-Key headers that are not empty
  NoKey,       \* no such header (NULL in the table)
  EmptyKey,    \* the header is there and empty
  Inputs,      \* the `input` of a body
  Extras,      \* its `metadata` and `seed`
  Nobody,      \* no request
  MaxRestarts  \* bound on restarts

ASSUME KeysAssumption     == NoKey \notin Keys /\ EmptyKey \notin Keys /\ NoKey # EmptyKey
ASSUME NobodyAssumption   == Nobody \notin Requests
ASSUME RestartsAssumption == MaxRestarts \in Nat

VARIABLES
  req,       \* the request: agent, key, input and extra
  rows,      \* the committed rows of the runs table, under the unique index
  tasks,     \* the runs whose task this process has created
  writer,    \* the request that holds the write lock
  pc,        \* where a request is
  answer,    \* its response
  restarts   \* restarts so far

vars == <<req, rows, tasks, writer, pc, answer, restarts>>

Body == [agent: Agents, key: Keys \union {NoKey, EmptyKey}, input: Inputs, extra: Extras]

Pc == {"idle", "insert", "commit", "schedule", "recheck", "done", "dropped"}

Answer == [kind: {"none", "error", "raised"}]
            \union [kind: {"created", "replayed", "conflict"}, run: Requests]

\* The two requests would have the same entry in the unique index on agent and
\* idempotency_key; NULL equals nothing there.
SameIdentity(p, q) ==
  /\ req[p].key = req[q].key
  /\ req[p].key # NoKey
  /\ req[p].agent = req[q].agent

\* Variant: the agent is left out of the lookup.
ExistingForAnyAgent(q) == { e \in rows : req[e].key = req[q].key /\ req[q].key # NoKey }

\* get_run_by_idempotency_key.
Existing(q) == { e \in rows : SameIdentity(e, q) }

\* Variants: no unique index; one on the key alone.
NeverRefused(q) == FALSE

RefusedForAnyAgent(q) == \E e \in rows : req[e].key = req[q].key /\ req[q].key # NoKey

\* The unique index refuses the row of q.
Refused(q) == \E e \in rows : SameIdentity(e, q)

\* Variant: whatever the key was used for is returned.
ReplayAlways(q, e) == [kind |-> "replayed", run |-> e]

\* _replay_or_conflict: only the inputs are compared.
ReplayOrConflict(q, e) ==
  [kind |-> IF req[e].input = req[q].input THEN "replayed" ELSE "conflict", run |-> e]
-----------------------------------------------------------------------------
Init ==
  /\ req \in [Requests -> Body]
  /\ rows = {}
  /\ tasks = {}
  /\ writer = Nobody
  /\ pc = [q \in Requests |-> "idle"]
  /\ answer = [q \in Requests |-> [kind |-> "none"]]
  /\ restarts = 0

At(q, here, there) == pc[q] = here /\ pc' = [pc EXCEPT ![q] = there]

\* The response is sent.
Respond(q, here, a) == At(q, here, "done") /\ answer' = [answer EXCEPT ![q] = a]

\* A key that is not empty is looked up first.
FindExisting(q) ==
  /\ req[q].key \in Keys
  /\ \E e \in Existing(q) : Respond(q, "idle", ReplayOrConflict(q, e))
  /\ UNCHANGED <<req, rows, tasks, writer, restarts>>

FindNone(q) ==
  /\ At(q, "idle", "insert")
  /\ req[q].key \in Keys => Existing(q) = {}
  /\ UNCHANGED <<req, rows, tasks, writer, answer, restarts>>

\* Variant: the task is created before the commit.
InsertAndSchedule(q) ==
  /\ At(q, "insert", "commit")
  /\ ~Refused(q)
  /\ writer = Nobody
  /\ writer' = q
  /\ tasks' = tasks \union {q}
  /\ UNCHANGED <<req, rows, answer, restarts>>

\* The INSERT, once nobody else writes: the row is in, and the lock is kept ...
Insert(q) ==
  /\ At(q, "insert", "commit")
  /\ ~Refused(q)
  /\ writer = Nobody
  /\ writer' = q
  /\ UNCHANGED <<req, rows, tasks, answer, restarts>>

\* ... or the index refuses it with an IntegrityError, and the flush rolls back.
InsertRefused(q) ==
  /\ At(q, "insert", "recheck")
  /\ Refused(q)
  /\ writer = Nobody
  /\ UNCHANGED <<req, rows, tasks, writer, answer, restarts>>

\* Some other session has kept the write lock for the whole busy timeout: an
\* OperationalError, which nothing catches, and a 500.
LockTimeout(q) ==
  /\ Respond(q, "insert", [kind |-> "error"])
  /\ UNCHANGED <<req, rows, tasks, writer, restarts>>

Commit(q) ==
  /\ At(q, "commit", "schedule")
  /\ rows' = rows \union {q}
  /\ writer' = Nobody
  /\ UNCHANGED <<req, tasks, answer, restarts>>

\* The rest of the handler is one slice: the task is created and 202 returned.
Schedule(q) ==
  /\ Respond(q, "schedule", [kind |-> "created", run |-> q])
  /\ tasks' = tasks \union {q}
  /\ UNCHANGED <<req, rows, writer, restarts>>

\* The loser of a race resets its session and looks again: it is answered with the
\* winner's row, or re-raises if there is none.
Recheck(q) ==
  /\ \/ \E e \in Existing(q) : Respond(q, "recheck", ReplayOrConflict(q, e))
     \/ /\ Existing(q) = {}
        /\ Respond(q, "recheck", [kind |-> "raised"])
  /\ UNCHANGED <<req, rows, tasks, writer, restarts>>

Handle(q) ==
  \/ FindExisting(q) \/ FindNone(q) \/ Insert(q) \/ InsertRefused(q) \/ LockTimeout(q)
  \/ Commit(q) \/ Schedule(q) \/ Recheck(q)

\* The process restarts: requests in flight, the open transaction and the tasks
\* are gone, a run that was committed and not scheduled among them.
Restart ==
  /\ restarts < MaxRestarts
  /\ pc' = [q \in Requests |-> IF pc[q] \in {"idle", "done"} THEN pc[q] ELSE "dropped"]
  /\ writer' = Nobody
  /\ tasks' = {}
  /\ restarts' = restarts + 1
  /\ UNCHANGED <<req, rows, answer>>

Quiescent == (\A q \in Requests : pc[q] \in {"done", "dropped"}) /\ UNCHANGED vars

Next == (\E q \in Requests : Handle(q)) \/ Restart \/ Quiescent

Spec == Init /\ [][Next]_vars
-----------------------------------------------------------------------------
(***************************************************************************)
(* Properties.                                                             *)
(***************************************************************************)
\* Every variable has its type; an answer names a request's run, or none.
TypeOK ==
  /\ req \in [Requests -> Body]
  /\ rows \subseteq Requests
  /\ tasks \subseteq Requests
  /\ writer \in Requests \union {Nobody}
  /\ pc \in [Requests -> Pc]
  /\ answer \in [Requests -> Answer]
  /\ restarts \in 0..MaxRestarts

\* Requests that race with the same key and agent create one run between them,
\* although each has looked before any of them committed.
OneRunPerKey ==
  \A p, q \in rows : SameIdentity(p, q) => p = q

\* Retries are safe: whoever asks with the same key and agent is told about the
\* same run, whether it created it, replayed it or was refused, also across a
\* restart that lost the first answer.
RetriesAgree ==
  \A p, q \in Requests :
    SameIdentity(p, q) /\ {answer[p].kind, answer[q].kind}
                            \subseteq {"created", "replayed", "conflict"}
      => answer[p].run = answer[q].run

\* The loser of a race finds the winner's row: the fallback never re-raises.
LoserFindsWinner == \A q \in Requests : answer[q].kind # "raised"

\* A task is never created before its row is committed (it would find none), and
\* without a restart every committed run has its task, or its request is about to
\* create it; a replay creates none.
RowsAndTasksMatch ==
  /\ tasks \subseteq rows
  /\ restarts = 0 => \A q \in rows : q \in tasks \/ pc[q] = "schedule"

\* The abstract specification, over the committed rows.
Idempotent == INSTANCE IdempotentCreate WITH runs <- rows

\* Whatever the interleaving of lookups, inserts, refusals and commits, callers see
\* a run created atomically, the same body is never refused and another input is
\* never taken for the same request (what holds of a body that differs in the rest
\* only is ReplaysSameBody).
ImplementsIdempotentCreate == Idempotent!Spec

\* "409 if the same key is reused with a different body" (README.md:148; 187-188 says
\* the same): whoever is told that its request is a replay sent the body that created
\* the run.  _replay_or_conflict compares `input`
\* only (run_service.py:111), so another seed or metadata is replayed too.
ReplaysSameBody ==
  \A q \in Requests :
    answer[q].kind = "replayed"
      => LET e == answer[q].run
         IN  req[e].input = req[q].input /\ req[e].extra = req[q].extra

\* What a request at each await may rely on, although others moved on meanwhile.
RaceInv ==
  \A q \in Requests :
    /\ pc[q] \in {"idle", "insert", "commit", "recheck"} => q \notin rows
    /\ pc[q] = "commit" => ~Refused(q)
    /\ pc[q] = "recheck" => Refused(q)
    /\ pc[q] = "schedule" => q \in rows
    /\ pc[q] # "done" => answer[q].kind = "none"

\* An answer names a committed run of the same identity.
AnswersInv ==
  \A q \in Requests :
    /\ answer[q].kind = "created" => answer[q].run = q /\ q \in rows
    /\ answer[q].kind \in {"replayed", "conflict"}
         => answer[q].run \in rows /\ SameIdentity(answer[q].run, q)

\* The write lock is held from the INSERT to the COMMIT.
LockInv == \A q \in Requests : pc[q] = "commit" <=> writer = q

\* The inductive invariant of create_run: types, the lock, the stages of a request
\* and the answers already given determine who may still write which row.
IInv ==
  TypeOK /\ OneRunPerKey /\ LockInv /\ LoserFindsWinner /\ RaceInv
  /\ AnswersInv /\ RowsAndTasksMatch
=============================================================================
