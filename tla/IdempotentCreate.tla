------------------------- MODULE IdempotentCreate -------------------------
(***************************************************************************)
(* What POST /runs promises to callers that retry: under an Idempotency-   *)
(* Key an agent gets one run, whoever asks first; the others are told      *)
(* about that run, or that their body is another one.  A body is the       *)
(* `input` and the rest (`metadata`, `seed`); whether the rest counts as   *)
(* another body is left open.                                              *)
(***************************************************************************)
CONSTANTS Requests, NoKey

VARIABLES
  req,      \* what each request asks for
  runs,     \* the runs, each named after the request that created it
  answer    \* what each request was answered

createVars == <<req, runs, answer>>

\* Two requests an Idempotency-Key makes one.
SameIdentity(p, q) ==
  /\ req[p].key = req[q].key
  /\ req[p].key # NoKey
  /\ req[p].agent = req[q].agent

Unanswered(q) == answer[q].kind = "none"

Reply(q, a) == answer' = [answer EXCEPT ![q] = a]

\* A run comes into being, the only one of its identity.
Create(q) ==
  /\ Unanswered(q)
  /\ q \notin runs
  /\ \A e \in runs : ~SameIdentity(q, e)
  /\ runs' = runs \union {q}
  /\ UNCHANGED <<req, answer>>

Confirm(q) ==
  /\ Unanswered(q)
  /\ q \in runs
  /\ Reply(q, [kind |-> "created", run |-> q])
  /\ UNCHANGED <<req, runs>>

SameInput(p, q) == req[p].input = req[q].input

SameBody(p, q) == SameInput(p, q) /\ req[p].extra = req[q].extra

\* The run of the same identity is returned, to a request with its input only ...
Replay(q, e) ==
  /\ Unanswered(q)
  /\ SameIdentity(q, e)
  /\ SameInput(q, e)
  /\ Reply(q, [kind |-> "replayed", run |-> e])
  /\ UNCHANGED <<req, runs>>

\* ... or refused, to a request with another body only.
Refuse(q, e) ==
  /\ Unanswered(q)
  /\ SameIdentity(q, e)
  /\ ~SameBody(q, e)
  /\ Reply(q, [kind |-> "conflict", run |-> e])
  /\ UNCHANGED <<req, runs>>

\* An error tells the caller nothing: nothing was created for it.
Fail(q) ==
  /\ Unanswered(q)
  /\ q \notin runs
  /\ Reply(q, [kind |-> "error"])
  /\ UNCHANGED <<req, runs>>

Next == \E q \in Requests : \/ Create(q) \/ Confirm(q) \/ Fail(q)
                            \/ \E e \in runs \ {q} : Replay(q, e) \/ Refuse(q, e)

Init == runs = {} /\ answer = [q \in Requests |-> [kind |-> "none"]]

Spec == Init /\ [][Next]_createVars
=============================================================================
