-------------------------- MODULE RequestPipeline --------------------------
(***************************************************************************)
(* The way of a request through the application that main.py puts          *)
(* together: the middleware that names it, its route, and the handlers of  *)
(* errors.py that turn what goes wrong into an answer.                     *)
(*                                                                         *)
(* The layers are those of the framework, from the outside in: the handler *)
(* of everything unhandled, request_id_middleware, the handlers of         *)
(* ApiError and of the framework's own errors, the routes.  Each of them   *)
(* suspends while the next is at work, so requests interleave.             *)
(***************************************************************************)
EXTENDS Naturals

CONSTANTS
  Requests,   \* the requests
  ClientIds,  \* the ids a client may name a request by
  None        \* no header, no field, no answer

VARIABLES
  pc,      \* where a request is
  sent,    \* its X-Request-Id header, as the client sent it
  id,      \* request.state.request_id
  answer   \* the answer, as far as it is made

pipelineVars == <<pc, sent, id, answer>>

\* req_ and a random number, which no other request is given.
Generated(r) == [generated_for |-> r]

ASSUME PipelineAssumption ==
  None \notin ClientIds \union { Generated(r) : r \in Requests }

Response(status, media, code, request_id) ==
  [status |-> status, media |-> media, code |-> code,
   request_id |-> request_id, x_request_id |-> None]

\* The errors of the service that a route may raise: their status and code.
ApiError ==
  { <<404, "run_not_found">>, <<409, "invalid_run_state">>,
    <<409, "idempotency_key_conflict">> }

\* Those the framework answers by itself: no such route, method or parameter.
FrameworkError == {404, 405, 422}

\* Where the answer has begun to reach the client.
Begun == {"streaming", "done", "cut"}
-----------------------------------------------------------------------------
PipelineInit ==
  /\ pc = [r \in Requests |-> "new"]
  /\ sent \in [Requests -> ClientIds \union {None}]
  /\ id = [r \in Requests |-> None]
  /\ answer = [r \in Requests |-> None]

Goes(r, here, there) == pc[r] = here /\ pc' = [pc EXCEPT ![r] = there]

Answers(r, response) == answer' = [answer EXCEPT ![r] = response]

\* The id of a request: its client's, or a generated one.
NameOf(r) == IF sent[r] = None THEN Generated(r) ELSE sent[r]

\* Variant: the id is kept in the state of the application, not of the request.
NamedInAppState(r) == id' = [q \in Requests |-> NameOf(r)]

Named(r) == id' = [id EXCEPT ![r] = NameOf(r)]

\* The middleware names the request, before call_next.
Receive(r) ==
  /\ Goes(r, "new", "routed")
  /\ Named(r)
  /\ UNCHANGED <<sent, answer>>

\* problem_response.
Problem(r, status, code) ==
  Response(status, "application/problem+json", code, id[r])

\* The route does what it is asked; the stream is the one that goes on.
Serve(r) ==
  /\ Goes(r, "routed", "leaving")
  /\ \E media \in {"application/json", "text/event-stream"} :
       Answers(r, Response(200, media, None, None))
  /\ UNCHANGED <<sent, id>>

\* The framework finds no route for the request, or it does not validate.
Reject(r) ==
  /\ Goes(r, "routed", "leaving")
  /\ \E status \in FrameworkError :
       Answers(r, Response(status, "application/json", None, None))
  /\ UNCHANGED <<sent, id>>

\* api_error_handler.
Refuse(r) ==
  /\ Goes(r, "routed", "leaving")
  /\ \E e \in ApiError : Answers(r, Problem(r, e[1], e[2]))
  /\ UNCHANGED <<sent, id>>

\* Anything else that is raised leaves the middleware as it is.
Raise(r) ==
  /\ Goes(r, "routed", "raised")
  /\ UNCHANGED <<sent, id, answer>>

\* The middleware has the answer back, and names the request in its header.
Leave(r) ==
  /\ Goes(r, "leaving", IF answer[r].media = "text/event-stream" THEN "streaming"
                        ELSE "done")
  /\ answer' = [answer EXCEPT ![r].x_request_id = id[r]]
  /\ UNCHANGED <<sent, id>>

\* unhandled_error_handler, outside the middleware: the scope is the same, and so
\* is the id, but nobody adds the header.
AnswerUnhandled(r) ==
  /\ Goes(r, "raised", "done")
  /\ Answers(r, Problem(r, 500, "internal_error"))
  /\ UNCHANGED <<sent, id>>

StreamEnds(r) ==
  /\ Goes(r, "streaming", "done")
  /\ UNCHANGED <<sent, id, answer>>

\* A stream whose generator raises is cut: its status and its headers are sent, and
\* what the handler makes of the exception is thrown away.
StreamBreaks(r) ==
  /\ Goes(r, "streaming", "cut")
  /\ UNCHANGED <<sent, id, answer>>

AllAnswered == (\A r \in Requests : pc[r] \in {"done", "cut"}) /\ UNCHANGED pipelineVars

PipelineNext ==
  \/ \E r \in Requests :
       \/ Receive(r) \/ Serve(r) \/ Reject(r) \/ Refuse(r) \/ Raise(r)
       \/ Leave(r) \/ AnswerUnhandled(r) \/ StreamEnds(r) \/ StreamBreaks(r)
  \/ AllAnswered

PipelineSpec == PipelineInit /\ [][PipelineNext]_pipelineVars
-----------------------------------------------------------------------------
(***************************************************************************)
(* Properties.                                                             *)
(***************************************************************************)
\* However requests interleave, an answer names its own request wherever it names
\* one: in its body and in its header, by the id its client chose or by one that no
\* other request has.  A problem always names it, and so does the header of every
\* answer but a 500.  (That not every error is a problem is EveryErrorIsAProblem.)
AnswersNameTheirRequest ==
  \A r \in Requests : pc[r] \in Begun =>
    /\ answer[r].request_id \in {None, NameOf(r)}
    /\ answer[r].x_request_id \in {None, NameOf(r)}
    /\ answer[r].media = "application/problem+json" => answer[r].request_id # None
    /\ answer[r].status # 500 => answer[r].x_request_id # None

\* "Every non-2xx response is a `application/problem+json` body [...] plus [...] a
\* `request_id`" (errors.py:4-6).  Handlers are there for ApiError and for what nobody
\* handles (main.py:43-44); what the framework rejects has handlers of its own.
EveryErrorIsAProblem ==
  \A r \in Requests : pc[r] \in Begun /\ answer[r].status # 200 =>
    /\ answer[r].media = "application/problem+json"
    /\ answer[r].request_id # None
=============================================================================
