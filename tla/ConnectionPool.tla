--------------------------- MODULE ConnectionPool ---------------------------
(***************************************************************************)
(* The connection pool beside the runs, the cancels and the streams.  A    *)
(* session takes a connection with its first statement and keeps it until  *)
(* it is closed: the sessions of the runner and of a create within one     *)
(* action here, that of a cancel from its load to its answer, and that of  *)
(* a stream, which is the session of its request, as long as it is open.   *)
(***************************************************************************)
EXTENDS EventStream

CONSTANT PoolLimits  \* what pool_size and max_overflow may be together

ASSUME PoolAssumption == PoolLimits \subseteq Nat \ {0}

VARIABLE limit  \* and what they are (15 by default)

poolVars == <<allVars, limit>>

\* The requests that keep a connection.
Held == Open \union { c \in Cancels : cpc[c] \in {"loaded", "commit"} }

\* Variant: all share one connection.
FreeWhenAlone == Held = {}

Free == Cardinality(Held) < limit

\* Requests that are answered give theirs back before the others run out of
\* patience: only streams keep a session waiting for longer.
Exhausted == Cardinality(Open) >= limit

PooledTask(r) ==
  /\ pc[r] \in AtDatabase \union {"absent"} => Free
  /\ TaskStep(r)

PooledCancel(c) ==
  /\ cpc[c] = "idle" => Free
  /\ CancelStep(c)

PooledOpen(s) == Free /\ OpenStream(s)


\* No connection within pool_timeout: the statement raises, and the task is over.
PoolTimeout(r) == Exhausted /\ RunnerFails(r)

PoolNext ==
  /\ \/ /\ \/ \E r \in Runs : PooledTask(r) \/ PoolTimeout(r)
           \/ \E c \in Cancels : PooledCancel(c)
        /\ FanOut
     \/ \E s \in Streams : PooledOpen(s) \/ StreamStep(s) \/ Leave(s)
     \/ Idle
  /\ UNCHANGED limit

PoolInit == StreamInit /\ limit \in PoolLimits

PoolSpec == PoolInit /\ [][PoolNext]_poolVars

\* As in EventStream; and those who wait for a connection are served in turn.
FairPoolSpec ==
  /\ PoolSpec
  /\ \A r \in Runs : SF_allVars(PooledTask(r) /\ FanOut /\ pc[r] # "absent")
  /\ \A c \in Cancels :
       WF_allVars((CancelRefuse(c) \/ CancelSignal(c) \/ CancelCommit(c)) /\ FanOut)
  /\ \A s \in Streams : WF_allVars(StreamStep(s))
-----------------------------------------------------------------------------
(***************************************************************************)
(* Properties.                                                             *)
(***************************************************************************)
\* As long as streams leave a connection again and again, and before a time-out,
\* every accepted run ends and is announced: who else takes a connection gives it
\* back, and nobody waits for a second one with the first in hand.
RunCompletesBesideStreams == []<>~Exhausted => RunCompletes

\* And so does a stream that subscribed before its run was announced: the connection
\* it keeps is not the one its own end depends on.
FollowedStreamCloses ==
  []<>~Exhausted /\ NothingFails =>
    \A s \in Streams :
      smode[s] = "tail" /\ pc[srun[s]] # "done" ~> smode[s] \in {"closed", "gone"}
=============================================================================
