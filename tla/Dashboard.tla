----------------------------- MODULE Dashboard -----------------------------
(***************************************************************************)
(* The script of static/dashboard.html: a page that refreshes itself on a  *)
(* timer whether or not the last refresh is over, and starts runs.         *)
(*                                                                         *)
(* What the service has to tell is a version, which a new run and every    *)
(* step of one raise; the two answers of a refresh are given each at its   *)
(* own moment.  Between two awaits the script is not interrupted.          *)
(***************************************************************************)
EXTENDS Integers

CONSTANTS
  Refreshes,  \* the calls of refresh() that may be under way at once
  Clicks,     \* the clicks on "Start run"
  MaxChanges, \* bound on what happens to runs
  MaxFaults   \* bound on requests that are lost or answered with a problem

ASSUME DashboardAssumption == MaxChanges \in Nat /\ MaxFaults \in Nat

VARIABLES
  version,  \* what the service would answer now
  refresh,  \* a call of refresh(): its two answers, or idle
  shown,    \* what the panels of the summary and the table of runs show
  click,    \* a call of startRun()
  statusLine,   \* the line beside the button
  faults    \* faults so far

pageVars == <<version, refresh, shown, click, statusLine, faults>>

Pending == -1  \* no answer yet
Unexpected == -2  \* an answer that is JSON, but not the one asked for

Idle == [busy |-> FALSE, summary |-> Pending, runs |-> Pending]

DashboardInit ==
  /\ version = 0
  /\ refresh = [f \in Refreshes |-> Idle]
  /\ shown = [summary |-> Pending, runs |-> Pending]
  /\ click = [c \in Clicks |-> "idle"]
  /\ statusLine = ""
  /\ faults = 0

Fault == faults < MaxFaults /\ faults' = faults + 1
-----------------------------------------------------------------------------
\* A run makes a step.
Change ==
  /\ version < MaxChanges
  /\ version' = version + 1
  /\ UNCHANGED <<refresh, shown, click, statusLine, faults>>

\* Variant: a refresh sets the timer of the next one at its end, which a request that
\* went wrong keeps it from reaching.
TickAfterSuccess(f) ==
  /\ faults = 0
  /\ ~ refresh[f].busy
  /\ refresh' = [refresh EXCEPT ![f].busy = TRUE]
  /\ UNCHANGED <<version, shown, click, statusLine, faults>>

\* The page is loaded, five seconds have passed, or half a second since a start.
Tick(f) ==
  /\ ~ refresh[f].busy
  /\ refresh' = [refresh EXCEPT ![f].busy = TRUE]
  /\ UNCHANGED <<version, shown, click, statusLine, faults>>

\* The service answers one of the two requests.
AnswerSummary(f) ==
  /\ refresh[f].busy /\ refresh[f].summary = Pending
  /\ \/ refresh' = [refresh EXCEPT ![f].summary = version] /\ UNCHANGED faults
     \/ refresh' = [refresh EXCEPT ![f].summary = Unexpected] /\ Fault
  /\ UNCHANGED <<version, shown, click, statusLine>>

AnswerRuns(f) ==
  /\ refresh[f].busy /\ refresh[f].runs = Pending
  /\ \/ refresh' = [refresh EXCEPT ![f].runs = version] /\ UNCHANGED faults
     \/ refresh' = [refresh EXCEPT ![f].runs = Unexpected] /\ Fault
  /\ UNCHANGED <<version, shown, click, statusLine>>

\* A request is lost, or its answer is not JSON: Promise.all rejects, nothing is shown,
\* and nobody is told.  The interval goes on.
Lose(f) ==
  /\ refresh[f].busy /\ Pending \in {refresh[f].summary, refresh[f].runs}
  /\ refresh' = [refresh EXCEPT ![f] = Idle]
  /\ Fault
  /\ UNCHANGED <<version, shown, click, statusLine>>

\* The panels are filled one after the other; a problem has none of the fields, and
\* the first that is missing leaves the panels from there on as they were.
Show(f) ==
  /\ refresh[f].busy
  /\ Pending \notin {refresh[f].summary, refresh[f].runs}
  /\ refresh' = [refresh EXCEPT ![f] = Idle]
  /\ shown' = IF refresh[f].summary = Unexpected THEN shown
              ELSE [summary |-> refresh[f].summary,
                    runs |-> IF refresh[f].runs = Unexpected THEN shown.runs
                             ELSE refresh[f].runs]
  /\ UNCHANGED <<version, click, statusLine, faults>>
-----------------------------------------------------------------------------
Clicked(c, here, there, line) ==
  /\ click[c] = here
  /\ click' = [click EXCEPT ![c] = there]
  /\ statusLine' = line

\* The body parses, and is posted; or it does not.
Click(c) ==
  /\ Clicked(c, "idle", "posted", "starting") \/ Clicked(c, "idle", "over", "invalid JSON input")
  /\ UNCHANGED <<version, refresh, shown, faults>>

\* The service creates the run, whether or not its answer will arrive.
Create(c) ==
  /\ Clicked(c, "posted", "created", statusLine)
  /\ version' = version + 1
  /\ UNCHANGED <<refresh, shown, faults>>

Started(c) ==
  /\ Clicked(c, "created", "over", "started")
  /\ UNCHANGED <<version, refresh, shown, faults>>

Refused(c) ==
  /\ Clicked(c, "posted", "over", "error")
  /\ UNCHANGED <<version, refresh, shown, faults>>

\* The catch is that of the parser's errors.
Unanswered(c) ==
  /\ Clicked(c, "posted", "over", "invalid JSON input")
       \/ Clicked(c, "created", "over", "invalid JSON input")
  /\ Fault
  /\ UNCHANGED <<version, refresh, shown>>

\* Between two ticks of the timer the page does nothing.
Rests == (\A f \in Refreshes : ~ refresh[f].busy) /\ UNCHANGED pageVars

DashboardNext ==
  \/ Change \/ Rests
  \/ \E f \in Refreshes :
       Tick(f) \/ AnswerSummary(f) \/ AnswerRuns(f) \/ Lose(f) \/ Show(f)
  \/ \E c \in Clicks :
       Click(c) \/ Create(c) \/ Started(c) \/ Refused(c) \/ Unanswered(c)

DashboardSpec == DashboardInit /\ [][DashboardNext]_pageVars
-----------------------------------------------------------------------------
(***************************************************************************)
(* Properties.                                                             *)
(***************************************************************************)
\* Whatever requests were lost, answered with a problem or overtaken by later ones:
\* once nothing changes any more, all panels of a page that was loaded come to show
\* what there is, and stay so.
DashboardCatchesUp ==
  <>(\E f \in Refreshes : refresh[f].busy) =>
    <>[](shown.summary = version /\ shown.runs = version)
=============================================================================
