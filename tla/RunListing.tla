----------------------------- MODULE RunListing -----------------------------
(***************************************************************************)
(* GET /runs: a client walks through the runs, newest first, page by page  *)
(* along a cursor over created_at, while runs are created and change their *)
(* status.                                                                 *)
(***************************************************************************)
EXTENDS RunTable

CONSTANTS
  Walkers,  \* the clients
  Limits,   \* the page sizes they ask for
  Filters   \* what they ask for: the statuses, and the runs of an agent

ASSUME ListingAssumption ==
  /\ Limits \subseteq Nat \ {0}
  /\ Filters \subseteq [statuses: SUBSET RunStatus, runs: SUBSET Runs]

VARIABLES
  at,      \* where a walk is
  filter,  \* the parameters a client repeats with every request
  limit,
  cursor,  \* next_cursor of its last answer: the time it is cut at, if any
  pages,   \* the runs of each page it got
  steady   \* history: the runs that match the filter since the walk began

walks == <<at, filter, limit, cursor, pages, steady>>
listing == <<tables, walks>>

ListingInit ==
  /\ TableInit
  /\ at = [w \in Walkers |-> "start"]
  /\ filter \in [Walkers -> Filters]
  /\ limit \in [Walkers -> Limits]
  /\ cursor = [w \in Walkers |-> {}]
  /\ pages = [w \in Walkers |-> <<>>]
  /\ steady = [w \in Walkers |-> {}]

\* The status and agent conditions.
Matching(w) == { r \in filter[w].runs : status[r] \in filter[w].statuses }

\* Variant: the runs with the time of the cursor once more.
OlderOrEqual(w, before) == { r \in Matching(w) : \A t \in before : created[r] <= t }

\* The rows the WHERE clause selects.
Older(w, before) == { r \in Matching(w) : \A t \in before : created[r] < t }

\* The first n rows of S by created_at, descending; rows with equal times come in
\* any order, and in another one each time.
Newest(S, n) ==
  IF Cardinality(S) <= n THEN {S}
  ELSE { P \in SUBSET S : /\ Cardinality(P) = n
                          /\ \A r \in P, s \in S \ P : created[r] >= created[s] }

\* The last row of a page.
Oldest(P) == { r \in P : \A s \in P : created[s] >= created[r] }

\* Variant: the cursor of the row that told that there are more.
CutBeyond(w, S, P) ==
  \E N \in Newest(S \ P, 1) : \E r \in N : cursor' = [cursor EXCEPT ![w] = {created[r]}]

\* next_cursor is cut from the last row of the page.
Cut(w, S, P) == \E r \in Oldest(P) : cursor' = [cursor EXCEPT ![w] = {created[r]}]

\* One row more than the page is asked for, which tells whether there are more.
AnswerPage(w, before) ==
  LET S == Older(w, before) IN
  \E P \in Newest(S, limit[w]) :
    /\ pages' = [pages EXCEPT ![w] = Append(IF before = {} THEN <<>> ELSE @, P)]
    /\ \/ /\ Cardinality(S) <= limit[w]
          /\ at' = [at EXCEPT ![w] = "ended"]
          /\ cursor' = [cursor EXCEPT ![w] = {}]
       \/ /\ Cardinality(S) > limit[w]
          /\ at' = [at EXCEPT ![w] = "walking"]
          /\ Cut(w, S, P)

BeginWalk(w) ==
  /\ AnswerPage(w, {})
  /\ steady' = [steady EXCEPT ![w] = Matching(w)]
  /\ UNCHANGED <<tables, filter, limit>>

FirstPage(w) == at[w] = "start" /\ BeginWalk(w)

\* A cursor that cannot be read is no error: the walk begins again.
Garbled(w) == at[w] = "walking" /\ BeginWalk(w)

\* Variant: the cursors that are given are not those that are understood.
NextPageFromStart(w) == Garbled(w)

NextPage(w) ==
  /\ at[w] = "walking"
  /\ AnswerPage(w, cursor[w])
  /\ UNCHANGED <<tables, filter, limit, steady>>

\* A writer's step; a run whose status no longer matches is not followed any more.
Write ==
  /\ TableNext
  /\ steady' = [w \in Walkers |-> { r \in steady[w] : status'[r] \in filter[w].statuses }]
  /\ UNCHANGED <<at, filter, limit, cursor, pages>>

ListingNext ==
  \/ Write
  \/ \E w \in Walkers : FirstPage(w) \/ NextPage(w) \/ Garbled(w)

ListingSpec == ListingInit /\ [][ListingNext]_listing

\* A client that started goes on with the cursors it is given.
FairListingSpec == ListingSpec /\ \A w \in Walkers : WF_listing(NextPage(w))
-----------------------------------------------------------------------------
(***************************************************************************)
(* Properties.                                                             *)
(***************************************************************************)
Seen(w) == UNION Range(pages[w])

\* However many runs are created, finish or change between the requests, a walk shows
\* runs in the order of their creation, newest first, across its pages; so it shows
\* no run twice.
PagesDescend ==
  \A w \in Walkers : \A i, j \in 1..Len(pages[w]) : i < j =>
    \A r \in pages[w][i], s \in pages[w][j] : created[r] > created[s]

\* A run created at the very time of the last run of a page.
AtCut(w, r) == \E i \in 1..Len(pages[w]) : \E s \in Oldest(pages[w][i]) : created[r] = created[s]

\* A walk that ended has shown every run that matched from its first page to its last,
\* whatever was written meanwhile, but for runs with the very time of a page's last.
WalkIsComplete ==
  \A w \in Walkers : at[w] = "ended" =>
    \A r \in steady[w] \ Seen(w) : AtCut(w, r)

\* A client whose cursors get through comes to an end, whatever is created meanwhile.
WalkEnds ==
  \A w \in Walkers :
    <>[][~Garbled(w)]_listing => (at[w] = "walking" ~> at[w] = "ended")

\* What the README promises: results stay stable even as new runs are created between
\* page fetches; a walk that ended has shown every run it was to show.
WalkMissesNothing ==
  \A w \in Walkers : at[w] = "ended" => steady[w] \subseteq Seen(w)
-----------------------------------------------------------------------------
\* The inductive invariant: what a walk has shown lies at or before its cursor, and
\* what it has not shown lies behind it or on one of the cuts.
ListingInv ==
  /\ \A w \in Walkers :
       /\ steady[w] \subseteq Matching(w) \intersect Existing
       /\ \A i \in 1..Len(pages[w]) :
            /\ pages[w][i] \subseteq Existing
            /\ \A r \in pages[w][i], t \in cursor[w] : created[r] >= t
       /\ at[w] = "start" => pages[w] = <<>> /\ steady[w] = {}
       /\ at[w] = "walking" => cursor[w] # {}
       /\ \A r \in steady[w] :
            \/ \E i \in 1..Len(pages[w]) : r \in pages[w][i]
            \/ AtCut(w, r)
            \/ at[w] = "walking" /\ \A t \in cursor[w] : created[r] < t
  /\ PagesDescend
=============================================================================
