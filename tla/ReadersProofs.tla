--------------------------- MODULE ReadersProofs ----------------------------
(***************************************************************************)
(* Proofs about those who read runs beside their writers: walks through    *)
(* the list of runs, for any writers, walkers, page sizes and filters, and *)
(* the requests that read runs and their steps, for any writers and        *)
(* readers.                                                                *)
(***************************************************************************)
EXTENDS RunListing, RunReads, RunTypesProofs
-----------------------------------------------------------------------------
(***************************************************************************)
(* Walks through the list of runs.                                         *)
(***************************************************************************)
\* What is needed of the types: the runs of a page, and times that are ordered.
ListingShape ==
  /\ created \in [Runs -> Nat]
  /\ at \in [Walkers -> {"start", "walking", "ended"}]
  /\ filter \in [Walkers -> Filters]
  /\ limit \in [Walkers -> Limits]
  /\ cursor \in [Walkers -> SUBSET Nat]
  /\ pages \in [Walkers -> Seq(SUBSET Runs)]
  /\ steady \in [Walkers -> SUBSET Runs]
  /\ DOMAIN status = Runs

ListingIInv == ListingShape /\ ListingInv

\* A step of the writers keeps the runs there are, and their times.
LEMMA CreatedStays ==
  ASSUME ListingShape, TableNext
  PROVE  /\ created' \in [Runs -> Nat]
         /\ DOMAIN status' = Runs
         /\ \A r \in Existing : r \in Existing' /\ created'[r] = created[r]
<1> PICK r \in Runs : WriteRun(r)
  BY DEF TableNext
<1>1. CASE InsertRun(r)
  BY <1>1, TableAssumption DEF InsertRun, ListingShape, Existing
<1>2. CASE SetStatus(r)
  BY <1>2 DEF SetStatus, ListingShape, Existing
<1>3. CASE AddStep(r)
  BY <1>3 DEF AddStep, ListingShape, Existing
<1>4. CASE ChangeStep(r)
  BY <1>4 DEF ChangeStep, ListingShape, Existing
<1>5. CASE FinishRun(r)
  <2>1. PICK v \in Verdicts(steps[r]) : status' = [status EXCEPT ![r] = v]
    BY <1>5 DEF FinishRun
  <2>2. v # "none"
    BY DEF Verdicts
  <2> QED BY <1>5, <2>1, <2>2 DEF FinishRun, ListingShape, Existing
<1> QED BY <1>1, <1>2, <1>3, <1>4, <1>5 DEF WriteRun

\* The writers take no run off a page, and move none across a cursor.
LEMMA WriteKeeps ==
  ASSUME ListingIInv, Write
  PROVE  ListingIInv'
<1>1. /\ created' \in [Runs -> Nat] /\ DOMAIN status' = Runs
      /\ \A r \in Existing : r \in Existing' /\ created'[r] = created[r]
      /\ UNCHANGED <<at, filter, limit, cursor, pages>>
      /\ \A w \in Walkers : steady'[w] = { r \in steady[w] : status'[r] \in filter[w].statuses }
  BY CreatedStays DEF ListingIInv, Write
<1>2. ListingShape'
  BY <1>1 DEF ListingIInv, ListingShape, Write
<1>3. \A w \in Walkers : \A i \in 1..Len(pages[w]) : \A r \in pages[w][i] :
        r \in Existing /\ created'[r] = created[r] /\ created[r] \in Nat
  BY <1>1 DEF ListingIInv, ListingInv, ListingShape, Existing
<1>4. PagesDescend'
  BY <1>1, <1>3 DEF ListingIInv, ListingInv, PagesDescend
<1>5. ASSUME NEW w \in Walkers PROVE ListingInv!1!(w)'
  <2>1. steady'[w] \subseteq Matching(w)' \intersect Existing'
    <3>1. steady[w] \subseteq Existing /\ steady[w] \subseteq filter[w].runs
      BY DEF ListingIInv, ListingInv, Matching
    <3> QED BY <1>1, <3>1 DEF Matching
  <2>2. \A i \in 1..Len(pages[w]) : /\ pages[w][i] \subseteq Existing'
                                    /\ \A r \in pages[w][i], t \in cursor[w] : created'[r] >= t
    BY <1>1, <1>3 DEF ListingIInv, ListingInv
  <2>3. \A r \in steady'[w] : r \in steady[w] /\ created'[r] = created[r]
    BY <1>1 DEF ListingIInv, ListingInv
  <2>4. \A i \in 1..Len(pages[w]) : Oldest(pages[w][i])' = Oldest(pages[w][i])
    BY <1>1, <1>3 DEF Oldest
  <2>5. ASSUME NEW r \in steady'[w], AtCut(w, r) PROVE AtCut(w, r)'
    <3>1. PICK i \in 1..Len(pages[w]) : \E s \in Oldest(pages[w][i]) : created[r] = created[s]
      BY <2>5 DEF AtCut
    <3>2. PICK s \in Oldest(pages[w][i]) : created[r] = created[s]
      BY <3>1
    <3>3. s \in Oldest(pages[w][i])' /\ created'[s] = created[s] /\ created'[r] = created[r]
      BY <1>1, <1>3, <2>3, <2>4, <3>2 DEF Oldest
    <3>4. i \in 1..Len(pages'[w]) /\ s \in { x \in pages'[w][i] : \A y \in pages'[w][i] : created'[y] >= created'[x] }
      BY <1>1, <3>3 DEF Oldest
    <3> QED BY <3>2, <3>3, <3>4 DEF AtCut, Oldest
  <2>6. \A r \in steady'[w] :
          \/ \E i \in 1..Len(pages[w]) : r \in pages[w][i]
          \/ AtCut(w, r)'
          \/ at[w] = "walking" /\ \A t \in cursor[w] : created'[r] < t
    BY <2>3, <2>5 DEF ListingIInv, ListingInv
  <2>7. /\ at[w] = "start" => pages[w] = <<>> /\ steady'[w] = {}
        /\ at[w] = "walking" => cursor[w] # {}
    BY <1>1 DEF ListingIInv, ListingInv
  <2> QED BY <1>1, <2>1, <2>2, <2>6, <2>7
<1> QED BY <1>2, <1>4, <1>5 DEF ListingIInv, ListingInv

\* What a page of at least one row is cut from, and where.
LEMMA NewestCut ==
  ASSUME ListingShape, NEW S \in SUBSET Runs, NEW n \in Nat \ {0}, NEW P \in Newest(S, n)
  PROVE  /\ P \subseteq S
         /\ Cardinality(S) <= n => P = S
         /\ \A l \in Oldest(P) : \A r \in S \ P : created[r] <= created[l]
BY DEF Newest, Oldest, ListingShape

\* The pages of a walk with one more.
LEMMA PageAppended ==
  ASSUME NEW T, NEW old \in Seq(T), NEW P \in T, NEW new, new = Append(old, P)
  PROVE  /\ new \in Seq(T)
         /\ \A i \in 1..Len(new) :
              \/ i \in 1..Len(old) /\ new[i] = old[i]
              \/ i = Len(old) + 1 /\ new[i] = P
         /\ \A i \in 1..Len(old) : i \in 1..Len(new) /\ new[i] = old[i]
         /\ Len(old) + 1 \in 1..Len(new) /\ new[Len(old) + 1] = P
<1>1. /\ new \in Seq(T) /\ Len(old) \in Nat /\ Len(new) = Len(old) + 1
      /\ new[Len(old) + 1] = P
  OBVIOUS
<1>2. \A i \in 1..Len(old) : new[i] = old[i]
  OBVIOUS
<1>3. ASSUME NEW i \in 1..Len(new)
      PROVE  \/ i \in 1..Len(old) /\ new[i] = old[i]
             \/ i = Len(old) + 1 /\ new[i] = P
  <2>1. i \in 1..Len(old) \/ i = Len(old) + 1
    BY <1>1
  <2> QED BY <1>1, <1>2, <2>1
<1>4. \A i \in 1..Len(old) : i \in 1..Len(new) /\ new[i] = old[i]
  <2>1. \A i \in 1..Len(old) : i \in 1..Len(new)
    BY <1>1
  <2> QED BY <1>2, <2>1
<1>5. Len(old) + 1 \in 1..Len(new)
  BY <1>1
<1> QED BY ONLY <1>1, <1>3, <1>4, <1>5

\* The pages in old show, of the runs in followed, what is not older than before.
ShownSoFar(w, before, old, followed) ==
  /\ old = (IF before = {} THEN <<>> ELSE pages[w])
  /\ \A i \in 1..Len(old) : \A r \in old[i], t \in before : created[r] >= t
  /\ \A i, j \in 1..Len(old) : i < j =>
       \A r \in old[i], s \in old[j] : created[r] > created[s]
  /\ \A r \in followed :
       \/ \E i \in 1..Len(old) : r \in old[i]
       \/ \E i \in 1..Len(old) : \E s \in Oldest(old[i]) : created[r] = created[s]
       \/ \A t \in before : created[r] < t

\* A page continues a walk that has shown all before the cursor it is asked with.
LEMMA PageContinues ==
  ASSUME ListingShape, ListingInv, NEW w \in Walkers, NEW before \in SUBSET Nat,
         NEW old \in Seq(SUBSET Existing), NEW followed \in SUBSET (Matching(w) \intersect Existing),
         AnswerPage(w, before), ShownSoFar(w, before, old, followed),
         UNCHANGED <<tables, filter, limit>>,
         steady' = [steady EXCEPT ![w] = followed],
         Matching(w) \subseteq Existing
  PROVE  ListingIInv'
<1> USE DEF ShownSoFar
<1> DEFINE S == Older(w, before)
<1>1. S \subseteq Existing /\ S \subseteq Runs /\ Existing \subseteq Runs
      /\ limit[w] \in Nat \ {0} /\ \A r \in Runs : created[r] \in Nat
  BY ListingAssumption DEF Older, Matching, Existing, ListingShape
<1>2. PICK P \in Newest(S, limit[w]) :
        /\ pages' = [pages EXCEPT ![w] = Append(old, P)]
        /\ \/ /\ Cardinality(S) <= limit[w]
              /\ at' = [at EXCEPT ![w] = "ended"]
              /\ cursor' = [cursor EXCEPT ![w] = {}]
           \/ /\ Cardinality(S) > limit[w]
              /\ at' = [at EXCEPT ![w] = "walking"]
              /\ Cut(w, S, P)
  BY DEF AnswerPage
<1>3. /\ P \subseteq S
      /\ Cardinality(S) <= limit[w] => P = S
      /\ \A l \in Oldest(P) : \A r \in S \ P : created[r] <= created[l]
  BY <1>1, <1>2, NewestCut
<1> HIDE DEF S
<1>4. created' = created /\ Existing' = Existing /\ Matching(w)' = Matching(w)
      /\ \A Q : Oldest(Q)' = Oldest(Q)
  BY DEF tables, Existing, Matching, Oldest
<1>5. /\ pages'[w] = Append(old, P) /\ steady'[w] = followed
      /\ \A x \in Walkers \ {w} : /\ pages'[x] = pages[x] /\ steady'[x] = steady[x]
                                  /\ at'[x] = at[x] /\ cursor'[x] = cursor[x]
  BY <1>2 DEF ListingShape, Cut
<1>6. /\ pages'[w] \in Seq(SUBSET Runs)
      /\ \A i \in 1..Len(pages'[w]) :
           \/ i \in 1..Len(old) /\ pages'[w][i] = old[i]
           \/ i = Len(old) + 1 /\ pages'[w][i] = P
      /\ \A i \in 1..Len(old) : i \in 1..Len(pages'[w]) /\ pages'[w][i] = old[i]
      /\ Len(old) + 1 \in 1..Len(pages'[w]) /\ pages'[w][Len(old) + 1] = P
  <2>1. old \in Seq(SUBSET Runs)
    BY <1>1
  <2>2. P \in SUBSET Runs /\ pages'[w] = Append(old, P)
    BY <1>1, <1>3, <1>5
  <2> QED BY ONLY <2>1, <2>2, PageAppended
<1>7. /\ \A x \in S, t \in before : created[x] < t
      /\ \A r \in followed : (\A t \in before : created[r] < t) => r \in S
      /\ before = {} => Len(old) = 0
  BY DEF S, Older
<1>8. PagesDescend'
  <2> SUFFICES ASSUME NEW x \in Walkers, NEW i \in 1..Len(pages'[x]),
                      NEW j \in 1..Len(pages'[x]), i < j,
                      NEW r \in pages'[x][i], NEW s \in pages'[x][j]
               PROVE  created[r] > created[s]
    BY <1>4 DEF PagesDescend
  <2>1. CASE x # w
    BY <2>1, <1>5 DEF ListingInv, PagesDescend
  <2>2. CASE x = w
    <3>1. \/ i \in 1..Len(old) /\ pages'[w][i] = old[i]
          \/ i = Len(old) + 1 /\ pages'[w][i] = P
      BY <2>2, <1>6
    <3>2. \/ j \in 1..Len(old) /\ pages'[w][j] = old[j]
          \/ j = Len(old) + 1 /\ pages'[w][j] = P
      BY <2>2, <1>6
    <3>3. CASE j \in 1..Len(old) /\ pages'[w][j] = old[j]
      <4>1. i \in 1..Len(old)
        BY <3>1, <3>3
      <4>2. pages'[w][i] = old[i]
        BY <4>1, <1>6
      <4> QED BY <2>2, <3>3, <4>1, <4>2
    <3>4. CASE j = Len(old) + 1 /\ pages'[w][j] = P
      <4>1. i \in 1..Len(old)
        BY <3>1, <3>4
      <4>2. pages'[w][i] = old[i]
        BY <4>1, <1>6
      <4>3. r \in old[i] /\ s \in S
        BY <2>2, <3>4, <4>2, <1>3
      <4>4. PICK t \in before : TRUE
        BY <4>1, <1>7
      <4>5. created[r] >= t /\ created[s] < t /\ t \in Nat
        BY <4>1, <4>3, <1>7
      <4>6. created[r] \in Nat /\ created[s] \in Nat
        BY <4>1, <4>3, <1>1
      <4> QED BY <4>5, <4>6
    <3> QED BY <3>2, <3>3, <3>4
  <2> QED BY <2>1, <2>2
<1>9. /\ cursor'[w] \in SUBSET Nat /\ cursor' \in [Walkers -> SUBSET Nat]
      /\ at'[w] \in {"walking", "ended"} /\ at' \in [Walkers -> {"start", "walking", "ended"}]
      /\ at'[w] = "walking" => cursor'[w] # {}
      /\ at'[w] = "ended" => P = S
      /\ \A t \in cursor'[w] : /\ \E l \in Oldest(P) : t = created[l]
                              /\ \A u \in cursor'[w] : u = t
  <2>1. CASE Cardinality(S) <= limit[w] /\ at' = [at EXCEPT ![w] = "ended"]
             /\ cursor' = [cursor EXCEPT ![w] = {}]
    BY <2>1, <1>3 DEF ListingShape
  <2>2. CASE /\ Cardinality(S) > limit[w]
             /\ at' = [at EXCEPT ![w] = "walking"]
             /\ Cut(w, S, P)
    <3>1. PICK l \in Oldest(P) : cursor' = [cursor EXCEPT ![w] = {created[l]}]
      BY <2>2 DEF Cut
    <3>2. created[l] \in Nat
      BY <1>1, <1>3 DEF Oldest
    <3> QED BY <2>2, <3>1, <3>2 DEF ListingShape
  <2> QED BY <1>2, <2>1, <2>2
<1>10. ListingShape'
  <2>1. pages' \in [Walkers -> Seq(SUBSET Runs)]
    BY <1>2, <1>5, <1>6 DEF ListingShape
  <2>2. steady' \in [Walkers -> SUBSET Runs]
    BY <1>1 DEF ListingShape
  <2> QED BY <2>1, <2>2, <1>4, <1>9 DEF ListingShape, tables
<1>11. \A x \in Walkers \ {w} : ListingInv!1!(x)'
  <2> SUFFICES ASSUME NEW x \in Walkers \ {w} PROVE ListingInv!1!(x)'
    OBVIOUS
  <2>1. /\ steady[x] \subseteq Matching(x) \intersect Existing
        /\ Matching(x)' = Matching(x)
    BY DEF ListingInv, Matching, tables
  <2>2. \A r \in steady[x] : AtCut(x, r)' <=> AtCut(x, r)
    BY <1>4, <1>5 DEF AtCut
  <2> QED BY <2>1, <2>2, <1>4, <1>5 DEF ListingInv
<1>12. ListingInv!1!(w)'
  <2>1. steady'[w] \subseteq Matching(w)' \intersect Existing'
    BY <1>4, <1>5
  <2>2. ASSUME NEW i \in 1..Len(pages'[w])
        PROVE  /\ pages'[w][i] \subseteq Existing'
               /\ \A r \in pages'[w][i], t \in cursor'[w] : created'[r] >= t
    <3>0. \/ i \in 1..Len(old) /\ pages'[w][i] = old[i]
          \/ i = Len(old) + 1 /\ pages'[w][i] = P
      BY <1>6
    <3>1. pages'[w][i] \subseteq Existing
      BY <3>0, <1>1, <1>3
    <3>2. ASSUME NEW r \in pages'[w][i], NEW t \in cursor'[w] PROVE created[r] >= t
      <4>1. PICK l \in P : t = created[l] /\ \A s \in P : created[s] >= created[l]
        BY <1>9 DEF Oldest
      <4>2. CASE pages'[w][i] = P
        BY <4>1, <4>2
      <4>3. CASE i \in 1..Len(old)
        <5>1. /\ Len(old) + 1 \in 1..Len(pages'[w]) /\ i < Len(old) + 1
              /\ l \in pages'[w][Len(old) + 1]
          BY <4>1, <4>3, <1>6
        <5>2. created[r] > created[l]
          BY <5>1, <1>4, <1>8 DEF PagesDescend
        <5>3. created[r] \in Nat /\ created[l] \in Nat
          BY <4>1, <3>1, <1>1, <1>3
        <5> QED BY <4>1, <5>2, <5>3
      <4> QED BY <3>0, <4>2, <4>3
    <3> QED BY <3>1, <3>2, <1>4
  <2>3. ASSUME NEW r \in steady'[w]
        PROVE  \/ \E i \in 1..Len(pages'[w]) : r \in pages'[w][i]
               \/ AtCut(w, r)'
               \/ at'[w] = "walking" /\ \A t \in cursor'[w] : created'[r] < t
    <3>1. r \in followed
      BY <1>5
    <3>2. CASE \E i \in 1..Len(old) : r \in old[i]
      BY <3>2, <1>6
    <3>3. CASE \E i \in 1..Len(old) : \E s \in Oldest(old[i]) : created[r] = created[s]
      <4>1. PICK i \in 1..Len(old) : \E s \in Oldest(old[i]) : created[r] = created[s]
        BY <3>3
      <4>2. i \in 1..Len(pages'[w]) /\ pages'[w][i] = old[i]
        BY <1>6
      <4> QED BY <4>1, <4>2, <1>4 DEF AtCut
    <3>4. CASE r \in S
      <4>1. CASE r \in P
        BY <4>1, <1>6
      <4>2. CASE r \notin P
        <5>1. at'[w] = "walking"
          BY <3>4, <4>2, <1>9
        <5>2. PICK t \in cursor'[w] : TRUE
          BY <5>1, <1>9
        <5>3. /\ \A u \in cursor'[w] : u = t
              /\ \E l \in Oldest(P) : t = created[l]
          BY <5>2, <1>9
        <5>4. PICK l \in Oldest(P) : t = created[l]
          BY <5>3
        <5>5. created[r] <= created[l] /\ r \in Runs /\ l \in Runs
          BY <3>4, <4>2, <5>4, <1>1, <1>3 DEF Oldest
        <5>6. CASE created[r] = created[l]
          <6>1. Len(old) + 1 \in 1..Len(pages'[w]) /\ l \in Oldest(pages'[w][Len(old) + 1])
            BY <5>4, <1>6
          <6> QED BY <5>6, <6>1, <1>4 DEF AtCut
        <5>7. CASE created[r] < created[l]
          BY <5>1, <5>3, <5>4, <5>7, <1>4
        <5> QED BY <5>5, <5>6, <5>7, <1>1
      <4> QED BY <4>1, <4>2
    <3> QED BY <3>1, <3>2, <3>3, <3>4, <1>7
  <2> QED BY <2>1, <2>2, <2>3, <1>9
<1> QED BY <1>8, <1>10, <1>11, <1>12 DEF ListingIInv, ListingInv

\* Only runs that exist have a status one can ask for.
LEMMA MatchingExists ==
  ASSUME ListingShape, NEW w \in Walkers
  PROVE  Matching(w) \subseteq Existing
<1>1. filter[w].runs \subseteq Runs /\ filter[w].statuses \subseteq RunStatus
  BY ListingAssumption DEF ListingShape
<1>2. "none" \notin RunStatus
  BY DEF RunStatus, TerminalStatus
<1> QED BY <1>1, <1>2 DEF Matching, Existing

\* A walk that begins, or begins again, has shown nothing yet.
LEMMA BeginKeeps ==
  ASSUME ListingIInv, NEW w \in Walkers, BeginWalk(w)
  PROVE  ListingIInv'
<1>1. Matching(w) \subseteq Existing
  BY MatchingExists DEF ListingIInv
<1>2. /\ AnswerPage(w, {}) /\ steady' = [steady EXCEPT ![w] = Matching(w)]
      /\ UNCHANGED <<tables, filter, limit>>
  BY DEF BeginWalk
<1>3. <<>> \in Seq(SUBSET Existing) /\ Len(<<>>) = 0
  OBVIOUS
<1>4. Matching(w) \in SUBSET (Matching(w) \intersect Existing)
  BY <1>1
<1>5. ShownSoFar(w, {}, <<>>, Matching(w))
  BY <1>3 DEF ShownSoFar
<1>6. ListingShape /\ ListingInv
  BY DEF ListingIInv
<1> QED BY ONLY <1>1, <1>2, <1>3, <1>4, <1>5, <1>6, w \in Walkers, {} \in SUBSET Nat, PageContinues

\* The next page goes on from the cursor.
LEMMA NextKeeps ==
  ASSUME ListingIInv, NEW w \in Walkers, NextPage(w)
  PROVE  ListingIInv'
<1>1. Matching(w) \subseteq Existing
  BY MatchingExists DEF ListingIInv
<1>2. /\ at[w] = "walking" /\ AnswerPage(w, cursor[w])
      /\ UNCHANGED <<tables, filter, limit>>
      /\ steady' = [steady EXCEPT ![w] = steady[w]]
  BY DEF NextPage, ListingIInv, ListingShape
<1>3. cursor[w] # {} /\ cursor[w] \in SUBSET Nat
  BY <1>2 DEF ListingIInv, ListingInv, ListingShape
<1>4. pages[w] \in Seq(SUBSET Existing)
  BY DEF ListingIInv, ListingInv, ListingShape
<1>5. steady[w] \in SUBSET (Matching(w) \intersect Existing)
  BY DEF ListingIInv, ListingInv
<1>6. \A i \in 1..Len(pages[w]) : \A r \in pages[w][i], t \in cursor[w] : created[r] >= t
  BY DEF ListingIInv, ListingInv
<1>7. \A i, j \in 1..Len(pages[w]) : i < j =>
        \A r \in pages[w][i], s \in pages[w][j] : created[r] > created[s]
  BY DEF ListingIInv, ListingInv, PagesDescend
<1>8. \A r \in steady[w] :
        \/ \E i \in 1..Len(pages[w]) : r \in pages[w][i]
        \/ \E i \in 1..Len(pages[w]) : \E s \in Oldest(pages[w][i]) : created[r] = created[s]
        \/ \A t \in cursor[w] : created[r] < t
  BY DEF ListingIInv, ListingInv, AtCut
<1>9. ShownSoFar(w, cursor[w], pages[w], steady[w])
  BY <1>3, <1>6, <1>7, <1>8 DEF ShownSoFar
<1>10. ListingShape /\ ListingInv
  BY DEF ListingIInv
<1> QED BY ONLY <1>1, <1>2, <1>3, <1>4, <1>5, <1>9, <1>10, w \in Walkers, PageContinues

\* The inductive invariant of walks beside the writers.
THEOREM ListingInvariance == ListingSpec => []ListingIInv
<1>1. ListingInit => ListingIInv
  <2> SUFFICES ASSUME ListingInit PROVE ListingIInv
    OBVIOUS
  <2>1. \A w \in Walkers : /\ at[w] = "start" /\ pages[w] = <<>>
                            /\ steady[w] = {} /\ cursor[w] = {}
    BY DEF ListingInit
  <2>2. ListingShape
    BY DEF ListingInit, TableInit, ListingShape
  <2>3. \A w \in Walkers : Len(pages[w]) = 0
    BY <2>1
  <2> QED BY <2>1, <2>2, <2>3 DEF ListingIInv, ListingInv, PagesDescend
<1>2. ListingIInv /\ [ListingNext]_listing => ListingIInv'
  <2> SUFFICES ASSUME ListingIInv, [ListingNext]_listing PROVE ListingIInv'
    OBVIOUS
  <2>1. ASSUME NEW w \in Walkers, FirstPage(w) \/ NextPage(w) \/ Garbled(w)
        PROVE  ListingIInv'
    BY <2>1, BeginKeeps, NextKeeps DEF FirstPage, Garbled
  <2>2. CASE UNCHANGED listing
    <3>1. UNCHANGED <<tables, walks>>
      BY <2>2 DEF listing
    <3>2. ListingShape'
      BY <3>1 DEF ListingIInv, ListingShape, tables, walks
    <3>3. PagesDescend'
      BY <3>1 DEF ListingIInv, ListingInv, PagesDescend, tables, walks
    <3>4. /\ Existing' = Existing
          /\ \A w \in Walkers : Matching(w)' = Matching(w)
          /\ \A w \in Walkers : \A r \in Runs : AtCut(w, r)' <=> AtCut(w, r)
      BY <3>1 DEF tables, walks, Existing, Matching, AtCut, Oldest
    <3>5. \A w \in Walkers : steady[w] \subseteq Runs
      BY DEF ListingIInv, ListingShape
    <3> QED BY <3>1, <3>2, <3>3, <3>4, <3>5 DEF ListingIInv, ListingInv, tables, walks
  <2> QED BY <2>1, <2>2, WriteKeeps DEF ListingNext
<1> QED BY <1>1, <1>2, PTL DEF ListingSpec

\* Pages come in the order of creation, and no run comes twice, whatever is written
\* between the requests.
THEOREM PagesInOrder == ListingSpec => []PagesDescend
<1>1. ListingIInv => PagesDescend
  BY DEF ListingIInv, ListingInv
<1> QED BY <1>1, ListingInvariance, PTL

\* A walk that ended has shown every run it was to show, but for those created at
\* the very time of a page's last: with distinct times it misses none.
THEOREM WalksAreComplete == ListingSpec => []WalkIsComplete
<1>1. ListingIInv => WalkIsComplete
  <2> SUFFICES ASSUME ListingIInv, NEW w \in Walkers, at[w] = "ended",
                      NEW r \in steady[w] \ Seen(w)
               PROVE  AtCut(w, r)
    BY DEF WalkIsComplete
  <2>1. \A i \in 1..Len(pages[w]) : pages[w][i] \in Range(pages[w])
    BY DEF ListingIInv, ListingShape, Range
  <2> QED BY <2>1 DEF ListingIInv, ListingInv, Seen
<1> QED BY <1>1, ListingInvariance, PTL

-----------------------------------------------------------------------------
(***************************************************************************)
(* Requests that read runs and their steps.                                *)
(***************************************************************************)
\* One step moves on from another: nothing seen is taken back.
LEMMA AdvancesReflexive ==
  ASSUME NEW a \in Seq(ReadableStep)
  PROVE  Advances(a, a)
BY DEF Advances

LEMMA AdvancesTransitive ==
  ASSUME NEW a \in Seq(ReadableStep), NEW b \in Seq(ReadableStep),
         NEW c \in Seq(ReadableStep), Advances(a, b), Advances(b, c)
  PROVE  Advances(a, c)
BY DEF Advances

\* What a step of the writers may do to run x as its readers know it.
Moves(x) ==
  /\ status[x] # "none" => status'[x] # "none" /\ created'[x] = created[x]
  /\ Advances(steps[x], steps'[x])
  /\ result[x] # "none" => /\ result'[x] = result[x]
                           /\ total'[x] = total[x]
                           /\ steps'[x] = steps[x]

\* A new run has no verdict, no total and no steps.
LEMMA InsertMoves ==
  ASSUME ReadsIInv, NEW r \in Runs, InsertRun(r)
  PROVE  TablesTypeOK' /\ TablesInv' /\ \A x \in Runs : Moves(x)
<1>1. TablesTypeOK'
  BY DEF ReadsIInv, TablesTypeOK, InsertRun, RunStatus
<1>2. TablesInv'
  BY DEF ReadsIInv, TablesTypeOK, TablesInv, InsertRun, TerminalStatus, RunStatus, Bears
<1>3. \A x \in Runs : Moves(x)
  BY AdvancesReflexive DEF ReadsIInv, TablesTypeOK, InsertRun, Moves
<1> QED BY <1>1, <1>2, <1>3

\* A change of the status alone keeps what the verdict says.
LEMMA StatusMoves ==
  ASSUME ReadsIInv, NEW r \in Runs, SetStatus(r)
  PROVE  TablesTypeOK' /\ TablesInv' /\ \A x \in Runs : Moves(x)
<1>1. TablesTypeOK'
  BY DEF ReadsIInv, TablesTypeOK, SetStatus, RunStatus
<1>2. TablesInv'
  BY DEF ReadsIInv, TablesTypeOK, TablesInv, SetStatus, TerminalStatus, RunStatus, Bears, Existing
<1>3. \A x \in Runs : Moves(x)
  BY AdvancesReflexive DEF ReadsIInv, TablesTypeOK, SetStatus, Moves
<1> QED BY <1>1, <1>2, <1>3

\* A step is added after ones that succeeded.
LEMMA AddMoves ==
  ASSUME ReadsIInv, NEW r \in Runs, AddStep(r)
  PROVE  TablesTypeOK' /\ TablesInv' /\ \A x \in Runs : Moves(x)
<1>1. PICK row \in ReadableStep : steps' = [steps EXCEPT ![r] = Append(@, row)]
  <2>1. PICK t \in StepType :
          steps' = [steps EXCEPT ![r] = Append(@, [type |-> t, status |-> "running", usage |-> 0])]
    BY DEF AddStep, StepType
  <2>2. [type |-> t, status |-> "running", usage |-> 0] \in ReadableStep
    BY DEF ReadableStep, StepStatus
  <2> QED BY <2>1, <2>2
<1>2. steps[r] \in Seq(ReadableStep) /\ steps'[r] = Append(steps[r], row)
  BY <1>1 DEF ReadsIInv, TablesTypeOK
<1>3. /\ Len(steps'[r]) = Len(steps[r]) + 1
      /\ \A k \in 1..Len(steps[r]) : steps'[r][k] = steps[r][k]
      /\ steps'[r] \in Seq(ReadableStep)
  BY <1>2
<1>4. TablesTypeOK'
  BY <1>1, <1>3 DEF ReadsIInv, TablesTypeOK, AddStep
<1>5. ASSUME NEW x \in Runs, x # r PROVE steps'[x] = steps[x]
  BY <1>1, <1>5 DEF ReadsIInv, TablesTypeOK
<1>6. TablesInv'
  <2> SUFFICES ASSUME NEW x \in Runs
               PROVE  TablesInv!(x)'
    BY DEF TablesInv
  <2>1. CASE x = r
    BY <2>1, <1>2, <1>3 DEF ReadsIInv, TablesInv, AddStep, Existing
  <2>2. CASE x # r
    BY <2>2, <1>5 DEF ReadsIInv, TablesInv, AddStep, Bears
  <2> QED BY <2>1, <2>2
<1>7. \A x \in Runs : Moves(x)
  <2> SUFFICES ASSUME NEW x \in Runs PROVE Moves(x)
    OBVIOUS
  <2>1. CASE x = r
    BY <2>1, <1>2, <1>3 DEF AddStep, Moves, Advances
  <2>2. CASE x # r
    BY <2>2, <1>5, AdvancesReflexive DEF ReadsIInv, TablesTypeOK, AddStep, Moves
  <2> QED BY <2>1, <2>2
<1> QED BY <1>4, <1>6, <1>7

\* Only the last step moves, and only as long as it has not succeeded.
LEMMA ChangeMoves ==
  ASSUME ReadsIInv, NEW r \in Runs, ChangeStep(r)
  PROVE  TablesTypeOK' /\ TablesInv' /\ \A x \in Runs : Moves(x)
<1> DEFINE n == Len(steps[r])
<1>0. /\ steps[r] \in Seq(ReadableStep) /\ n \in Nat /\ n > 0
      /\ result[r] = "none"
  BY DEF ReadsIInv, TablesTypeOK, ChangeStep
<1>1. PICK row \in ReadableStep :
        /\ steps' = [steps EXCEPT ![r] = [steps[r] EXCEPT ![n] = row]]
        /\ row.type = steps[r][n].type
        /\ steps[r][n].status # "succeeded"
  <2>0. steps[r][n] \in ReadableStep
    BY <1>0
  <2>1. CASE \E move \in StepMoves : /\ steps[r][n].status = move[1]
                                     /\ steps' = [steps EXCEPT ![r][n].status = move[2]]
    <3>1. PICK move \in StepMoves : /\ steps[r][n].status = move[1]
                                    /\ steps' = [steps EXCEPT ![r][n].status = move[2]]
      BY <2>1
    <3> DEFINE row == [steps[r][n] EXCEPT !.status = move[2]]
    <3>2. move[1] # "succeeded" /\ move[2] \in StepStatus
      BY DEF StepMoves, StepStatus
    <3>3. row \in ReadableStep /\ row.type = steps[r][n].type
      BY <2>0, <3>2 DEF ReadableStep
    <3>4. steps' = [steps EXCEPT ![r] = [steps[r] EXCEPT ![n] = row]]
      BY <3>1
    <3> QED BY <3>1, <3>2, <3>3, <3>4
  <2>2. CASE /\ steps[r][n].status = "running"
             /\ \E u \in Usage : steps' = [steps EXCEPT ![r][n].status = "succeeded",
                                                        ![r][n].usage = u]
    <3>1. PICK u \in Usage : steps' = [steps EXCEPT ![r][n].status = "succeeded",
                                                    ![r][n].usage = u]
      BY <2>2
    <3> DEFINE row == [steps[r][n] EXCEPT !.status = "succeeded", !.usage = u]
    <3>2. row \in ReadableStep /\ row.type = steps[r][n].type
      BY <2>0, TableAssumption DEF ReadableStep, StepStatus
    <3>3. steps' = [steps EXCEPT ![r] = [steps[r] EXCEPT ![n] = row]]
      BY <3>1, <1>0 DEF ReadsIInv, TablesTypeOK
    <3> QED BY <2>2, <3>2, <3>3
  <2> QED BY <2>1, <2>2 DEF ChangeStep
<1>2. steps'[r] = [steps[r] EXCEPT ![n] = row]
  BY <1>1 DEF ReadsIInv, TablesTypeOK
<1>3. /\ Len(steps'[r]) = n
      /\ \A k \in 1..(n - 1) : steps'[r][k] = steps[r][k]
      /\ steps'[r][n] = row
      /\ steps'[r] \in Seq(ReadableStep)
  BY <1>0, <1>2
<1>4. TablesTypeOK'
  BY <1>1, <1>3 DEF ReadsIInv, TablesTypeOK, ChangeStep
<1>5. ASSUME NEW x \in Runs, x # r PROVE steps'[x] = steps[x]
  BY <1>1, <1>5 DEF ReadsIInv, TablesTypeOK
<1>6. TablesInv'
  <2> SUFFICES ASSUME NEW x \in Runs
               PROVE  TablesInv!(x)'
    BY DEF TablesInv
  <2>1. CASE x = r
    BY <2>1, <1>0, <1>3 DEF ReadsIInv, TablesInv, ChangeStep
  <2>2. CASE x # r
    BY <2>2, <1>5 DEF ReadsIInv, TablesInv, ChangeStep, Bears
  <2> QED BY <2>1, <2>2
<1>7. \A x \in Runs : Moves(x)
  <2> SUFFICES ASSUME NEW x \in Runs PROVE Moves(x)
    OBVIOUS
  <2>1. CASE x = r
    <3>1. Advances(steps[r], steps'[r])
      BY <1>0, <1>1, <1>3 DEF Advances
    <3> QED BY <2>1, <3>1, <1>0 DEF ChangeStep, Moves
  <2>2. CASE x # r
    BY <2>2, <1>5, AdvancesReflexive DEF ReadsIInv, TablesTypeOK, ChangeStep, Moves
  <2> QED BY <2>1, <2>2
<1> QED BY <1>4, <1>6, <1>7

\* A run is only finished with a verdict its rows bear out.
LEMMA FinishMoves ==
  ASSUME ReadsIInv, NEW r \in Runs, FinishRun(r)
  PROVE  TablesTypeOK' /\ TablesInv' /\ \A x \in Runs : Moves(x)
<1>1. PICK v \in Verdicts(steps[r]) : /\ result' = [result EXCEPT ![r] = v]
                                      /\ status' = [status EXCEPT ![r] = v]
  BY DEF FinishRun
<1>2. v \in TerminalStatus
  BY DEF Verdicts, TerminalStatus
<1>3. TablesTypeOK'
  BY <1>1, <1>2 DEF ReadsIInv, TablesTypeOK, FinishRun, RunStatus
<1>4. TablesInv'
  <2> SUFFICES ASSUME NEW x \in Runs
               PROVE  TablesInv!(x)'
    BY DEF TablesInv
  <2>1. CASE x = r
    <3>1. status'[r] = v /\ result'[r] = v /\ steps'[r] = steps[r]
          /\ total'[r] = UsageOf(steps[r]) /\ v # "none"
      BY <1>1, <1>2 DEF ReadsIInv, TablesTypeOK, FinishRun, TerminalStatus
    <3>2. Bears(steps[r], v)
      BY <1>1 DEF Bears, ReadsIInv, TablesInv
    <3> QED BY <2>1, <3>1, <3>2, <1>2 DEF ReadsIInv, TablesInv
  <2>2. CASE x # r
    <3>1. /\ status'[x] = status[x] /\ result'[x] = result[x]
          /\ total'[x] = total[x] /\ steps'[x] = steps[x]
      BY <1>1, <2>2 DEF ReadsIInv, TablesTypeOK, FinishRun
    <3> QED BY <3>1 DEF ReadsIInv, TablesInv
  <2> QED BY <2>1, <2>2
<1>5. \A x \in Runs : Moves(x)
  BY <1>1, <1>2, AdvancesReflexive
     DEF ReadsIInv, TablesTypeOK, FinishRun, Moves, Existing, TerminalStatus
<1> QED BY <1>3, <1>4, <1>5

\* A step of the writers leaves what requests hold behind it, or equal to it.
LEMMA WritersKeep ==
  ASSUME ReadsIInv, TableNext, UNCHANGED reads
  PROVE  ReadsIInv'
<1>1. TablesTypeOK' /\ TablesInv' /\ \A x \in Runs : Moves(x)
  <2> PICK r \in Runs : WriteRun(r)
    BY DEF TableNext
  <2> QED BY InsertMoves, StatusMoves, AddMoves, ChangeMoves, FinishMoves DEF WriteRun
<1>2. HoldersTypeOK'
  BY DEF ReadsIInv, HoldersTypeOK, reads
<1>3. HeldInv'
  <2> SUFFICES ASSUME NEW q \in Readers PROVE HeldInv!(q)'
    BY DEF HeldInv
  <2>1. /\ phase' = phase /\ loaded' = loaded /\ read' = read
        /\ DOMAIN loaded[q] \subseteq Runs /\ DOMAIN read[q] \subseteq DOMAIN loaded[q]
    BY DEF reads, ReadsIInv, HeldInv, Existing
  <2>2. DOMAIN loaded[q] \subseteq Existing'
    BY <2>1, <1>1 DEF ReadsIInv, HeldInv, Existing, Moves
  <2>3. ASSUME NEW r \in DOMAIN loaded[q]
        PROVE  /\ loaded[q][r].created = created'[r]
               /\ loaded[q][r].status \in TerminalStatus =>
                    loaded[q][r].result = loaded[q][r].status
               /\ IF loaded[q][r].result = "none" THEN loaded[q][r].total = 0
                  ELSE result'[r] = loaded[q][r].result /\ total'[r] = loaded[q][r].total
    BY <2>1, <1>1 DEF ReadsIInv, HeldInv, Existing, Moves
  <2>4. ASSUME NEW r \in DOMAIN read[q]
        PROVE  /\ Advances(read[q][r], steps'[r])
               /\ loaded[q][r].result # "none" => read[q][r] = steps'[r]
    <3>1. /\ Moves(r) /\ Advances(read[q][r], steps[r])
          /\ loaded[q][r].result # "none" => /\ read[q][r] = steps[r]
                                             /\ result[r] = loaded[q][r].result
      BY <2>1, <2>4, <1>1 DEF ReadsIInv, HeldInv
    <3>2. r \in Runs /\ steps[r] \in Seq(ReadableStep) /\ steps'[r] \in Seq(ReadableStep)
      BY <2>1, <2>4, <1>1 DEF ReadsIInv, TablesTypeOK
    <3>3. read[q][r] \in Seq(ReadableStep)
      BY <2>4 DEF ReadsIInv, HoldersTypeOK
    <3> QED BY <3>1, <3>2, <3>3, AdvancesTransitive DEF Moves
  <2>5. phase[q] = "idle" => DOMAIN loaded[q] = {} /\ DOMAIN read[q] = {}
    BY DEF ReadsIInv, HeldInv
  <2> QED BY <2>1, <2>2, <2>3, <2>4, <2>5
<1>4. EarlierInv'
  BY DEF ReadsIInv, EarlierInv, reads
<1> QED BY <1>1, <1>2, <1>3, <1>4 DEF ReadsIInv

\* A request gets rows that are no older than what was answered before.
LEMMA LoadKeeps ==
  ASSUME ReadsIInv, NEW q \in Readers, phase[q] = "idle",
         NEW S \in SUBSET Existing, Load(q, S)
  PROVE  ReadsIInv'
<1>1. /\ phase' = [phase EXCEPT ![q] = "reading"]
      /\ loaded' = [loaded EXCEPT ![q] = [r \in S |-> RowOf(r)]]
      /\ earlier' = [earlier EXCEPT ![q] = { p \in Readers : phase[p] = "done" }]
      /\ UNCHANGED tables /\ read' = read
  BY DEF Load
<1>2. TablesTypeOK' /\ TablesInv' /\ Existing' = Existing
  BY <1>1 DEF ReadsIInv, TablesTypeOK, TablesInv, Bears, tables, Existing
<1>3. HoldersTypeOK'
  BY <1>1 DEF ReadsIInv, HoldersTypeOK, Phase
<1>4. /\ loaded'[q] = [r \in S |-> RowOf(r)] /\ phase'[q] = "reading"
      /\ earlier'[q] = { p \in Readers : phase[p] = "done" }
      /\ DOMAIN read[q] = {} /\ S \subseteq Runs
      /\ \A p \in Readers \ {q} : /\ loaded'[p] = loaded[p] /\ phase'[p] = phase[p]
                                  /\ earlier'[p] = earlier[p]
  BY <1>1 DEF ReadsIInv, HoldersTypeOK, HeldInv, Existing
<1>5. \A r \in S : /\ RowOf(r).created = created[r] /\ RowOf(r).status = status[r]
                    /\ RowOf(r).result = result[r] /\ RowOf(r).total = total[r]
  BY DEF RowOf
<1>6. HeldInv'
  <2> SUFFICES ASSUME NEW p \in Readers PROVE HeldInv!(p)'
    BY DEF HeldInv
  <2>1. CASE p = q
    BY <2>1, <1>1, <1>2, <1>4, <1>5 DEF ReadsIInv, TablesInv, tables
  <2>2. CASE p # q
    BY <2>2, <1>1, <1>2, <1>4 DEF ReadsIInv, HeldInv, tables
  <2> QED BY <2>1, <2>2
<1>7. EarlierInv'
  <2> SUFFICES ASSUME NEW o \in Readers, NEW p \in earlier'[o] PROVE EarlierInv!(o)!(p)'
    BY DEF EarlierInv
  <2>1. CASE o = q
    <3>1. p \in Readers /\ phase[p] = "done" /\ p # q /\ loaded'[p] = loaded[p]
          /\ phase'[p] = "done"
      BY <2>1, <1>4
    <3>2. ASSUME NEW r \in DOMAIN loaded[p] \intersect S, loaded[p][r].result # "none"
          PROVE  /\ result[r] = loaded[p][r].result /\ total[r] = loaded[p][r].total
                 /\ status[r] \in {loaded[p][r].result, "cancelling"}
      BY <3>1, <3>2, <1>4 DEF ReadsIInv, HeldInv, TablesInv
    <3> QED BY <2>1, <3>1, <3>2, <1>1, <1>4, <1>5
  <2>2. CASE o # q
    <3>1. p \in earlier[o] /\ p # q
      BY <2>2, <1>4 DEF ReadsIInv, EarlierInv
    <3> QED BY <2>2, <3>1, <1>1, <1>4 DEF ReadsIInv, EarlierInv
  <2> QED BY <2>1, <2>2
<1> QED BY <1>2, <1>3, <1>6, <1>7 DEF ReadsIInv

\* The steps it reads are ahead of all that was read before.
LEMMA ReadStepsKeeps ==
  ASSUME ReadsIInv, NEW q \in Readers, NEW r \in Runs, ReadSteps(q, r)
  PROVE  ReadsIInv'
<1>1. /\ phase[q] = "reading" /\ r \in DOMAIN loaded[q]
      /\ read' = [read EXCEPT ![q] = WithSteps(read[q], r, steps[r])]
      /\ UNCHANGED <<tables, phase, loaded, earlier>>
  BY DEF ReadSteps
<1>2. TablesTypeOK' /\ TablesInv' /\ Existing' = Existing
  BY <1>1 DEF ReadsIInv, TablesTypeOK, TablesInv, Bears, tables, Existing
<1>3. /\ DOMAIN read'[q] = DOMAIN read[q] \union {r}
      /\ read'[q][r] = steps[r]
      /\ \A x \in DOMAIN read[q] : x # r /\ read'[q][x] = read[q][x]
      /\ \A p \in Readers \ {q} : read'[p] = read[p]
  BY DEF ReadSteps, WithSteps, ReadsIInv, HoldersTypeOK
<1>4. steps[r] \in Seq(ReadableStep)
  BY DEF ReadsIInv, TablesTypeOK
<1>5. HoldersTypeOK'
  <2>1. DOMAIN read' = Readers
    BY <1>1 DEF ReadsIInv, HoldersTypeOK
  <2>2. ASSUME NEW p \in Readers, NEW x \in DOMAIN read'[p]
        PROVE  read'[p][x] \in Seq(ReadableStep)
    BY <2>2, <1>3, <1>4 DEF ReadsIInv, HoldersTypeOK
  <2> QED BY <1>1, <2>1, <2>2 DEF ReadsIInv, HoldersTypeOK
<1>6. HeldInv'
  <2> SUFFICES ASSUME NEW p \in Readers PROVE HeldInv!(p)'
    BY DEF HeldInv
  <2>1. CASE p = q
    <3>1. Advances(steps[r], steps[r])
      BY <1>4, AdvancesReflexive
    <3> QED BY <2>1, <3>1, <1>1, <1>2, <1>3 DEF ReadsIInv, HeldInv, tables
  <2>2. CASE p # q
    BY <2>2, <1>1, <1>2, <1>3 DEF ReadsIInv, HeldInv, tables
  <2> QED BY <2>1, <2>2
<1>7. EarlierInv'
  <2> SUFFICES ASSUME NEW o \in Readers, NEW p \in earlier'[o] PROVE EarlierInv!(o)!(p)'
    BY DEF EarlierInv
  <2>1. /\ p \in Readers /\ phase[p] = "done" /\ p # o /\ p # q /\ p \in earlier[o]
        /\ read'[p] = read[p]
    BY <1>1, <1>3 DEF ReadsIInv, EarlierInv
  <2>2. ASSUME NEW x \in DOMAIN read[p] \intersect DOMAIN read'[o]
        PROVE  /\ Advances(read[p][x], read'[o][x])
               /\ loaded[p][x].result # "none" => read'[o][x] = read[p][x]
    <3>1. CASE o = q /\ x = r
      BY <2>1, <2>2, <3>1, <1>3 DEF ReadsIInv, HeldInv
    <3>2. CASE ~(o = q /\ x = r)
      BY <2>1, <2>2, <3>2, <1>3 DEF ReadsIInv, EarlierInv
    <3> QED BY <3>1, <3>2
  <2> QED BY <2>1, <2>2, <1>1 DEF ReadsIInv, EarlierInv
<1> QED BY <1>2, <1>5, <1>6, <1>7 DEF ReadsIInv

\* Answers and refusals change neither tables nor what is held.
LEMMA AnswerKeeps ==
  ASSUME ReadsIInv, NEW q \in Readers, phase[q] # "done",
         UNCHANGED <<tables, loaded, read, earlier>>,
         \/ phase' = [phase EXCEPT ![q] = "done"]
         \/ phase' = [phase EXCEPT ![q] = "not_found"]
         \/ phase' = phase
  PROVE  ReadsIInv'
<1>1. TablesTypeOK' /\ TablesInv' /\ Existing' = Existing
  BY DEF ReadsIInv, TablesTypeOK, TablesInv, Bears, tables, Existing
<1>2. HoldersTypeOK'
  BY DEF ReadsIInv, HoldersTypeOK, Phase
<1>3. HeldInv'
  <2> SUFFICES ASSUME NEW p \in Readers PROVE HeldInv!(p)'
    BY DEF HeldInv
  <2>1. phase'[p] = "idle" => phase[p] = "idle"
    BY DEF ReadsIInv, HoldersTypeOK
  <2> QED BY <2>1, <1>1 DEF ReadsIInv, HeldInv, tables
<1>4. EarlierInv'
  BY DEF ReadsIInv, HoldersTypeOK, EarlierInv
<1> QED BY <1>1, <1>2, <1>3, <1>4 DEF ReadsIInv

\* The inductive invariant of readers beside the writers.
THEOREM ReadsInvariance == ReadsSpec => []ReadsIInv
<1>1. ReadsInit => ReadsIInv
  <2> SUFFICES ASSUME ReadsInit PROVE ReadsIInv
    OBVIOUS
  <2>1. \A q \in Readers : /\ phase[q] = "idle" /\ DOMAIN loaded[q] = {}
                            /\ DOMAIN read[q] = {} /\ earlier[q] = {}
    BY DEF ReadsInit
  <2>2. TablesTypeOK
    BY DEF ReadsInit, TableInit, TablesTypeOK
  <2>3. HoldersTypeOK
    BY <2>1 DEF ReadsInit, HoldersTypeOK, Phase
  <2>4. TablesInv
    BY DEF ReadsInit, TableInit, TablesInv, TerminalStatus
  <2> QED BY <2>1, <2>2, <2>3, <2>4 DEF ReadsIInv, HeldInv, EarlierInv
<1>2. ReadsIInv /\ [ReadsNext]_everything => ReadsIInv'
  <2> SUFFICES ASSUME ReadsIInv, [ReadsNext]_everything PROVE ReadsIInv'
    OBVIOUS
  <2>1. CASE TableNext /\ UNCHANGED reads
    BY <2>1, WritersKeep
  <2>2. CASE ReadNext
    <3> PICK q \in Readers :
          \/ \E r \in Runs : LoadRun(q, r) \/ ReadSteps(q, r)
          \/ \E S \in SUBSET Existing : LoadRuns(q, S)
          \/ Answer(q)
      BY <2>2 DEF ReadNext
    <3>1. ASSUME NEW r \in Runs, LoadRun(q, r) PROVE ReadsIInv'
      <4>1. CASE r \in Existing
        BY <3>1, <4>1, LoadKeeps, {r} \in SUBSET Existing DEF LoadRun
      <4>2. CASE r \notin Existing
        BY <3>1, <4>2, AnswerKeeps DEF LoadRun
      <4> QED BY <4>1, <4>2
    <3>2. ASSUME NEW S \in SUBSET Existing, LoadRuns(q, S) PROVE ReadsIInv'
      BY <3>2, LoadKeeps DEF LoadRuns
    <3>3. CASE Answer(q)
      BY <3>3, AnswerKeeps DEF Answer
    <3> QED BY <3>1, <3>2, <3>3, ReadStepsKeeps
  <2>3. CASE UNCHANGED everything
    <3>1. UNCHANGED <<tables, reads>>
      BY <2>3 DEF everything
    <3>2. TablesTypeOK' /\ TablesInv' /\ Existing' = Existing
      BY <3>1 DEF ReadsIInv, TablesTypeOK, TablesInv, Bears, tables, Existing
    <3> QED BY <3>1, <3>2 DEF ReadsIInv, HoldersTypeOK, HeldInv, EarlierInv, tables, reads
  <2> QED BY <2>1, <2>2, <2>3 DEF ReadsNext
<1> QED BY <1>1, <1>2, PTL DEF ReadsSpec

\* What a request holds of a run that is over agrees with itself.
LEMMA HeldAgree == ReadsIInv => FinishedReadsAddUp
<1>1. SUFFICES ASSUME ReadsIInv, NEW q \in Readers, NEW r \in DOMAIN read[q]
               PROVE  FinishedReadsAddUp!(q)!(r)
  BY DEF FinishedReadsAddUp
<1>2. r \in DOMAIN loaded[q] /\ r \in Runs
  BY <1>1 DEF ReadsIInv, HeldInv, Existing
<1>3. QED
  BY <1>1, <1>2 DEF ReadsIInv, HeldInv, TablesInv

\* Whatever is written between the SELECTs of a request, its answer about a run that
\* it shows as over agrees with itself.
THEOREM AnswersAgree == ReadsSpec => []FinishedReadsAddUp
<1>1. QED
  BY HeldAgree, ReadsInvariance, PTL

\* A client that asks again never sees a run go back.
THEOREM PollingMovesForward == ReadsSpec => []AnswersMoveForward
<1>1. ReadsIInv => AnswersMoveForward
  <2> SUFFICES ASSUME ReadsIInv, NEW q \in Readers, NEW p \in earlier[q],
                      NEW r \in DOMAIN read[p] \intersect DOMAIN read[q]
               PROVE  AnswersMoveForward!(q)!(p)!(r)
    BY DEF AnswersMoveForward
  <2>1. p \in Readers /\ r \in DOMAIN loaded[p] \intersect DOMAIN loaded[q]
    BY DEF ReadsIInv, HeldInv, EarlierInv
  <2> QED BY <2>1 DEF ReadsIInv, HeldInv, EarlierInv
<1> QED BY <1>1, ReadsInvariance, PTL
-----------------------------------------------------------------------------
(***************************************************************************)
(* The summary.                                                            *)
(***************************************************************************)
\* What a summary rests on is kept.
LEMMA SummaryStep ==
  ASSUME ReadsIInv, SummaryInv, [ReadsNext]_everything
  PROVE  SummaryInv'
<1>1. IsFiniteSet(Existing')
  <2>1. IsFiniteSet(Existing)
    BY DEF SummaryInv
  <2>2. CASE TableNext
    <3>1. PICK r \in Runs : WriteRun(r)
      BY <2>2 DEF TableNext
    <3>2. \A x \in Runs : x # r => status'[x] = status[x]
      BY <3>1 DEF WriteRun, InsertRun, SetStatus, AddStep, ChangeStep, FinishRun,
                  ReadsIInv, TablesTypeOK
    <3>3. Existing' \in SUBSET (Existing \union {r})
      BY <3>2 DEF Existing
    <3>4. IsFiniteSet(Existing \union {r})
      BY <2>1, FS_AddElement
    <3>5. QED
      BY <3>3, <3>4, FS_Subset
  <2>3. CASE UNCHANGED tables
    BY <2>1, <2>3 DEF tables, Existing
  <2>4. UNCHANGED tables \/ TableNext
    BY DEF ReadsNext, ReadNext, LoadRun, LoadRuns, Load, ReadSteps, Answer, everything
  <2>5. QED
    BY <2>2, <2>3, <2>4
<1>2. ASSUME NEW q \in Readers
      PROVE  /\ phase'[q] = "done" => DOMAIN read'[q] = DOMAIN loaded'[q]
             /\ \A r \in DOMAIN loaded'[q] : loaded'[q][r].status \in RunStatus
  <2>1. /\ phase[q] = "done" => DOMAIN read[q] = DOMAIN loaded[q]
        /\ \A r \in DOMAIN loaded[q] : loaded[q][r].status \in RunStatus
    BY DEF SummaryInv
  <2>2. CASE UNCHANGED reads
    BY <2>1, <2>2 DEF reads
  <2>3. ASSUME NEW p \in Readers, NEW S \in SUBSET Existing, Load(p, S)
        PROVE  /\ phase'[q] = "done" => DOMAIN read'[q] = DOMAIN loaded'[q]
               /\ \A r \in DOMAIN loaded'[q] : loaded'[q][r].status \in RunStatus
    <3>1. /\ phase' = [phase EXCEPT ![p] = "reading"]
          /\ loaded' = [loaded EXCEPT ![p] = [r \in S |-> RowOf(r)]]
          /\ read' = read
      BY <2>3 DEF Load
    <3>2. CASE p = q
      <4>1. loaded'[q] = [r \in S |-> RowOf(r)] /\ phase'[q] = "reading"
        BY <3>1, <3>2 DEF ReadsIInv, HoldersTypeOK
      <4>2. \A r \in S : RowOf(r).status \in RunStatus
        BY DEF RowOf, Existing, ReadsIInv, TablesTypeOK
      <4>3. QED
        BY <4>1, <4>2
    <3>3. CASE p # q
      BY <2>1, <3>1, <3>3 DEF ReadsIInv, HoldersTypeOK
    <3>4. QED
      BY <3>2, <3>3
  <2>4. ASSUME NEW p \in Readers, NEW r \in Runs, ReadSteps(p, r)
        PROVE  /\ phase'[q] = "done" => DOMAIN read'[q] = DOMAIN loaded'[q]
               /\ \A x \in DOMAIN loaded'[q] : loaded'[q][x].status \in RunStatus
    <3>1. /\ phase[p] = "reading" /\ phase' = phase /\ loaded' = loaded
          /\ read' = [read EXCEPT ![p] = WithSteps(read[p], r, steps[r])]
      BY <2>4 DEF ReadSteps
    <3>2. p # q => read'[q] = read[q]
      BY <3>1 DEF ReadsIInv, HoldersTypeOK
    <3>3. QED
      BY <2>1, <3>1, <3>2
  <2>5. ASSUME NEW p \in Readers,
               UNCHANGED <<loaded, read>>,
               \/ phase' = [phase EXCEPT ![p] = "not_found"]
               \/ /\ phase' = [phase EXCEPT ![p] = "done"]
                  /\ DOMAIN read[p] = DOMAIN loaded[p]
        PROVE  /\ phase'[q] = "done" => DOMAIN read'[q] = DOMAIN loaded'[q]
               /\ \A r \in DOMAIN loaded'[q] : loaded'[q][r].status \in RunStatus
    BY <2>1, <2>5 DEF ReadsIInv, HoldersTypeOK
  <2>6. CASE ReadNext
    <3>1. PICK p \in Readers :
            \/ \E r \in Runs : LoadRun(p, r) \/ ReadSteps(p, r)
            \/ \E S \in SUBSET Existing : LoadRuns(p, S)
            \/ Answer(p)
      BY <2>6 DEF ReadNext
    <3>2. ASSUME NEW r \in Runs, LoadRun(p, r)
          PROVE  \/ \E S \in SUBSET Existing : Load(p, S)
                 \/ phase' = [phase EXCEPT ![p] = "not_found"] /\ UNCHANGED <<loaded, read>>
      BY <3>2, r \in Existing => {r} \in SUBSET Existing DEF LoadRun
    <3>3. CASE \E r \in Runs : LoadRun(p, r)
      BY <2>3, <2>5, <3>2, <3>3
    <3>4. CASE \E r \in Runs : ReadSteps(p, r)
      BY <2>4, <3>4
    <3>5. CASE \E S \in SUBSET Existing : LoadRuns(p, S)
      BY <2>3, <3>5 DEF LoadRuns
    <3>6. CASE Answer(p)
      BY <2>5, <3>6 DEF Answer
    <3>7. QED
      BY <3>1, <3>3, <3>4, <3>5, <3>6
  <2>7. QED
    BY <2>2, <2>6 DEF ReadsNext, everything
<1>3. QED
  BY <1>1, <1>2 DEF SummaryInv

\* The usage of the steps of one run, summed as a set.
LEMMA UsageAsSum ==
  ASSUME NEW r, NEW rows \in Seq(ReadableStep), NEW u,
         \A k \in 1..Len(rows) : u[<<r, k>>] = rows[k].usage
  PROVE  /\ IsFiniteSet({r} \X (1..Len(rows)))
         /\ SumOver(u, {r} \X (1..Len(rows))) = UsageOf(rows)
<1>1. PICK n \in Nat : n = Len(rows)
  BY LenProperties
<1>2. \A k \in 1..n : rows[k].usage \in Nat /\ u[<<r, k>>] = rows[k].usage
  <2>1. \A k \in 1..n : rows[k] \in ReadableStep
    BY <1>1, ElementOfSeq
  <2>2. \A k \in 1..n : rows[k].usage \in Nat
    BY <2>1 DEF ReadableStep
  <2>3. QED
    BY <1>1, <2>2
<1>3. ASSUME NEW k \in Nat PROVE IsFiniteSet({r} \X (1..k))
  <2>1. IsFiniteSet({r})
    BY FS_Singleton
  <2>2. IsFiniteSet(1..k)
    <3>1. 1 \in Int /\ k \in Int
      OBVIOUS
    <3>2. QED
      BY <3>1, FS_Interval
  <2>3. QED
    BY <2>1, <2>2, FS_Product
<1> DEFINE Bad == { k \in Nat : k <= n /\ SumOver(u, {r} \X (1..k)) # SumUpTo(rows, k) }
<1>4. Bad = {}
  <2>1. SUFFICES ASSUME Bad # {} PROVE FALSE
    OBVIOUS
  <2>2. PICK k \in Bad : \A j \in Bad : k <= j
    BY <2>1, LeastNumber
  <2>3. k # 0
    <3>1. {r} \X (1..0) = {}
      OBVIOUS
    <3>2. SumOver(u, {r} \X (1..0)) = SumUpTo(rows, 0)
      BY <3>1, SumOverNone, SumOfNone
    <3>3. QED
      BY <2>2, <3>2
  <2>4. PICK m \in Nat : m + 1 = k
    <3>1. k - 1 \in Nat /\ (k - 1) + 1 = k
      BY <2>2, <2>3
    <3>2. QED
      BY <3>1
  <2>5. m + 1 <= n /\ m + 1 \in 1..n /\ m \notin Bad
    BY <2>2, <2>4
  <2>6. SumOver(u, {r} \X (1..m)) = SumUpTo(rows, m)
    BY <2>5
  <2>7. {r} \X (1..(m + 1)) = ({r} \X (1..m)) \union {<<r, m + 1>>}
    OBVIOUS
  <2>8. <<r, m + 1>> \notin {r} \X (1..m)
    OBVIOUS
  <2>9. \A i \in {r} \X (1..m) : u[i] \in Nat
    BY <1>2, <2>5
  <2>10. u[<<r, m + 1>>] = rows[m + 1].usage /\ u[<<r, m + 1>>] \in Nat
    BY <1>2, <2>5
  <2>11. SumOver(u, {r} \X (1..(m + 1))) = SumOver(u, {r} \X (1..m)) + u[<<r, m + 1>>]
    <3>1. PICK A, x : A = {r} \X (1..m) /\ x = <<r, m + 1>>
      OBVIOUS
    <3>2. /\ IsFiniteSet(A) /\ x \notin A /\ {r} \X (1..(m + 1)) = A \union {x}
          /\ u[x] \in Nat /\ \A i \in A : u[i] \in Nat
      BY <1>3, <2>7, <2>8, <2>9, <2>10, <3>1
    <3>3. SumOver(u, A \union {x}) = SumOver(u, A) + u[x]
      BY <3>2, SumOverAdded
    <3>4. QED
      BY <3>1, <3>2, <3>3
  <2>12. SumUpTo(rows, m + 1) = SumUpTo(rows, m) + rows[m + 1].usage
    BY SumOfNext
  <2>13. QED
    BY <2>2, <2>4, <2>6, <2>10, <2>11, <2>12
<1>5. SumOver(u, {r} \X (1..n)) = SumUpTo(rows, n)
  BY <1>1, <1>4
<1>6. QED
  BY <1>1, <1>3, <1>5, UsageIsSum

\* Numbers that stay below the usage of the steps of each run, summed, do so, too.
LEMMA SumsOfRuns ==
  ASSUME NEW R, IsFiniteSet(R), NEW got, NEW t, NEW u,
         \A r \in R : got[r] \in Seq(ReadableStep),
         \A r \in R : t[r] \in Nat /\ t[r] <= UsageOf(got[r]),
         \A r \in R : \A k \in 1..Len(got[r]) : u[<<r, k>>] = got[r][k].usage
  PROVE  /\ IsFiniteSet(StepsOf(got, R))
         /\ \A i \in StepsOf(got, R) : u[i] \in Nat
         /\ SumOver(t, R) <= SumOver(u, StepsOf(got, R))
<1>1. ASSUME NEW r \in R
      PROVE  /\ DOMAIN got[r] = 1..Len(got[r])
             /\ \A k \in DOMAIN got[r] : u[<<r, k>>] \in Nat
             /\ UsageOf(got[r]) \in Nat
             /\ IsFiniteSet({r} \X DOMAIN got[r])
             /\ SumOver(u, {r} \X DOMAIN got[r]) = UsageOf(got[r])
  <2>1. got[r] \in Seq(ReadableStep) /\ \A k \in 1..Len(got[r]) : u[<<r, k>>] = got[r][k].usage
    OBVIOUS
  <2>2. DOMAIN got[r] = 1..Len(got[r]) /\ Len(got[r]) \in Nat
    BY <2>1, LenProperties
  <2>3. \A k \in 1..Len(got[r]) : got[r][k].usage \in Nat
    <3>1. \A k \in 1..Len(got[r]) : got[r][k] \in ReadableStep
      BY <2>1, ElementOfSeq
    <3>2. QED
      BY <3>1 DEF ReadableStep
  <2>4. UsageOf(got[r]) \in Nat
    BY <2>2, <2>3, UsageTyped
  <2>5. /\ IsFiniteSet({r} \X (1..Len(got[r])))
        /\ SumOver(u, {r} \X (1..Len(got[r]))) = UsageOf(got[r])
    BY <2>1, UsageAsSum
  <2>6. QED
    BY <2>1, <2>2, <2>3, <2>4, <2>5
<1>2. \A i \in StepsOf(got, R) : u[i] \in Nat
  <2>1. ASSUME NEW i \in StepsOf(got, R) PROVE u[i] \in Nat
    <3>1. PICK r \in R : i \in {r} \X DOMAIN got[r]
      BY DEF StepsOf
    <3>2. PICK k \in DOMAIN got[r] : i = <<r, k>>
      BY <3>1
    <3>3. QED
      BY <1>1, <3>2
  <2>2. QED
    BY <2>1
<1> DEFINE Good == { T \in SUBSET R : /\ IsFiniteSet(StepsOf(got, T))
                                      /\ SumOver(t, T) <= SumOver(u, StepsOf(got, T)) }
<1>3. {} \in Good
  <2>1. StepsOf(got, {}) = {}
    BY DEF StepsOf
  <2>2. SumOver(t, {}) = 0 /\ SumOver(u, {}) = 0
    BY SumOverNone
  <2>3. IsFiniteSet({})
    BY FS_EmptySet
  <2>4. IsFiniteSet(StepsOf(got, {})) /\ SumOver(t, {}) <= SumOver(u, StepsOf(got, {}))
    BY <2>1, <2>2, <2>3
  <2>5. QED
    BY <2>4
<1>4. ASSUME NEW T \in SUBSET R, NEW r \in R \ T, T \in Good PROVE T \union {r} \in Good
  <2>1. IsFiniteSet(T) /\ IsFiniteSet(StepsOf(got, T))
    BY <1>4, FS_Subset
  <2>2. SumOver(t, T) <= SumOver(u, StepsOf(got, T))
    BY <1>4
  <2>3. PICK A, B : A = StepsOf(got, T) /\ B = {r} \X DOMAIN got[r]
    OBVIOUS
  <2>4. StepsOf(got, T \union {r}) = A \union B /\ A \intersect B = {}
    BY <2>3 DEF StepsOf
  <2>5. IsFiniteSet(A) /\ IsFiniteSet(B) /\ \A i \in A \union B : u[i] \in Nat
    <3>1. \A i \in A : i \in StepsOf(got, R)
      BY <2>3 DEF StepsOf
    <3>2. \A i \in B : i \in StepsOf(got, R)
      BY <2>3 DEF StepsOf
    <3>3. QED
      BY <1>1, <1>2, <2>1, <2>3, <3>1, <3>2
  <2>6. SumOver(u, A \union B) = SumOver(u, A) + SumOver(u, B)
    BY <2>4, <2>5, SumOverUnion
  <2>7. SumOver(t, T \union {r}) = SumOver(t, T) + t[r]
    BY <2>1, SumOverAdded
  <2>8. SumOver(u, B) = UsageOf(got[r]) /\ UsageOf(got[r]) \in Nat
    BY <1>1, <2>3
  <2>9. t[r] \in Nat /\ t[r] <= UsageOf(got[r])
    OBVIOUS
  <2>10. SumOver(t, T) \in Nat /\ SumOver(u, A) \in Nat
    BY <2>1, <2>5, SumOverTyped
  <2>11. SumOver(t, T) + t[r] <= SumOver(u, A) + SumOver(u, B)
    <3>1. PICK a, b, c, d : a = SumOver(t, T) /\ b = SumOver(u, A) /\ c = t[r] /\ d = SumOver(u, B)
      OBVIOUS
    <3>2. a \in Nat /\ b \in Nat /\ c \in Nat /\ d \in Nat /\ a <= b /\ c <= d
      BY <2>2, <2>3, <2>8, <2>9, <2>10, <3>1
    <3>3. a + c <= b + d
      BY <3>2
    <3>4. QED
      BY <3>1, <3>3
  <2>12. IsFiniteSet(A \union B)
    BY <2>5, FS_Union
  <2>13. QED
    BY <2>4, <2>6, <2>7, <2>11, <2>12
<1> HIDE DEF Good
<1>5. R \in Good
  BY <1>3, <1>4, SetInduction
<1>6. QED
  BY <1>2, <1>5 DEF Good

\* The buckets of the step types account for all steps that were read.
LEMMA BucketsAddUp ==
  ASSUME NEW q, NEW S, S = StepsOf(read[q], DOMAIN read[q]), IsFiniteSet(S),
         NEW u, u = [i \in S |-> read[q][i[1]][i[2]].usage],
         \A i \in S : u[i] \in Nat /\ read[q][i[1]][i[2]].type \in StepType
  PROVE  SumFunction([t \in StepType |-> BucketUsage(q, t)]) = SumOver(u, S)
<1>1. ASSUME NEW t \in StepType
      PROVE  /\ Bucket(q, t) \in SUBSET S /\ IsFiniteSet(Bucket(q, t))
             /\ BucketUsage(q, t) = SumOver(u, Bucket(q, t))
             /\ SumOver(u, Bucket(q, t)) \in Nat
  <2>1. Bucket(q, t) \in SUBSET S
    BY DEF Bucket
  <2>2. IsFiniteSet(Bucket(q, t))
    BY <2>1, FS_Subset
  <2>3. PICK v : v = [i \in Bucket(q, t) |-> read[q][i[1]][i[2]].usage]
    OBVIOUS
  <2>4. DOMAIN v = Bucket(q, t) /\ BucketUsage(q, t) = SumOver(v, Bucket(q, t))
    BY <2>3, SumIs DEF BucketUsage
  <2>5. \A i \in Bucket(q, t) : u[i] \in Nat /\ v[i] = u[i]
    BY <2>1, <2>3
  <2>6. SumOver(u, Bucket(q, t)) = SumOver(v, Bucket(q, t))
    BY <2>2, <2>5, SumOverSame
  <2>7. SumOver(u, Bucket(q, t)) \in Nat
    BY <2>2, <2>5, SumOverTyped
  <2>8. QED
    BY <2>1, <2>2, <2>4, <2>6, <2>7
<1>2. PICK b : b = [t \in StepType |-> BucketUsage(q, t)]
  OBVIOUS
<1>3. SumFunction(b) = SumOver(b, StepType)
  BY <1>2, SumIs
<1>4. PICK M, T, A : M = Bucket(q, "model_call") /\ T = Bucket(q, "tool_call")
                     /\ A = Bucket(q, "sub_agent")
  OBVIOUS
<1>5. /\ IsFiniteSet(M) /\ IsFiniteSet(T) /\ IsFiniteSet(A)
      /\ b["model_call"] = SumOver(u, M) /\ b["model_call"] \in Nat
      /\ b["tool_call"] = SumOver(u, T) /\ b["tool_call"] \in Nat
      /\ b["sub_agent"] = SumOver(u, A) /\ b["sub_agent"] \in Nat
  BY <1>1, <1>2, <1>4 DEF StepType
<1>6. SumOver(b, StepType) = (b["model_call"] + b["tool_call"]) + b["sub_agent"]
  <2>1. PICK x, y, z : x = "model_call" /\ y = "tool_call" /\ z = "sub_agent"
    OBVIOUS
  <2>2. b[x] \in Nat /\ b[y] \in Nat /\ b[z] \in Nat /\ x # y /\ x # z /\ y # z
    BY <1>5, <2>1
  <2>3. StepType = {x, y, z}
    BY <2>1 DEF StepType
  <2>4. SumOver(b, StepType) = (b[x] + b[y]) + b[z]
    BY <2>2, <2>3, SumOverThree
  <2>5. QED
    BY <2>1, <2>4
<1>7. SumOver(u, S) = (SumOver(u, M) + SumOver(u, T)) + SumOver(u, A)
  <2>1. /\ M \intersect T = {} /\ (M \union T) \intersect A = {}
        /\ (M \union T) \union A = S
    BY <1>4 DEF Bucket, StepType
  <2>2. \A i \in (M \union T) \union A : u[i] \in Nat
    BY <2>1
  <2>3. SumOver(u, M \union T) = SumOver(u, M) + SumOver(u, T) /\ IsFiniteSet(M \union T)
    BY <1>5, <2>1, <2>2, SumOverUnion, FS_Union
  <2>4. SumOver(u, (M \union T) \union A) = SumOver(u, M \union T) + SumOver(u, A)
    BY <1>5, <2>1, <2>2, <2>3, SumOverUnion
  <2>5. QED
    BY <2>1, <2>3, <2>4
<1>8. QED
  BY <1>2, <1>3, <1>5, <1>6, <1>7

\* However many runs a summary is about, and whatever is written while it reads them:
\* its counts, its total and its breakdown fit together.
THEOREM SummaryFits == ReadsSpec => []SummaryFitsTogether
<1>1. ReadsInit => SummaryInv
  <2>1. ReadsInit => Existing = {}
    BY DEF ReadsInit, TableInit, Existing
  <2>2. ReadsInit => \A q \in Readers : phase[q] = "idle" /\ DOMAIN loaded[q] = {}
    BY DEF ReadsInit
  <2>3. QED
    BY <2>1, <2>2, FS_EmptySet DEF SummaryInv
<1>2. ReadsIInv /\ SummaryInv => SummaryFitsTogether
  <2>1. SUFFICES ASSUME ReadsIInv, SummaryInv, NEW q \in Readers, phase[q] = "done"
                 PROVE  SummaryFitsTogether!(q)!2
    BY DEF SummaryFitsTogether
  <2>2. /\ DOMAIN read[q] = DOMAIN loaded[q] /\ IsFiniteSet(DOMAIN loaded[q])
        /\ \A r \in DOMAIN loaded[q] : loaded[q][r].status \in RunStatus
    <3>1. IsFiniteSet(Existing) /\ DOMAIN loaded[q] \in SUBSET Existing
      BY <2>1 DEF SummaryInv, ReadsIInv, HeldInv
    <3>2. QED
      BY <2>1, <3>1, FS_Subset DEF SummaryInv
  <2>3. \A r \in DOMAIN loaded[q] :
          LET row == loaded[q][r] IN
          /\ row.status \in TerminalStatus => row.result = row.status
          /\ IF row.result = "none" THEN row.total = 0
             ELSE row.total = UsageOf(read[q][r]) /\ Bears(read[q][r], row.result)
    BY <2>1, <2>2, HeldAgree DEF FinishedReadsAddUp
  <2>4. \A r \in DOMAIN loaded[q] : read[q][r] \in Seq(ReadableStep)
    BY <2>1, <2>2 DEF ReadsIInv, HoldersTypeOK
  <2>5. InProgress(q) \intersect Terminal(q) = {}
    BY DEF InProgress, Terminal, Success, Failed, With
  <2>6. InProgress(q) \union Terminal(q) = DOMAIN loaded[q]
    BY <2>2 DEF InProgress, Terminal, Success, Failed, With, RunStatus, TerminalStatus
  <2>7. TotalUsage(q) <= SumFunction([t \in StepType |-> BucketUsage(q, t)])
    <3>1. PICK R, S, t, u :
            /\ R = DOMAIN loaded[q] /\ S = StepsOf(read[q], R)
            /\ t = [r \in DOMAIN loaded[q] |-> loaded[q][r].total]
            /\ u = [i \in S |-> read[q][i[1]][i[2]].usage]
      OBVIOUS
    <3>2. TotalUsage(q) = SumOver(t, R)
      BY <3>1, SumIs DEF TotalUsage
    <3>3. ASSUME NEW r \in R PROVE t[r] \in Nat /\ t[r] <= UsageOf(read[q][r])
      <4>1. read[q][r] \in Seq(ReadableStep)
        BY <2>4, <3>1
      <4>2. UsageOf(read[q][r]) \in Nat
        <5>1. PICK rows : rows = read[q][r]
          OBVIOUS
        <5>2. Len(rows) \in Nat /\ \A k \in 1..Len(rows) : rows[k] \in ReadableStep
          BY <4>1, <5>1, LenProperties, ElementOfSeq
        <5>3. \A k \in 1..Len(rows) : rows[k].usage \in Nat
          BY <5>2 DEF ReadableStep
        <5>4. QED
          BY <5>1, <5>2, <5>3, UsageTyped
      <4>3. t[r] = 0 \/ t[r] = UsageOf(read[q][r])
        BY <2>3, <3>1
      <4>4. QED
        BY <4>2, <4>3
    <3>4. ASSUME NEW r \in R, NEW k \in 1..Len(read[q][r])
          PROVE  <<r, k>> \in S /\ u[<<r, k>>] = read[q][r][k].usage
      <4>1. k \in DOMAIN read[q][r]
        BY <2>4, <3>1, <3>4, LenProperties
      <4>2. <<r, k>> \in S
        BY <3>1, <4>1 DEF StepsOf
      <4>3. QED
        BY <3>1, <4>2
    <3>5. /\ IsFiniteSet(S) /\ \A i \in S : u[i] \in Nat
          /\ SumOver(t, R) <= SumOver(u, S)
      <4>1. IsFiniteSet(R) /\ \A r \in R : read[q][r] \in Seq(ReadableStep)
        BY <2>2, <2>4, <3>1
      <4>2. \A r \in R : \A k \in 1..Len(read[q][r]) : u[<<r, k>>] = read[q][r][k].usage
        BY <3>4
      <4>3. PICK got : got = read[q]
        OBVIOUS
      <4>4. /\ \A r \in R : got[r] \in Seq(ReadableStep)
            /\ \A r \in R : t[r] \in Nat /\ t[r] <= UsageOf(got[r])
            /\ \A r \in R : \A k \in 1..Len(got[r]) : u[<<r, k>>] = got[r][k].usage
        BY <3>3, <4>1, <4>2, <4>3
      <4>5. /\ IsFiniteSet(StepsOf(got, R))
            /\ \A i \in StepsOf(got, R) : u[i] \in Nat
            /\ SumOver(t, R) <= SumOver(u, StepsOf(got, R))
        BY <4>1, <4>4, SumsOfRuns
      <4>6. QED
        BY <3>1, <4>3, <4>5
    <3>6. \A i \in S : read[q][i[1]][i[2]].type \in StepType
      <4>1. ASSUME NEW r \in R, NEW k \in DOMAIN read[q][r]
            PROVE  read[q][r][k].type \in StepType
        <5>1. read[q][r] \in Seq(ReadableStep)
          BY <2>4, <3>1
        <5>2. read[q][r][k] \in ReadableStep
          BY <5>1, ElementOfSeq, LenProperties
        <5>3. QED
          BY <5>2 DEF ReadableStep
      <4>2. QED
        BY <3>1, <4>1 DEF StepsOf
    <3>7. SumFunction([x \in StepType |-> BucketUsage(q, x)]) = SumOver(u, S)
      BY <2>2, <3>1, <3>5, <3>6, BucketsAddUp
    <3>8. QED
      BY <3>2, <3>5, <3>7
  <2>8. ASSUME NEW r \in Failed(q)
        PROVE  \E t \in StepType : \E i \in StepsWith(q, t, "failed") : i[1] = r
    <3>1. r \in DOMAIN loaded[q] /\ loaded[q][r].status = "failed"
      BY <2>8 DEF Failed, With
    <3>2. PICK rows : rows = read[q][r]
      OBVIOUS
    <3>3. rows \in Seq(ReadableStep) /\ "failed" \in Verdicts(rows)
      BY <2>3, <2>4, <3>1, <3>2 DEF Bears, TerminalStatus
    <3>4. rows # <<>> /\ rows[Len(rows)].status = "failed"
      BY <3>3 DEF Verdicts, Last
    <3>5. Len(rows) \in DOMAIN rows /\ rows[Len(rows)] \in ReadableStep
      BY <3>3, <3>4, EmptySeq, LenProperties, ElementOfSeq
    <3>6. <<r, Len(rows)>> \in StepsOf(read[q], DOMAIN read[q])
      BY <2>2, <3>1, <3>2, <3>5 DEF StepsOf
    <3>7. rows[Len(rows)].type \in StepType
      BY <3>5 DEF ReadableStep
    <3>8. <<r, Len(rows)>> \in StepsWith(q, rows[Len(rows)].type, "failed")
      BY <3>2, <3>4, <3>6 DEF StepsWith, Bucket
    <3>9. QED
      BY <3>7, <3>8
  <2>9. QED
    BY <2>5, <2>6, <2>7, <2>8
<1>3. QED
  BY <1>1, <1>2, ReadsInvariance, SummaryStep, PTL DEF ReadsSpec
=============================================================================
