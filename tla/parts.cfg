SPECIFICATION FairPartsSpec
CONSTANTS
  Tasks = {t1, t2}
  Seeds = {s1, s2}
  MaxTools = 2
  MaxRetries = 1
  ModelTokens <- SomeModelTokens
  SubTokens <- SomeSubTokens
  TiesUp <- SomeTies
  Requests = {q1, q2}
  ClientIds = {i1, i2}
  None = None
  Refreshes = {f1, f2}
  Clicks = {c1}
  MaxChanges = 1
  MaxFaults = 2
  Lengths <- SomeLengths
  MaxRuns = 22
  Runs = {r1, r2, r3}
  MaxSteps = 2
  Usage = {1}
  Times = {0, 1, 2}
  Readers = {d1, d2}
  Walkers = {w1}
  Limits = {1, 2}
  Filters <- SomeFilters
INVARIANTS
  SameSeedSameRun
  ChargedByThePriceList
  AnswersNameTheirRequest
  PercentilesAreOrdered
  P95ShowsTheTail
  FinishedReadsAddUp
  AnswersMoveForward
  SummaryFitsTogether
  PagesDescend
  WalkIsComplete
PROPERTIES
  DashboardCatchesUp
  WalkEnds
