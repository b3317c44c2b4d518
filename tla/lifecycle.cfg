SPECIFICATION FairSpec
CONSTANTS
  Runs = {r1}
  Cancels = {c1, c2}
  MaxTools = 1
  MaxRetries = 1
  Usage = {1, 2}
  MaxFaults = 2
INVARIANTS
  IInv
  StatusAgreesWithResult
  VerdictMatchesSteps
  HeardCancelIsHonoured
  UsageAgrees
  EventsAreBackedByRows
  EventsTellTheStory
PROPERTIES
  ResultIsFinal
  ImplementsContract
  ImplementsRunTable
  RunCompletes
  HeardCancelTakesEffect
