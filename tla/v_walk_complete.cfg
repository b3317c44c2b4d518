SPECIFICATION ListingSpec
CONSTANTS
  Runs = {r1, r2}
  Walkers = {w1}
  MaxSteps = 0
  Usage = {}
  Times = {0, 1}
  Limits = {1}
  Filters <- NoFilter
INVARIANTS
  WalkMissesNothing
