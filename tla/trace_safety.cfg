SPECIFICATION TraceSpec
CONSTANTS
  Runs = {r1, r2}
  Cancels = {c1}
  MaxTools = 1
  MaxRetries = 1
  Usage = {1}
  MaxFaults = 1
SYMMETRY TraceSymmetry
INVARIANTS
  TracesAreTrees
  RowsNameTheirSpan
  TraceTellsTheRun
