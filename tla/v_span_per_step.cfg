SPECIFICATION TraceSpec
CONSTANTS
  Runs = {r1}
  Cancels = {}
  MaxTools = 1
  MaxRetries = 1
  Usage = {1}
  MaxFaults = 0
INVARIANTS
  OneSpanPerStep
