SPECIFICATION PipelineSpec
CONSTANTS
  Requests = {q1}
  ClientIds = {i1}
  None = None
INVARIANTS
  EveryErrorIsAProblem
