SPECIFICATION Spec
CONSTANTS
  Requests = {q1, q2, q3}
  Agents = {a1, a2}
  Keys = {k1}
  NoKey = NoKey
  EmptyKey = EmptyKey
  Inputs = {i1, i2}
  Extras = {x1, x2}
  Nobody = Nobody
  MaxRestarts = 1
SYMMETRY CreateSymmetry
INVARIANTS
  OneRunPerKey
  RetriesAgree
  LoserFindsWinner
  RowsAndTasksMatch
PROPERTIES
  ImplementsIdempotentCreate
