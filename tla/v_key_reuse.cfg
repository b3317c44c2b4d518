SPECIFICATION Spec
CONSTANTS
  Requests = {q1, q2}
  Agents = {a1}
  Keys = {k1}
  NoKey = NoKey
  EmptyKey = EmptyKey
  Inputs = {i1, i2}
  Extras = {x1, x2}
  Nobody = Nobody
  MaxRestarts = 0
SYMMETRY CreateSymmetry
INVARIANTS
  ReplaysSameBody
