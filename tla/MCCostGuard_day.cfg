SPECIFICATION Spec
CONSTANTS
  Calls = {c1, c2, c3}
  Limit = 5
  Estimates = {2}
  Actuals = {1, 3}
  Lifetime = 1
  Horizon = 2
SYMMETRY Interchangeable
INVARIANTS TypeOK WithinLimit
PROPERTY ActsAtomically
CHECK_DEADLOCK FALSE
