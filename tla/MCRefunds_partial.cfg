CONSTANTS
  Workers = {w1}
  MaxRow = 2
  Paid = 2
  Decision = 1
  NoDecision = NoDecision
  NoRow = NoRow
  Outcomes = {"succeeded"}
  Foreign = {}
  Faults = {}
SPECIFICATION Spec
INVARIANT NoDoubleRefund
CHECK_DEADLOCK FALSE
