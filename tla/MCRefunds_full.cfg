CONSTANTS
  Workers = {w1, w2}
  MaxRow = 2
  Paid = 1
  Decision = NoDecision
  NoDecision = NoDecision
  NoRow = NoRow
  Outcomes = {"pending", "succeeded", "failed"}
  Foreign = {1}
  Faults = {"crash", "lookup", "lost_answer"}
SPECIFICATION Spec
SYMMETRY Symmetry
INVARIANT TypeOK
INVARIANT OneOpenRow
INVARIANT SucceededOnStripesWord
INVARIANT ReplacedOnlyWhenFailed
PROPERTY SucceededStaysSucceeded
CHECK_DEADLOCK FALSE
