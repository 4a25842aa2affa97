CONSTANTS
  Workers = {w1}
  MaxRow = 3
  Paid = 2
  Decision = NoDecision
  NoDecision = NoDecision
  NoRow = NoRow
  Outcomes = {"succeeded", "failed"}
  Foreign = {}
  Faults = {"lookup", "lost_answer"}
SPECIFICATION FairSpec
INVARIANT EffectiveMeansRefunded
PROPERTY WithdrawalIsPaid
CHECK_DEADLOCK FALSE
