SPECIFICATION FairSpec
CONSTANTS
  Workers = {w1, w2}
  MaxPeriod = 3
  Faults = {"crash", "provider", "unpaid"}
  NoEvent = NoEvent
INVARIANTS TypeOK  NeverAnnualTwice AllowanceIsPaid 
CHECK_DEADLOCK FALSE
 
