SPECIFICATION Spec
CONSTANTS
  Debits = {r1, r2}
  Amounts = {1, 2}
  Granted = 1
  Tokens = 3
  Price = 10
  MaxPlan = 2
  Public = {f1}
  Own = {o1}
  Batch = batch
  Nonces = {n1, n2, n3}
  Loads <- AllLoads
  Faults = {}
  None = None
INVARIANTS LedgerBalances ShareStaysFresh AttemptTellsTruth 
PROPERTIES KeepsAccount PaidIsCredited RefundCompletes DeclarationIsAnswered
CHECK_DEADLOCK FALSE
