SPECIFICATION Spec
CONSTANTS
  Requests = {r1, r2}
  None = None
  Calls <- Loads
  Default <- Closed
  Edits <- Toggles
  boss = boss
  guest = guest
  Emails = {boss, guest}
  Staff <- Employees
  Browsers = {b1}
  Codes = {c1}
  Qrs = {q1}
  MaxUses = 2
  Recoveries = {x1}
  Ttl = 1
  Horizon = 2
  Purposes = {p1}
  Receipts = {a1, a2}
  Tabs = {t1, t2}
  MaxRev = 2
SYMMETRY Symmetry
INVARIANTS VouchersAdmit WindowHolds 
CHECK_DEADLOCK FALSE
