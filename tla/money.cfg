SPECIFICATION MCSpec
CONSTANTS
  Parts = {"ledger", "operations", "payments", "redeem", "paying", "looking"}
  c1 = c1
  c2 = c2
  c3 = c3
  o1 = o1
  o2 = o2
  Ids = {o1, o2}
  Calls = {c1, c2, c3}
  Args <- MCArgs
  Start = 1
  Line = 1
  Threshold = 0
  MaxSpend = 1
  MaxDeaths = 1
  None = None
SYMMETRY Symmetry
INVARIANTS
  LedgerIsSound
  CreditedIsEarned
PROPERTIES
  AppliedOnce
  PaidOnce
