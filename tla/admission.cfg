SPECIFICATION MCSpec
CONSTANTS
  Parts = {"limits", "quotas", "wallet", "fleet", "trying"}
  c1 = c1
  c2 = c2
  r1 = r1
  r2 = r2
  r3 = r3
  a1 = a1
  a2 = a2
  none = none
  Requests = {a1, a2, "a3", "m1", "m2", "o1"}
  Users = {"ann", "mem", "own"}
  Keys = {"k1", "k2", "k3", "k4"}
  Callers = {c1, c2}
  User <- MCUser
  Key <- MCKey
  Bound <- MCBound
  Fallback <- MCFallback
  UserLimit <- MCUserLimit
  KeyLimit <- MCKeyLimit
  MemberLimit <- MCMemberLimit
  Quota = 3
  Deposit <- MCDeposit
  CreditLimit <- MCCreditLimit
  Estimates = {1, 2}
  Freeze = 1
  Costs = {1, 2, 3}
  Prices = {1}
  NoLimit = none
  Free = none
SYMMETRY Symmetry
INVARIANTS
  LimitsAreShared
  SharesAreCovered
  BooksBalance
