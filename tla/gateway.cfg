SPECIFICATION MCSpec
CONSTANTS
  Parts = {"polling", "executing", "paging", "streaming", "answering", "breaker", "reporting", "tokens", "expiring", "counts", "importing", "drafting", "routing", "binding", "ordering"}
  p1 = p1
  p2 = p2
  t1 = t1
  t2 = t2
  none = none
  Tasks = {t1}
  Polled = {t1}
  Rounds = {p1, p2}
  Batch = 1
  TTL = 2
  Grace = 1
  MinLease = 1
  MaxTime = 6
  NoReceipt = none
  NoTask = none
SYMMETRY Symmetry
CHECK_DEADLOCK FALSE
INVARIANTS
  ChargedForProduct
  CallsAreBilled
  UpstreamIsSpared
  SoldAsOffered
PROPERTIES
  DecisionStands
  OthersAreHeeded
