SPECIFICATION FairSpec
CONSTANTS
  a = a
  bad = bad
  Requests = {r}
  Receipts = {a, bad}
  Poison = {bad}
  Channels = {}
  Callers = {c1}
  Workers = {l1, l2}
  Lanes = {l1, l2}
  Owner <- OwnWorker
  Reserve <- MCReserve
  Cost <- MCCost
  UpstreamCost <- MCUpstream
  Exposures = {}
  Deposit = 2
  CreditLimit = 1
  Stock = 2
  Threshold = 0
  MaxAttempts = 2
  LeaseTicks = 1
  ClaimTicks = 1
  MaxRevision = 2
  MaxFaults = 1
  MaxReviews = 1
  Nobody = Nobody
  NoReceipt = NoReceipt
  NoChannel = NoChannel
PROPERTIES
  NothingStaysOpen
  KeepsThePromise
