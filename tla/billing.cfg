SPECIFICATION Spec
CONSTANTS
  a = a
  bad = bad
  Requests = {r}
  Receipts = {a, bad}
  Poison = {bad}
  Channels = {ch}
  Callers = {c1, c2}
  Workers = {w}
  Lanes = {l1, l2}
  Owner <- SameWorker
  Reserve <- MCReserve
  Cost <- MCCost
  UpstreamCost <- MCUpstream
  Exposures = {1}
  Deposit = 2
  CreditLimit = 1
  Stock = 2
  Threshold = 0
  MaxAttempts = 2
  LeaseTicks = 1
  ClaimTicks = 2
  MaxRevision = 2
  MaxFaults = 1
  MaxReviews = 1
  Nobody = Nobody
  NoReceipt = NoReceipt
  NoChannel = NoChannel
SYMMETRY Alike
INVARIANTS
  TypeOK
  MoneyIsBooked
  ChargedOnce
  OneCommitter
  AcceptedMeansRecorded
PROPERTIES
  TerminalIsFinal
