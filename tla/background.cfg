SPECIFICATION MCSpec
CONSTANTS
  Parts = {"traces", "notify", "wakeup", "pricing", "giving", "carding", "desk", "gate"}
  w1 = w1
  w2 = w2
  none = none
  Events = {"dead"}
  InTransaction = {}
  Channels = {"mail", "hook"}
  Wants <- MCWants
  Workers = {w1, w2}
  MaxAttempts = 2
  MaxFaults = 3
SYMMETRY Symmetry
INVARIANTS
  WorkIsAccounted
  ClosedIsDelivered
  PricesHold
PROPERTIES
  LateWorkIsHarmless
