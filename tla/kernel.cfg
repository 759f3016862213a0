SPECIFICATION KSpec
CONSTANTS
  ann = ann
  bob = bob
  out = out
  rev = rev
  k1 = k1
  k2 = k2
  c1 = c1
  c2 = c2
  c3 = c3
  Users = {ann, bob}
  Codes = {out, rev}
  Shards = 2
  Refs = {k1, k2}
  ShardOf <- MCShardOf
  Start <- MCStart
  Commands <- MCCommands
  None = None
  Callers = {c1, c2, c3}
  Scan = Scan
  MaxTries = 2
  ScanLimit = 1
SYMMETRY Alike
CHECK_DEADLOCK FALSE
INVARIANTS
  WalletIsSound
PROPERTIES
  KernelIsAtomic
  FrozenStands
