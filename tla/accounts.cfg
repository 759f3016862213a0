SPECIFICATION MCSpec
CONSTANTS
  Parts = {"keys", "console", "apps", "team", "signup", "subscription"}
  c1 = c1
  c2 = c2
  c3 = c3
  u1 = u1
  u2 = u2
  none = none
  Calls = {c1, c2, c3}
  Kinds = {"create", "patch", "revoke", "rotate"}
  AdminMay = {"disable", "enable"}
  Limits = {1, 2}
  Ends = {}
  Asks <- Asked
  TokenLife = 1
  MaxKeys = 3
  MaxSubs = 1
  MaxSecrets = 1
  MaxNow = 0
SYMMETRY Symmetry
INVARIANTS
  OneInForce
  RevocationEndsLineage
  ToldIsOver
  OverIsOver
  GivenOnce
PROPERTIES
  JoinedByInvitation
