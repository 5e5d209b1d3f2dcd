SPECIFICATION FairSpec
CONSTANTS
  c1 = c1
  k1 = k1
  d1 = d1
  u1 = u1
  h1 = h1
  h2 = h2
  NoAction = NoAction
  Action = {c1, d1}
  User = {u1}
  Handler = {h1}
  OwnerOf <- OneOwner
  KindOf <- CallAndKick
  TTL = 2
  ExecuteTimeout = 1
  CallTimeout = 1
  StateWriteTimeout = 0
  StaleAfter = 2
  MaxFaults = 1
  MaxCrashes = 1
PROPERTIES
  EveryActionEnds
