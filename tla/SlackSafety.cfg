SPECIFICATION Spec
CONSTANTS
  c1 = c1
  c2 = c2
  cron = cron
  api = api
  Channels = {c1, c2}
  Syncs = {cron, api}
  Scheduled = cron
  MaxPosts = 2
  MaxFaults = 1
SYMMETRY Alike
VIEW Relevant
INVARIANTS
  TypeOK
  GapsExplained
PROPERTIES
  BackfillIsComplete
