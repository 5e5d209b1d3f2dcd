SPECIFICATION Spec
CONSTANTS
  c1 = c1
  c2 = c2
  cron = cron
  api = api
  Channels = {c1}
  Syncs = {cron}
  Scheduled = cron
  MaxPosts = 1
  MaxFaults = 0
PROPERTIES
  CutOffIsPickedUp
