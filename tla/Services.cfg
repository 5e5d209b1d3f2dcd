\* A component stops when its inputs are used up.
SPECIFICATION Spec
CONSTANTS
  j1 = j1
  j2 = j2
  slack = slack
  discord = discord
  Job = {j1, j2}
  Platform = {slack, discord}
  PlatformOf <- AllOnSlack
  Recurring = {j2}
  Cron <- TwoTimes
  Horizon = 2
  MaxJobFaults = 1
  Caller = {c1, c2}
  Executing = {c1}
  Spawns = 2
  MaxLists = 1
  m1 = m1
  m2 = m2
  Message = {m1, m2}
  Skippable = {m1}
  WithFiles = {m2}
  Configured = {"google", "screenshots"}
  PluginTool = {"p"}
  OutgoingName = {"f", "g"}
  MaxOutgoing = 1
  MaxIterations = 1
  MayCall <- CallTools
  MayAnswer <- AnswerWith
  MaxBotFaults = 1
  Thread = {t1, t2}
  Worker = {w1}
  MaxTracked = 1
  MaxNotBot = 1
  NotBotTTL = 1
  LastTick = 2
  MaxChatFaults = 1
  r1 = r1
  r2 = r2
  Request = {r1, r2}
  MayAsk <- AnyWork
  Attached = {a1, a2}
  MaxTries = 2
  MaxWorkFaults = 1
  Room = {g1, g2}
  DiscordRun = {s3, s4}
  PageOf = 1
  MaxSaid = 2
  MaxRoomFaults = 1
  DriveFile = {d1, d2}
  DriveRun = {s1, s2}
  ChangePage = 1
  MaxChanges = 2
  MaxDriveFaults = 1
  n1 = n1
  n2 = n2
  n3 = n3
  n4 = n4
  NotionPage = {n1, n2, n3, n4}
  RootPage = {n1, n2}
  MaxDepth = 2
  Tree <- PagesBelow
  Database <- PagesInDatabases
  Buried <- PagesTooNested
  MaxCrawls = 2
  MaxNotionFaults = 2
  f1 = f1
  f2 = f2
  day1 = day1
  Fact = {f1, f2}
  Topic = {day1}
  TopicOf <- FactsOfADay
  Reader = {slack, discord}
  ReaderOf <- FactsOfReaders
  MaxElsewhere = 1
  MaxGitFaults = 1
VIEW Relevant
INVARIANTS
  ServicesTypeOK
  PostedOncePerRun
  NoRunLost
  CancelledFallsSilent
  OneProcess
  SentAtMost
  ListOfThisSession
  AlwaysSaysSomething
  PromisedFilesGoOut
  NothingIsCutOff
  CompleteCallsAreTaken
  KnownThreadsAreTaken
  OldThreadsAreFound
  ChangesAreNotRepeated
  EditsKeepOtherFields
  AppendedTextsFollow
  BehindTheCursor
  NothingBehindTheToken
  WalkIsComplete
  SavedFactsArrive
CHECK_DEADLOCK FALSE
