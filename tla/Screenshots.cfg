\* A request ends and nothing follows it.
SPECIFICATION BotSpec
CONSTANTS
  m1 = m1
  m2 = m2
  Message = {m1, m2}
  Skippable = {m1}
  WithFiles = {m2}
  Configured = {"google", "screenshots"}
  PluginTool = {"p"}
  OutgoingName = {"f", "g"}
  MaxOutgoing = 1
  MaxIterations = 1
  MayCall <- CallTools
  MayAnswer <- AnswerWith
  MaxBotFaults = 1
INVARIANT ScreenshotsGoHome
CHECK_DEADLOCK FALSE
