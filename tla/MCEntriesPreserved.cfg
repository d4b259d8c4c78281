SPECIFICATION Spec
CONSTANTS
  Handlers = {h1, h2}
  Cli = cli
  Watcher = watcher
  Threads = {h1, h2, cli, watcher}
  Workers = {h1, h2, cli, watcher}
  AgentIds = {"main", "other"}
  Default <- MCDefault
  Blank <- MCBlank
  BadModels = {"bad"}
  MainId = "main"
  NoFile = NoFile
  Garbled = Garbled
  IllTyped = "of another type"
  NoChannels = NoChannels
  NotJson = NotJson
  BadItem = BadItem
  AgentBodies <- MCAgentBodies
  AgentFiles <- MCAgentFiles
  BootFiles <- MCBootFiles
  ChannelBodies <- MCChannelBodies
  ChannelFiles <- MCChannelFiles
  ChannelIds = {1, 2}
  NoTime = NoTime
  MaxEvents = 2
PROPERTIES EntriesPreserved
CHECK_DEADLOCK FALSE
