SPECIFICATION Spec
CONSTANTS
  Servers <- MCServers
  Tools <- MCTools
  Handlers = {h1}
  Offers <- MCOffers
  BuiltinTools = {"b"}
  Configs <- MCConfigs
  Edits <- MCRestore
  BootOrder <- MCBootOrder
  BootConfig <- MCBootConfig
  MaxRequests = 2
  MaxCalls = 0
  MaxFaults = 0
INVARIANT EnabledServerIsStarted
CHECK_DEADLOCK FALSE
