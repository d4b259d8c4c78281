SPECIFICATION Spec
CONSTANTS
  Servers <- MCServers
  Tools <- MCTools
  Handlers = {h1, h2}
  Offers <- MCOffers
  BuiltinTools = {"b"}
  Configs <- MCConfigs
  Edits <- MCEdits
  BootOrder <- MCBootOrder
  BootConfig <- MCBootConfig
  MaxRequests = 2
  MaxCalls = 1
  MaxFaults = 1
INVARIANTS ServedByLiveConnection OneConnectionPerServer SyncAgrees SchemaCacheFresh
PROPERTIES RequestEnds
CHECK_DEADLOCK FALSE
