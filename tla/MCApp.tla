---------------------------------- MODULE MCApp ----------------------------------
EXTENDS App

MCBlank == [model |-> "m0", mcp |-> "off", prompt |-> "d"]
MCDefault == [main |-> MCBlank]
MCAgentBodies == {[mcp |-> "on", prompt |-> "x"], [model |-> "bad"]}
MCAgentFiles ==
  {[main |-> [prompt |-> "y"], other |-> [mcp |-> "on"]],
   [main |-> [prompt |-> IllTyped], other |-> [mcp |-> "on"]],
   [id \in {"main", IllTyped} |-> [prompt |-> "y"]]}

Feishu(params, enabled) == [type |-> "feishu", name |-> "f", enabled |-> enabled, params |-> params]
MCChannelBodies == {Feishu("q", TRUE), Feishu("q", FALSE)}
MCChannelFiles ==
  {[n \in {0, 1} |-> Feishu(IF n = 0 THEN "q" ELSE "none", TRUE)],
   [n \in {0, 1} |-> IF n = 0 THEN BadItem ELSE Feishu("q", TRUE)]}
MCBootFiles == {<<NoFile, NoChannels>>, <<[other |-> [mcp |-> "on"]], <<Feishu("p", TRUE)>> >>}

==================================================================================
