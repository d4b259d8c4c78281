---------------------------- MODULE MCMcpRegistry ----------------------------
EXTENDS McpRegistry

(* Two servers that share a tool name; a built-in name is offered as well. *)
MCServers == {"s1", "s2"}
MCTools == {"a", "b"}
MCOffers == [s \in MCServers |-> IF s = "s1" THEN {"b"} ELSE {"a", "b"}]
MCConfig(kind, rev, enabled) == [kind |-> kind, rev |-> rev, timeout |-> 1, enabled |-> enabled]
MCConfigs == {MCConfig("http", 1, TRUE), MCConfig("http", 2, TRUE), MCConfig("http", 1, FALSE),
              MCConfig("invalid", 1, TRUE)}
MCEdits == {<<"s1", Absent>>, <<"s1", MCConfig("http", 2, TRUE)>>, <<"s1", MCConfig("http", 1, FALSE)>>,
            <<"s2", MCConfig("http", 1, TRUE)>>, <<"s2", MCConfig("invalid", 1, TRUE)>>}
MCRestore == {<<"s1", Absent>>, <<"s1", MCConfig("http", 1, TRUE)>>}
MCBootOrder == <<"s1">>
MCBootConfig == MCConfig("http", 1, TRUE)

=============================================================================
