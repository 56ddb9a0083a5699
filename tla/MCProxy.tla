------------------------------ MODULE MCProxy ------------------------------
(* Two connections: a dashboard beside whatever else comes in, and two clients *)
(* of one AI host.                                                             *)
EXTENDS Proxy

CONSTANTS c1, c2

Tunnels == [c \in Conn |-> {"connect"}]
Dashboards == [c \in Conn |-> IF c = c2 THEN {"status"}
                              ELSE {"plain", "clear", "inference", "garbled"}]
EveryUse == {Tunnels, Dashboards}
OnlyTunnels == {Tunnels}

SomeHeaders == {{}, {"token"}, {"token", "other"}, {"no_bearer"}}
SomeTraffic == {{"events"}, {"upgrade", "json_marker"},
                {"length", "telemetry", "json_marker"}, {"openai_path"}}
=============================================================================
