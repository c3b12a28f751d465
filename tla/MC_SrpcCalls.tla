----------------------------- MODULE MC_SrpcCalls -----------------------------
(* An instance of SrpcCalls: every machine and every version of a peer,    *)
(* with an old server, one from before the new registration and a new one. *)
EXTENDS SrpcCalls

MCDeviceBuilds == {"arduino", "esp8266", "esp32", "linux"}
MCPeerVersions == 1 .. 28
MCServerVersions == {10, 20, 28}

==============================================================================
